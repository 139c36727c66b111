----------------------------- MODULE CompileCache -----------------------------
(***************************************************************************)
(* CompileCache of libs/compose-core/src/compile_cache.rs over a blob      *)
(* backend that keeps what it is given (ContentStore).  An artifact is     *)
(* stored as a framed blob, authenticated by the host's secret, and found  *)
(* through an alias blob that names its key.  Several hosts, each with its *)
(* own secret, share one store.  A step is one call of the backend, and    *)
(* the scan for an alias is one.                                           *)
(***************************************************************************)
EXTENDS Naturals, FiniteSets

CONSTANTS
    Hosts,        \* processes that share the backend
    Keys,         \* compile keys: component, engine version and target
    Artifacts,    \* machine code
    Secrets,
    Missing

ASSUME CacheAssumption ==
    Missing \notin Keys \cup Artifacts \cup Secrets

VARIABLES
    frames,   \* the framed blobs: artifact, with the tag of a key under a secret
    aliases,  \* the alias blobs: a key and the frame it names
    secret,   \* host -> its secret, from its key file
    access,     \* host -> the call it is in
    loaded,   \* host -> what its last load returned
    made,     \* history: the framed blobs that store has written
    promised, \* history: <<secret, key>> pairs for which a store has returned
    spoilt    \* history: the keys stored under two secrets, or whose blobs another
              \* user of the backend touched

cacheVars == <<frames, aliases, secret, access, loaded, made, promised, spoilt>>

Frames == [key : Keys, secret : Secrets, artifact : Artifacts]
Aliases == [key : Keys, frame : Frames]
NoAccess == [stage |-> "idle", key |-> Missing, frame |-> Missing, due |-> "no"]
Accesses == [stage : {"idle", "store_frame", "store_alias", "load_frame"}, key : Keys \cup {Missing},
          frame : Frames \cup {Missing}, due : {"no", "yes"}]

CacheInit ==
    /\ frames = {} /\ aliases = {} /\ made = {} /\ promised = {} /\ spoilt = {}
    /\ secret \in [Hosts -> Secrets]
    /\ access = [h \in Hosts |-> NoAccess]
    /\ loaded = [h \in Hosts |-> Missing]

Tagged(h, k, a) == [key |-> k, secret |-> secret[h], artifact |-> a]
Loads(h, k, a, due) == loaded' = [loaded EXCEPT ![h] = [key |-> k, artifact |-> a, due |-> due]]

AliasOf(k) == {x \in aliases : x.key = k}

\* Variant: store puts the alias, then the framed blob.
AliasFirst(stage) ==
    [idle |-> "store_alias", store_alias |-> "store_frame", store_frame |-> "idle"][stage]

\* store puts the framed blob, then the alias, and returns.
Following(stage) ==
    [idle |-> "store_frame", store_frame |-> "store_alias", store_alias |-> "idle"][stage]

Store(h, k, a) ==
    /\ access[h].stage = "idle"
    /\ access' = [access EXCEPT ![h] = [stage |-> Following("idle"), key |-> k,
                                       frame |-> Tagged(h, k, a), due |-> "no"]]
    /\ loaded' = [loaded EXCEPT ![h] = Missing]
    /\ UNCHANGED <<frames, aliases, secret, made, promised, spoilt>>

\* A put of the store is done.
GoesOn(h) ==
    LET next == Following(access[h].stage) IN
    /\ access' = [access EXCEPT ![h] = IF next = "idle" THEN NoAccess ELSE [@ EXCEPT !.stage = next]]
    /\ promised' = promised \cup (IF next = "idle" THEN {<<secret[h], access[h].key>>} ELSE {})

StoreFrame(h) ==
    /\ access[h].stage = "store_frame"
    /\ frames' = frames \cup {access[h].frame}
    /\ made' = made \cup {access[h].frame}
    /\ GoesOn(h)
    /\ UNCHANGED <<aliases, secret, loaded, spoilt>>

StoreAlias(h) ==
    /\ access[h].stage = "store_alias"
    /\ spoilt' = spoilt \cup {k \in {access[h].key} :
                              \E x \in AliasOf(k) : x.frame.secret # access[h].frame.secret}
    /\ aliases' = aliases \cup {[key |-> access[h].key, frame |-> access[h].frame]}
    /\ GoesOn(h)
    /\ UNCHANGED <<frames, secret, loaded, made>>

\* load: the first alias of the key, in the order list_all happens to have.
LoadAlias(h, k) ==
    /\ access[h].stage = "idle"
    /\ \/ /\ AliasOf(k) = {}
          /\ Loads(h, k, Missing, IF <<secret[h], k>> \in promised THEN "yes" ELSE "no")
          /\ UNCHANGED access
       \/ \E x \in AliasOf(k) :
             /\ access' = [access EXCEPT ![h] = [stage |-> "load_frame", key |-> k, frame |-> x.frame,
                           due |-> IF <<secret[h], k>> \in promised THEN "yes" ELSE "no"]]
             /\ loaded' = [loaded EXCEPT ![h] = Missing]
    /\ UNCHANGED <<frames, aliases, secret, made, promised, spoilt>>

\* Variant: the tag is not compared.
VerifiesAll(h, k, f) == TRUE

\* The tag binds key and artifact to the secret of the host that reads.
Verifies(h, k, f) == f.key = k /\ f.secret = secret[h]

LoadFrame(h) ==
    LET k == access[h].key  f == access[h].frame IN
    /\ access[h].stage = "load_frame"
    /\ Loads(h, k, IF f \in frames /\ Verifies(h, k, f) THEN f.artifact ELSE Missing, access[h].due)
    /\ access' = [access EXCEPT ![h] = NoAccess]
    /\ UNCHANGED <<frames, aliases, secret, made, promised, spoilt>>

\* A host ends at any point; it comes back with its key file, or with a new one.
HostRestarts(h) ==
    /\ \E s \in Secrets : secret' = [secret EXCEPT ![h] = s]
    /\ access' = [access EXCEPT ![h] = NoAccess]
    /\ loaded' = [loaded EXCEPT ![h] = Missing]
    /\ UNCHANGED <<frames, aliases, made, promised, spoilt>>

DeleteFrame(f) ==
    /\ frames' = frames \ {f}
    /\ spoilt' = spoilt \cup {f.key}
    /\ UNCHANGED <<aliases, secret, access, loaded, made, promised>>

DeleteAlias(x) ==
    /\ aliases' = aliases \ {x}
    /\ spoilt' = spoilt \cup {x.key}
    /\ UNCHANGED <<frames, secret, access, loaded, made, promised>>

\* A blob of the shape of an alias, for any key and any frame.
AddAlias(k, f) ==
    /\ aliases' = aliases \cup {[key |-> k, frame |-> f]}
    /\ spoilt' = spoilt \cup {k}
    /\ UNCHANGED <<frames, secret, access, loaded, made, promised>>

CacheNext ==
    \/ \E h \in Hosts :
         \/ StoreFrame(h) \/ StoreAlias(h) \/ LoadFrame(h) \/ HostRestarts(h)
         \/ \E k \in Keys : LoadAlias(h, k) \/ \E a \in Artifacts : Store(h, k, a)
    \/ \E f \in frames : DeleteFrame(f) \/ \E k \in Keys : AddAlias(k, f)
    \/ \E x \in aliases : DeleteAlias(x)

CacheSpec == CacheInit /\ [][CacheNext]_cacheVars

-----------------------------------------------------------------------------

\* What load returns was stored under the key it asked for by a host with the
\* secret of the host that reads, whatever aliases and blobs the backend holds.
OnlyOwnArtifacts ==
    \A h \in Hosts : loaded[h] # Missing /\ loaded[h].artifact # Missing =>
        Tagged(h, loaded[h].key, loaded[h].artifact) \in made

\* After a store of the key has returned, under the secret in use now, a load of
\* the key finds an artifact, however stores of several hosts overlap and end half
\* way, unless hosts of two secrets share the key or another user touched its blobs.
StoredLoads ==
    \A h \in Hosts : loaded[h] # Missing /\ loaded[h].due = "yes" /\ loaded[h].key \notin spoilt
                       => loaded[h].artifact # Missing
=============================================================================
