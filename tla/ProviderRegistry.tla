---------------------------- MODULE ProviderRegistry ----------------------------
(***************************************************************************)
(* The registry of PKCS#11 providers of libs/pkcs11-host-adapter, under    *)
(* one mutex: names, compared without case, to records with an id that     *)
(* counts up to the largest u32 and stays there.                           *)
(***************************************************************************)
EXTENDS Naturals, FiniteSets

CONSTANTS
    Keys,       \* names as they are compared: trimmed and in lower case
    Spellings,  \* ways to write a name
    Paths,      \* module paths
    MaxId,      \* the largest id
    NoProvider

ASSUME RegistryAssumption == MaxId \in Nat \ {0} /\ NoProvider \notin [id : 1 .. MaxId]

VARIABLES
    providers,  \* key -> NoProvider, or its record
    next_id,
    names       \* history: [id, key] of each provider that was ever registered

registryVars == <<providers, next_id, names>>

Records == [id : 1 .. MaxId, name : Keys \X Spellings, module_path : Paths]
Registered == {k \in Keys : providers[k] # NoProvider}

RegistryInit ==
    /\ providers = [k \in Keys |-> NoProvider]
    /\ next_id = 1
    /\ names = {}

\* Known names keep their id; the path and the spelling are the last ones.
Register(k, w, p) ==
    LET id == IF k \in Registered THEN providers[k].id ELSE next_id IN
    /\ providers' = [providers EXCEPT ![k] = [id |-> id, name |-> <<k, w>>, module_path |-> p]]
    /\ next_id' = IF k \in Registered \/ next_id = MaxId THEN next_id ELSE next_id + 1
    /\ names' = names \cup {[id |-> id, key |-> k]}

\* Variant: the id of a provider is given back with it.
UnregisterRecycles(k) ==
    /\ k \in Registered
    /\ providers' = [providers EXCEPT ![k] = NoProvider]
    /\ next_id' = providers[k].id
    /\ UNCHANGED names

Unregister(k) ==
    /\ k \in Registered
    /\ providers' = [providers EXCEPT ![k] = NoProvider]
    /\ UNCHANGED <<next_id, names>>

RegistryNext ==
    \E k \in Keys :
      \/ \E w \in Spellings, p \in Paths : Register(k, w, p)
      \/ Unregister(k)

RegistrySpec == RegistryInit /\ [][RegistryNext]_registryVars

-----------------------------------------------------------------------------

\* An id stands for one name, also for a client that kept it while the provider was
\* removed and others came, until the ids run out: the last one goes to all that follow.
IdsStandForOneName == \A a, b \in names : a.id = b.id /\ a.id < MaxId => a.key = b.key
=============================================================================
