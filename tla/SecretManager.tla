---------------------------- MODULE SecretManager ----------------------------
(***************************************************************************)
(* The secret manager of compose-core (libs/compose-core/src/secrets).     *)
(* Threads share one manager; its token table and its backend table are    *)
(* each guarded by a mutex.  resolve takes "backends" and then "tokens";   *)
(* get_value and get_metadata take "tokens" and then "backends".  A step   *)
(* of this module is the work a thread does between two lock operations    *)
(* or calls into a backend.                                                *)
(***************************************************************************)
EXTENDS Integers, FiniteSets

CONSTANTS
    Threads,         \* callers of the manager
    SecretIds,       \* names a backend may know
    Schemes,         \* URI schemes a backend can be registered under
    Tokens,          \* values generate_token can draw; bounds the resolves
    Ttls,            \* settings of token_ttl, Never or a number of seconds
    Never,           \* TokenTtl::Never
    TimeModulus,     \* 2^64 for the program's u64 seconds
    MaxClock,        \* bound on the clock
    Free,            \* "no thread holds the mutex"
    None             \* "no token yet", "no entry yet"

ASSUME ConstantsAssumption ==
    /\ TimeModulus \in Nat \ {0}
    /\ MaxClock \in Nat
    /\ MaxClock < TimeModulus
    /\ Never \notin Nat
    /\ \A d \in Ttls : d = Never \/ d \in 0 .. TimeModulus - 1
    /\ Free \notin Threads
    /\ None \notin Tokens

VARIABLES
    backends,   \* registered scheme -> the secrets its backend holds
    tokens,     \* live token -> its TokenEntry
    ttl,        \* token_ttl
    clock,      \* what now_secs returns
    holder,     \* mutex -> the thread inside it, or Free
    poisoned,   \* mutexes a panic unwound through
    call,       \* thread -> the call it is in
    answer,     \* thread -> what its last call returned
    drawn,      \* history: every token generate_token ever returned
    revoked     \* history: every token passed to revoke_token

vars == <<backends, tokens, ttl, clock, holder, poisoned, call, answer,
          drawn, revoked>>

Mutexes == {"backends", "tokens"}

Times == 0 .. TimeModulus - 1
Entries == [id : SecretIds, scheme : Schemes, expires : Times \cup {Never}]

(***************************************************************************)
(* Where a thread can be inside a call: "..._backends" and "..._tokens"    *)
(* wait for that mutex; resolve_check and ..._read are inside a backend.   *)
(***************************************************************************)
Stages == {"idle",
           "resolve_backends", "resolve_check", "resolve_tokens",
           "value_tokens", "value_backends", "value_read",
           "meta_tokens", "meta_backends", "meta_read"}

Idle == [stage |-> "idle", token |-> None, entry |-> None, since |-> 0]

Resolving(t) == call[t].stage \in {"resolve_backends", "resolve_check", "resolve_tokens"}
Reading(t) == call[t].stage \notin {"idle", "resolve_backends", "resolve_check",
                                    "resolve_tokens"}

\* What a call can return: nothing yet, an error, a token, a value, metadata.
Nothing == [kind |-> "nothing"]
Error(e) == [kind |-> "error", error |-> e]
Got(kind, tk) == [kind |-> kind, token |-> tk]
\* BackendRefuses: NotFound, AccessDenied or BackendError, from the backend.
Errors == {"InvalidBackend", "BackendRefuses", "InvalidToken", "Expired", "panic"}
Answers == {Nothing} \cup {Error(e) : e \in Errors}
             \cup {Got(k, tk) : k \in {"token", "value", "metadata"}, tk \in Tokens}

\* TokenTtl::expires_at; the sum is a u64.
ExpiresAt(d, now) == IF d = Never THEN Never ELSE (now + d) % TimeModulus
Overflows(d, now) == d # Never /\ now + d >= TimeModulus

\* get_value, validate_token and cleanup all use this comparison.
Expired(entry, now) == entry.expires # Never /\ now > entry.expires

\* Tokens callers can know of: resolve has stored them.
Known == drawn \ {call[t].token : t \in {u \in Threads : Resolving(u)}}

\* Variant: a counter over the table, which repeats once a token is gone.
FreshTokensByCounter == Tokens \ DOMAIN tokens

\* 256 random bits: never a token drawn before.
FreshTokens == Tokens \ drawn

\* Bound: a resolve begins only while there is a token for it to draw.
TokensLeft == Cardinality(FreshTokens) >
                Cardinality({t \in Threads : call[t].stage \in
                                               {"resolve_backends", "resolve_check"}})

-----------------------------------------------------------------------------

Acquire(t, m) == holder' = [holder EXCEPT ![m] = t]
ReleaseAll(t) == holder' = [m \in Mutexes |-> IF holder[m] = t THEN Free ELSE holder[m]]
CanLock(m) == holder[m] = Free /\ m \notin poisoned

GoTo(t, s) == call' = [call EXCEPT ![t].stage = s] /\ UNCHANGED answer
Return(t, a) == call' = [call EXCEPT ![t] = Idle] /\ answer' = [answer EXCEPT ![t] = a]

\* The guards are dropped by the return or by the unwinding.
Leave(t, a) == Return(t, a) /\ ReleaseAll(t)

Init ==
    /\ backends = [s \in {} |-> {}]
    /\ tokens = [tk \in {} |-> None]
    /\ ttl \in Ttls
    /\ clock = 0
    /\ holder = [m \in Mutexes |-> Free]
    /\ poisoned = {}
    /\ call = [t \in Threads |-> Idle]
    /\ answer = [t \in Threads |-> Nothing]
    /\ drawn = {}
    /\ revoked = {}

\* .lock().unwrap() of a poisoned mutex panics; the unwinding drops, and so
\* poisons, every mutex the thread is inside.
LockPoisoned(t, m) ==
    /\ m \in poisoned
    /\ holder[m] = Free
    /\ poisoned' = poisoned \cup {n \in Mutexes : holder[n] = t}
    /\ Leave(t, Error("panic"))
    /\ UNCHANGED <<backends, tokens, ttl, clock, drawn, revoked>>

Begin(t, c) ==
    /\ call[t].stage = "idle"
    /\ call' = [call EXCEPT ![t] = c]
    /\ answer' = [answer EXCEPT ![t] = Nothing]
    /\ UNCHANGED <<backends, tokens, ttl, clock, holder, poisoned, drawn, revoked>>

------------------------------- (* resolve *) -------------------------------

CallResolve(t, id, s) ==
    /\ TokensLeft
    /\ Begin(t, [stage |-> "resolve_backends", token |-> None,
                 entry |-> [id |-> id, scheme |-> s, expires |-> Never],
                 since |-> 0])

\* The backend table is locked and the scheme looked up.
ResolveLocksBackends(t) ==
    /\ call[t].stage = "resolve_backends"
    /\ \/ /\ CanLock("backends")
          /\ call[t].entry.scheme \notin DOMAIN backends
          /\ Return(t, Error("InvalidBackend"))
          /\ UNCHANGED holder
       \/ /\ CanLock("backends")
          /\ call[t].entry.scheme \in DOMAIN backends
          /\ GoTo(t, "resolve_check")
          /\ Acquire(t, "backends")
    /\ UNCHANGED <<backends, tokens, ttl, clock, poisoned, drawn, revoked>>

\* Variant: the early return keeps the backend table locked.
ResolveIsRefusedLeaks(t) ==
    /\ call[t].stage = "resolve_check"
    /\ Return(t, Error("BackendRefuses"))
    /\ UNCHANGED <<backends, tokens, ttl, clock, holder, poisoned, drawn, revoked>>

\* A backend may refuse or fail to give out a secret it holds, too.
ResolveIsRefused(t) ==
    /\ call[t].stage = "resolve_check"
    /\ Leave(t, Error("BackendRefuses"))
    /\ UNCHANGED <<backends, tokens, ttl, clock, poisoned, drawn, revoked>>

\* The secret exists: draw the token and compute its expiry, which wraps in a
\* build without overflow checks, then wait for the token table with the
\* backend table still locked.
ResolveDrawsToken(t) ==
    /\ call[t].stage = "resolve_check"
    /\ call[t].entry.id \in backends[call[t].entry.scheme]
    /\ \E tk \in FreshTokens :
         /\ drawn' = drawn \cup {tk}
         /\ call' = [call EXCEPT ![t].stage = "resolve_tokens", ![t].token = tk,
                                 ![t].entry.expires = ExpiresAt(ttl, clock)]
    /\ UNCHANGED <<backends, tokens, ttl, clock, holder, poisoned, answer, revoked>>

\* Variant: the expiry is computed inside the token table's critical section.
ResolvePanicsInInsert(t) ==
    /\ call[t].stage = "resolve_check"
    /\ Overflows(ttl, clock)
    /\ poisoned' = poisoned \cup {"tokens"}
    /\ Leave(t, Error("panic"))
    /\ UNCHANGED <<backends, tokens, ttl, clock, drawn, revoked>>

\* now + ttl overflows in a build with overflow checks.
ResolvePanics(t) ==
    /\ call[t].stage = "resolve_check"
    /\ call[t].entry.id \in backends[call[t].entry.scheme]
    /\ Overflows(ttl, clock)
    /\ poisoned' = poisoned \cup {m \in Mutexes : holder[m] = t}
    /\ Leave(t, Error("panic"))
    /\ UNCHANGED <<backends, tokens, ttl, clock, drawn, revoked>>

ResolveStoresToken(t) ==
    /\ call[t].stage = "resolve_tokens"
    /\ CanLock("tokens")
    /\ tokens' = [tk \in DOMAIN tokens \cup {call[t].token} |->
                    IF tk = call[t].token THEN call[t].entry ELSE tokens[tk]]
    /\ Leave(t, Got("token", call[t].token))
    /\ UNCHANGED <<backends, ttl, clock, poisoned, drawn, revoked>>

-------------------- (* get_value and get_metadata *) ----------------------

\* Only get_value looks at the clock.
CallRead(t, s, tk) ==
    Begin(t, [stage |-> s, token |-> tk, entry |-> None,
              since |-> IF s = "value_tokens" THEN clock ELSE 0])

\* A read refused under the token lock alone.
Refuse(t, e) ==
    /\ CanLock("tokens")
    /\ Return(t, Error(e))
    /\ UNCHANGED <<backends, tokens, ttl, clock, holder, poisoned, drawn, revoked>>

\* The entry is found; the token lock is kept while waiting for the other.
Accept(t, next) ==
    /\ CanLock("tokens")
    /\ Acquire(t, "tokens")
    /\ call' = [call EXCEPT ![t].stage = next, ![t].entry = tokens[call[t].token]]
    /\ UNCHANGED <<backends, tokens, ttl, clock, poisoned, answer, drawn, revoked>>

\* Variant: no expiry check.
GetValueIgnoresExpiry(t) ==
    /\ call[t].stage = "value_tokens"
    /\ \/ call[t].token \notin DOMAIN tokens /\ Refuse(t, "InvalidToken")
       \/ call[t].token \in DOMAIN tokens /\ Accept(t, "value_backends")

GetValueLocksTokens(t) ==
    /\ call[t].stage = "value_tokens"
    /\ \/ call[t].token \notin DOMAIN tokens /\ Refuse(t, "InvalidToken")
       \/ /\ call[t].token \in DOMAIN tokens
          /\ Expired(tokens[call[t].token], clock)
          /\ Refuse(t, "Expired")
       \/ /\ call[t].token \in DOMAIN tokens
          /\ ~Expired(tokens[call[t].token], clock)
          /\ Accept(t, "value_backends")

\* get_metadata does not look at expires_at.
GetMetadataLocksTokens(t) ==
    /\ call[t].stage = "meta_tokens"
    /\ \/ call[t].token \notin DOMAIN tokens /\ Refuse(t, "InvalidToken")
       \/ call[t].token \in DOMAIN tokens /\ Accept(t, "meta_backends")

\* A scheme once registered is never unregistered, so the lookup succeeds.
ReadLocksBackends(t, s, next) ==
    /\ call[t].stage = s
    /\ CanLock("backends")
    /\ Acquire(t, "backends")
    /\ GoTo(t, next)
    /\ UNCHANGED <<backends, tokens, ttl, clock, poisoned, drawn, revoked>>

\* Variant: the entry is cloned and the token table unlocked first, so that the
\* two mutexes are never nested.
ReadUnlocksTokens(t, s, next) ==
    /\ call[t].stage = s
    /\ CanLock("backends")
    /\ holder' = [backends |-> t, tokens |-> Free]
    /\ GoTo(t, next)
    /\ UNCHANGED <<backends, tokens, ttl, clock, poisoned, drawn, revoked>>
GetValueUnlocksTokens(t) == ReadUnlocksTokens(t, "value_backends", "value_read")
GetMetadataUnlocksTokens(t) == ReadUnlocksTokens(t, "meta_backends", "meta_read")

GetValueLocksBackends(t) == ReadLocksBackends(t, "value_backends", "value_read")
GetMetadataLocksBackends(t) == ReadLocksBackends(t, "meta_backends", "meta_read")

\* The backend answers with both mutexes held: a secret it holds, or an error.
ReadReturns(t, s, kind) ==
    /\ call[t].stage = s
    /\ \/ /\ call[t].entry.id \in backends[call[t].entry.scheme]
          /\ Leave(t, Got(kind, call[t].token))
       \/ Leave(t, Error("BackendRefuses"))
    /\ UNCHANGED <<backends, tokens, ttl, clock, poisoned, drawn, revoked>>

GetValueReturns(t) == ReadReturns(t, "value_read", "value")
GetMetadataReturns(t) == ReadReturns(t, "meta_read", "metadata")

------------------- (* one critical section each *) ------------------------

RevokeToken(t, tk) ==
    /\ call[t].stage = "idle"
    /\ CanLock("tokens")
    /\ tokens' = [k \in DOMAIN tokens \ {tk} |-> tokens[k]]
    /\ revoked' = revoked \cup {tk}
    /\ UNCHANGED <<backends, ttl, clock, holder, poisoned, call, answer, drawn>>

CleanupExpiredTokens(t) ==
    /\ call[t].stage = "idle"
    /\ CanLock("tokens")
    /\ tokens' = [k \in {tk \in DOMAIN tokens : ~Expired(tokens[tk], clock)} |-> tokens[k]]
    /\ UNCHANGED <<backends, ttl, clock, holder, poisoned, call, answer, drawn, revoked>>

\* Replaces the backend of the scheme, with whatever the new one holds.
RegisterBackend(t, s, held) ==
    /\ call[t].stage = "idle"
    /\ CanLock("backends")
    /\ backends' = [r \in DOMAIN backends \cup {s} |-> IF r = s THEN held ELSE backends[r]]
    /\ UNCHANGED <<tokens, ttl, clock, holder, poisoned, call, answer, drawn, revoked>>

\* set_token_ttl takes &mut self: no other call is in progress.
SetTokenTtl(d) ==
    /\ \A t \in Threads : call[t].stage = "idle"
    /\ ttl' = d
    /\ UNCHANGED <<backends, tokens, clock, holder, poisoned, call, answer, drawn, revoked>>

\* The content of a backend such as a PKCS#11 token changes on its own.
BackendChanges(s, held) ==
    /\ s \in DOMAIN backends
    /\ backends' = [backends EXCEPT ![s] = held]
    /\ UNCHANGED <<tokens, ttl, clock, holder, poisoned, call, answer, drawn, revoked>>

\* The wall clock can be set back; a read in progress remembers the lowest
\* time it could have seen.
ClockMoves ==
    /\ \/ clock < MaxClock /\ clock' = clock + 1
       \/ clock > 0 /\ clock' = clock - 1
    /\ call' = [t \in Threads |->
                  [call[t] EXCEPT !.since = IF clock' < @ THEN clock' ELSE @]]
    /\ UNCHANGED <<backends, tokens, ttl, holder, poisoned, answer, drawn, revoked>>

-----------------------------------------------------------------------------

\* A step of a call already begun.
Step(t) ==
    \/ ResolveLocksBackends(t)
    \/ ResolveIsRefused(t)
    \/ ResolveDrawsToken(t)
    \/ ResolvePanics(t)
    \/ ResolveStoresToken(t)
    \/ GetValueLocksTokens(t)
    \/ GetMetadataLocksTokens(t)
    \/ GetValueLocksBackends(t)
    \/ GetMetadataLocksBackends(t)
    \/ GetValueReturns(t)
    \/ GetMetadataReturns(t)
    \/ call[t].stage \in {"resolve_backends", "value_backends", "meta_backends"}
         /\ LockPoisoned(t, "backends")
    \/ call[t].stage \in {"resolve_tokens", "value_tokens", "meta_tokens"}
         /\ LockPoisoned(t, "tokens")

Next ==
    \/ \E t \in Threads :
         \/ Step(t)
         \/ \E id \in SecretIds, s \in Schemes : CallResolve(t, id, s)
         \/ \E tk \in Known : CallRead(t, "value_tokens", tk)
         \/ \E tk \in Known : CallRead(t, "meta_tokens", tk)
         \/ \E tk \in Known : RevokeToken(t, tk)
         \/ CleanupExpiredTokens(t)
         \/ \E s \in Schemes, held \in SUBSET SecretIds : RegisterBackend(t, s, held)
    \/ \E d \in Ttls : SetTokenTtl(d)
    \/ \E s \in Schemes, held \in SUBSET SecretIds : BackendChanges(s, held)
    \/ ClockMoves

Spec == Init /\ [][Next]_vars

\* The operating system runs every thread that can run.
FairSpec == Spec /\ \A t \in Threads : WF_vars(Step(t))

\* The same, and a mutex that keeps becoming free is handed to every waiter.
StronglyFairSpec == Spec /\ \A t \in Threads : SF_vars(Step(t))

-----------------------------------------------------------------------------

\* The expiry of a stored entry fits the u64 it is kept in, and every mutex, call and
\* answer is one the code can be in.
TypeOK ==
    /\ DOMAIN backends \subseteq Schemes
    /\ \A s \in DOMAIN backends : backends[s] \subseteq SecretIds
    /\ DOMAIN tokens \subseteq Tokens
    /\ \A tk \in DOMAIN tokens : tokens[tk] \in Entries
    /\ ttl \in Ttls
    /\ clock \in 0 .. MaxClock
    /\ holder \in [Mutexes -> Threads \cup {Free}]
    /\ poisoned \subseteq Mutexes
    /\ call \in [Threads -> [stage : Stages, token : Tokens \cup {None},
                             entry : Entries \cup {None}, since : 0 .. MaxClock]]
    /\ answer \in [Threads -> Answers]
    /\ drawn \subseteq Tokens
    /\ revoked \subseteq Tokens

\* A token passed to revoke_token never comes back: no later resolve, and no
\* call in flight while it was revoked, puts it back in the table that
\* get_value (mod.rs:195) trusts.
RevokedStaysRevoked == revoked \cap DOMAIN tokens = {}

\* get_value (mod.rs:195-213) hands a value out only while the token is still
\* in the table, however long it waited for the backend table after its
\* check: no revoke_token or cleanup slips in between.
ValueNeedsLiveToken ==
    [][\A t \in Threads :
         answer'[t] # answer[t] /\ answer'[t].kind = "value"
           => answer'[t].token \in DOMAIN tokens]_vars

\* A get_value yields no value if the token had expired at every time the
\* clock showed while the call was in progress, whatever happened to the token
\* table and however the clock was set meanwhile (mod.rs:201).
NoValueAfterExpiry ==
    [][\A t \in Threads :
         answer'[t] # answer[t] /\ answer'[t].kind = "value"
           => ~Expired(tokens[answer'[t].token], call[t].since)]_vars

\* A token leaves the table only when it is revoked, or when get_value would
\* have answered Expired: cleanup_expired_tokens and get_value agree on the
\* last second of a token's life (mod.rs:201, 243).
OnlyExpiredAreReaped ==
    [][\A tk \in DOMAIN tokens \ DOMAIN tokens' :
         tk \in revoked' \/ Expired(tokens[tk], clock)]_vars

\* The token table is poisoned only by a read that ran into a backend table
\* poisoned before it: a panic inside resolve happens before it takes the
\* token table, so revoke_token keeps working until somebody reads.
PoisonSpreadsFromBackends == "tokens" \in poisoned => "backends" \in poisoned

\* The manager implements the store of bearer tokens its callers rely on.
Store == INSTANCE TokenStore WITH issued <- Known, live <- DOMAIN tokens
ImplementsTokenStore == Store!Spec

\* Callers that never overlap a resolve with a read see every mutex released
\* again and again: only the opposite lock orders of the two (mod.rs:189, 208)
\* can block the manager, no early return, error or panic does.
Overlap == \E t, u \in Threads : Resolving(t) /\ Reading(u)
LocksAreReleased == []~Overlap => \A m \in Mutexes : []<>(holder[m] = Free)

\* "resolve: ... returns a token that can be used to access it"
\* (wit/std-secrets/secrets.wit): a resolve that began returns.
ResolveReturns == \A t \in Threads : Resolving(t) ~> ~Resolving(t)
=============================================================================
