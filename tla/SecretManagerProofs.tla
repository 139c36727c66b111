------------------------ MODULE SecretManagerProofs ------------------------
(* Proofs about SecretManager, for any number of threads, secrets, backends *)
(* and tokens, whether now + ttl panics or wraps, and a clock set back.     *)
EXTENDS SecretManager, TLAPS

CallType == [stage : Stages, token : Tokens \cup {None},
             entry : Entries \cup {None}, since : 0 .. MaxClock]

(***************************************************************************)
(* A resolve, and a read past its first lookup, carries a TokenEntry; a     *)
(* resolve that drew a token, and every read, carries that token.          *)
(***************************************************************************)
Carries ==
    \A t \in Threads :
      /\ call[t].stage \notin {"idle", "value_tokens", "meta_tokens"}
           => call[t].entry \in Entries
      /\ call[t].stage \notin {"idle", "resolve_backends", "resolve_check"}
           => call[t].token \in Tokens

TypeInv == TypeOK /\ Carries

LEMMA ExpiresAtType ==
    ASSUME NEW d \in Ttls, NEW now \in 0 .. MaxClock
    PROVE  ExpiresAt(d, now) \in Times \cup {Never}
<1>1. CASE d = Never
  BY <1>1 DEF ExpiresAt
<1>2. CASE d # Never
  <2>1. now + d \in Nat
    BY <1>2, ConstantsAssumption
  <2>2. (now + d) % TimeModulus \in 0 .. TimeModulus - 1
    BY <2>1, ConstantsAssumption, Z3
  <2> QED BY <1>2, <2>2 DEF ExpiresAt, Times
<1> QED BY <1>1, <1>2

LEMMA ReleaseAllType ==
    ASSUME TypeOK, NEW t \in Threads, ReleaseAll(t)
    PROVE  holder' \in [Mutexes -> Threads \cup {Free}]
BY DEF TypeOK, ReleaseAll

LEMMA ReturnType ==
    ASSUME TypeOK, Carries, NEW t \in Threads, NEW a \in Answers, Return(t, a)
    PROVE  /\ call' \in [Threads -> CallType]
           /\ answer' \in [Threads -> Answers]
           /\ Carries'
<1>1. Idle \in CallType
  BY ConstantsAssumption DEF Idle, CallType, Stages
<1>2. call' \in [Threads -> CallType] /\ answer' \in [Threads -> Answers]
  BY <1>1 DEF TypeOK, Return, CallType
<1>3. Carries'
  BY DEF Return, Carries, Idle, TypeOK
<1> QED BY <1>2, <1>3

LEMMA InitTypeInv == Init => TypeInv
<1> SUFFICES ASSUME Init PROVE TypeInv
  OBVIOUS
<1>1. Idle \in CallType
  BY ConstantsAssumption DEF Idle, CallType, Stages
<1>2. Nothing \in Answers
  BY DEF Answers
<1>3. TypeOK
  BY <1>1, <1>2, ConstantsAssumption DEF Init, TypeOK, CallType, Mutexes
<1>4. Carries
  BY DEF Init, Carries, Idle
<1> QED BY <1>3, <1>4 DEF TypeInv

LEMMA AnswerTypes ==
    /\ Nothing \in Answers
    /\ \A e \in Errors : Error(e) \in Answers
    /\ \A k \in {"token", "value", "metadata"}, tk \in Tokens : Got(k, tk) \in Answers
BY DEF Answers

(***************************************************************************)
(* A new call and a step that ends the call leave the types alone; the     *)
(* other steps are checked one by one.                                     *)
(***************************************************************************)
LEMMA BeginPreservesType ==
    ASSUME TypeInv, NEW t \in Threads, NEW c \in CallType, Begin(t, c),
           c.stage \notin {"idle", "value_tokens", "meta_tokens"} => c.entry \in Entries,
           c.stage \notin {"idle", "resolve_backends", "resolve_check"} => c.token \in Tokens
    PROVE  TypeInv'
<1>1. call' \in [Threads -> CallType] /\ answer' \in [Threads -> Answers]
  BY AnswerTypes DEF TypeInv, TypeOK, Begin, CallType
<1>2. TypeOK'
  BY <1>1 DEF TypeInv, TypeOK, Begin, CallType
<1>3. Carries'
  BY DEF TypeInv, TypeOK, Carries, Begin
<1> QED BY <1>2, <1>3 DEF TypeInv

LEMMA LeavePreservesType ==
    ASSUME TypeInv, NEW t \in Threads, NEW a \in Answers, Leave(t, a),
           DOMAIN tokens' \subseteq Tokens,
           \A tk \in DOMAIN tokens' : tokens'[tk] \in Entries,
           poisoned' \subseteq Mutexes,
           UNCHANGED <<backends, ttl, clock, drawn, revoked>>
    PROVE  TypeInv'
<1>1. holder' \in [Mutexes -> Threads \cup {Free}]
  BY ReleaseAllType DEF Leave, TypeInv
<1>2. /\ call' \in [Threads -> CallType]
      /\ answer' \in [Threads -> Answers]
      /\ Carries'
  BY ReturnType DEF Leave, TypeInv
<1> QED BY <1>1, <1>2 DEF TypeInv, TypeOK, CallType

LEMMA StepPreservesType ==
    ASSUME TypeInv, NEW t \in Threads, Step(t)
    PROVE  TypeInv'
<1> USE AnswerTypes DEF Errors
<1>1. CASE ResolveLocksBackends(t)
  <2>1. CASE Return(t, Error("InvalidBackend")) /\ UNCHANGED holder
    <3>1. /\ call' \in [Threads -> CallType]
          /\ answer' \in [Threads -> Answers]
          /\ Carries'
      BY <2>1, ReturnType DEF TypeInv
    <3> QED BY <1>1, <2>1, <3>1 DEF ResolveLocksBackends, TypeInv, TypeOK, CallType
  <2>2. CASE /\ call[t].stage = "resolve_backends"
             /\ GoTo(t, "resolve_check")
             /\ Acquire(t, "backends")
    BY <1>1, <2>2 DEF ResolveLocksBackends, GoTo, Acquire, TypeInv, TypeOK,
                      Carries, Stages, Mutexes
  <2> QED BY <1>1, <2>1, <2>2 DEF ResolveLocksBackends
<1>2. CASE ResolveIsRefused(t)
  BY <1>2, LeavePreservesType DEF ResolveIsRefused, TypeInv, TypeOK
<1>3. CASE ResolveDrawsToken(t)
  <2>1. call[t].entry \in Entries
    BY <1>3 DEF ResolveDrawsToken, TypeInv, Carries
  <2>2. PICK tk \in FreshTokens :
          /\ drawn' = drawn \cup {tk}
          /\ call' = [call EXCEPT ![t].stage = "resolve_tokens", ![t].token = tk,
                                  ![t].entry.expires = ExpiresAt(ttl, clock)]
    BY <1>3 DEF ResolveDrawsToken
  <2>3. tk \in Tokens
    BY DEF FreshTokens
  <2>4. ExpiresAt(ttl, clock) \in Times \cup {Never}
    BY ExpiresAtType DEF TypeInv, TypeOK
  <2>5. [call[t].entry EXCEPT !.expires = ExpiresAt(ttl, clock)] \in Entries
    BY <2>1, <2>4 DEF Entries
  <2>6. call' = [call EXCEPT ![t] =
                   [call[t] EXCEPT !.stage = "resolve_tokens", !.token = tk,
                      !.entry = [call[t].entry EXCEPT !.expires = ExpiresAt(ttl, clock)]]]
    BY <2>2 DEF TypeInv, TypeOK
  <2>7. [call[t] EXCEPT !.stage = "resolve_tokens", !.token = tk,
           !.entry = [call[t].entry EXCEPT !.expires = ExpiresAt(ttl, clock)]]
          \in CallType
    BY <2>3, <2>5 DEF TypeInv, TypeOK, CallType, Stages
  <2>8. call' \in [Threads -> CallType]
    BY <2>6, <2>7 DEF TypeInv, TypeOK, CallType
  <2>9. Carries'
    BY <2>3, <2>5, <2>6 DEF TypeInv, TypeOK, Carries
  <2> QED BY <1>3, <2>2, <2>3, <2>8, <2>9
          DEF ResolveDrawsToken, TypeInv, TypeOK, CallType
<1>4. CASE ResolvePanics(t)
  <2>1. poisoned' \subseteq Mutexes
    BY <1>4 DEF ResolvePanics, TypeInv, TypeOK
  <2> QED BY <1>4, <2>1, LeavePreservesType DEF ResolvePanics, TypeInv, TypeOK
<1>5. CASE ResolveStoresToken(t)
  <2>1. call[t].entry \in Entries /\ call[t].token \in Tokens
    BY <1>5 DEF ResolveStoresToken, TypeInv, Carries
  <2>2. /\ DOMAIN tokens' \subseteq Tokens
        /\ \A tk \in DOMAIN tokens' : tokens'[tk] \in Entries
    BY <1>5, <2>1 DEF ResolveStoresToken, TypeInv, TypeOK
  <2> QED BY <1>5, <2>1, <2>2, LeavePreservesType DEF ResolveStoresToken, TypeInv, TypeOK
<1>6. ASSUME NEW e \in Errors, Refuse(t, e) PROVE TypeInv'
  <2>1. /\ call' \in [Threads -> CallType]
        /\ answer' \in [Threads -> Answers]
        /\ Carries'
    BY <1>6, ReturnType DEF Refuse, TypeInv
  <2> QED BY <1>6, <2>1 DEF Refuse, TypeInv, TypeOK, CallType
<1>7. ASSUME NEW next \in {"value_backends", "meta_backends"}, Accept(t, next),
             call[t].stage \in {"value_tokens", "meta_tokens"},
             call[t].token \in DOMAIN tokens
      PROVE  TypeInv'
  <2>1. call' = [call EXCEPT ![t] =
                   [call[t] EXCEPT !.stage = next, !.entry = tokens[call[t].token]]]
    BY <1>7 DEF Accept, TypeInv, TypeOK
  <2>2. tokens[call[t].token] \in Entries /\ call[t].token \in Tokens
    BY <1>7 DEF TypeInv, TypeOK, Carries
  <2>3. call' \in [Threads -> CallType] /\ Carries'
    BY <2>1, <2>2, <1>7 DEF TypeInv, TypeOK, CallType, Stages, Carries
  <2> QED BY <1>7, <2>3 DEF Accept, Acquire, TypeInv, TypeOK, CallType, Mutexes
<1>8. ASSUME NEW s \in {"value_backends", "meta_backends"},
             NEW next \in {"value_read", "meta_read"}, ReadLocksBackends(t, s, next)
      PROVE  TypeInv'
  <2>1. call' = [call EXCEPT ![t] = [call[t] EXCEPT !.stage = next]]
    BY <1>8 DEF ReadLocksBackends, GoTo, TypeInv, TypeOK
  <2>2. call' \in [Threads -> CallType] /\ Carries'
    BY <2>1, <1>8 DEF ReadLocksBackends, TypeInv, TypeOK, CallType, Stages, Carries
  <2> QED BY <1>8, <2>2 DEF ReadLocksBackends, GoTo, Acquire, TypeInv, TypeOK,
                           CallType, Mutexes
<1>9. ASSUME NEW s \in {"value_read", "meta_read"}, NEW kind \in {"value", "metadata"},
             ReadReturns(t, s, kind)
      PROVE  TypeInv'
  <2>1. call[t].token \in Tokens
    BY <1>9 DEF ReadReturns, TypeInv, Carries
  <2>2. PICK a \in Answers : Leave(t, a)
    BY <1>9, <2>1 DEF ReadReturns
  <2> QED BY <1>9, <2>2, LeavePreservesType DEF ReadReturns, TypeInv, TypeOK
<1>10. ASSUME NEW m \in Mutexes, LockPoisoned(t, m) PROVE TypeInv'
  <2>1. poisoned' \subseteq Mutexes
    BY <1>10 DEF LockPoisoned, TypeInv, TypeOK
  <2> QED BY <1>10, <2>1, LeavePreservesType DEF LockPoisoned, TypeInv, TypeOK
<1>11. GetValueLocksTokens(t) => TypeInv'
  BY <1>6, <1>7 DEF GetValueLocksTokens
<1>12. GetMetadataLocksTokens(t) => TypeInv'
  BY <1>6, <1>7 DEF GetMetadataLocksTokens
<1>13. GetValueLocksBackends(t) \/ GetMetadataLocksBackends(t) => TypeInv'
  BY <1>8 DEF GetValueLocksBackends, GetMetadataLocksBackends
<1>14. GetValueReturns(t) \/ GetMetadataReturns(t) => TypeInv'
  BY <1>9 DEF GetValueReturns, GetMetadataReturns
<1> QED BY <1>1, <1>2, <1>3, <1>4, <1>5, <1>10, <1>11, <1>12, <1>13, <1>14
        DEF Step, Mutexes

\* The clock changes nothing of a call but the time it may have seen.
LEMMA ClockKeepsCalls ==
    ASSUME call \in [Threads -> CallType], ClockMoves, NEW t \in Threads
    PROVE  /\ call'[t].stage = call[t].stage
           /\ call'[t].token = call[t].token
           /\ call'[t].entry = call[t].entry
<1>1. call'[t] = [call[t] EXCEPT !.since = IF clock' < @ THEN clock' ELSE @]
  BY DEF ClockMoves
<1>2. call[t] \in CallType
  OBVIOUS
<1> QED BY <1>1, <1>2 DEF CallType

LEMMA NextPreservesType == TypeInv /\ [Next]_vars => TypeInv'
<1> SUFFICES ASSUME TypeInv, [Next]_vars PROVE TypeInv'
  OBVIOUS
<1>1. ASSUME NEW t \in Threads, Step(t) PROVE TypeInv'
  BY <1>1, StepPreservesType
<1>2. ASSUME NEW t \in Threads, NEW id \in SecretIds, NEW s \in Schemes,
             CallResolve(t, id, s)
      PROVE  TypeInv'
  <2> DEFINE c == [stage |-> "resolve_backends", token |-> None,
                   entry |-> [id |-> id, scheme |-> s, expires |-> Never], since |-> 0]
  <2>1. c \in CallType /\ c.entry \in Entries
    BY ConstantsAssumption DEF CallType, Stages, Entries
  <2>2. Begin(t, c)
    BY <1>2 DEF CallResolve
  <2>3. c.stage = "resolve_backends"
    OBVIOUS
  <2> HIDE DEF c
  <2> QED BY <2>1, <2>2, <2>3, BeginPreservesType
<1>3. ASSUME NEW t \in Threads, NEW tk \in Known, NEW s \in {"value_tokens", "meta_tokens"},
             CallRead(t, s, tk)
      PROVE  TypeInv'
  <2> DEFINE c == [stage |-> s, token |-> tk, entry |-> None,
                   since |-> IF s = "value_tokens" THEN clock ELSE 0]
  <2>1. tk \in Tokens /\ clock \in 0 .. MaxClock /\ 0 \in 0 .. MaxClock
    BY ConstantsAssumption DEF Known, TypeInv, TypeOK
  <2>2. c \in CallType /\ c.token \in Tokens
    BY <2>1 DEF CallType, Stages, TypeInv, TypeOK
  <2>3. Begin(t, c)
    BY <1>3 DEF CallRead
  <2>4. c.stage \in {"value_tokens", "meta_tokens"}
    OBVIOUS
  <2> HIDE DEF c
  <2> QED BY <2>2, <2>3, <2>4, BeginPreservesType
<1>4. ASSUME NEW t \in Threads, NEW tk \in Known, RevokeToken(t, tk) PROVE TypeInv'
  BY <1>4 DEF RevokeToken, Known, TypeInv, TypeOK, Carries
<1>5. ASSUME NEW t \in Threads, CleanupExpiredTokens(t) PROVE TypeInv'
  BY <1>5 DEF CleanupExpiredTokens, TypeInv, TypeOK, Carries
<1>6. ASSUME NEW t \in Threads, NEW s \in Schemes, NEW held \in SUBSET SecretIds,
             RegisterBackend(t, s, held)
      PROVE  TypeInv'
  BY <1>6 DEF RegisterBackend, TypeInv, TypeOK, Carries
<1>7. ASSUME NEW d \in Ttls, SetTokenTtl(d) PROVE TypeInv'
  BY <1>7 DEF SetTokenTtl, TypeInv, TypeOK, Carries
<1>8. ASSUME NEW s \in Schemes, NEW held \in SUBSET SecretIds, BackendChanges(s, held)
      PROVE  TypeInv'
  BY <1>8 DEF BackendChanges, TypeInv, TypeOK, Carries
<1>9. CASE ClockMoves
  <2>1. clock' \in 0 .. MaxClock
    BY <1>9, ConstantsAssumption DEF ClockMoves, TypeInv, TypeOK
  <2>2. call' \in [Threads -> CallType]
    BY <1>9, <2>1 DEF ClockMoves, TypeInv, TypeOK, CallType
  <2>3. \A t \in Threads : call'[t].stage = call[t].stage /\ call'[t].token = call[t].token
                            /\ call'[t].entry = call[t].entry
    BY <1>9, ClockKeepsCalls DEF TypeInv, TypeOK, CallType
  <2> QED BY <1>9, <2>1, <2>2, <2>3 DEF ClockMoves, TypeInv, TypeOK, CallType, Carries
<1>10. CASE UNCHANGED vars
  BY <1>10 DEF vars, TypeInv, TypeOK, Carries
<1> QED BY <1>1, <1>2, <1>3, <1>4, <1>5, <1>6, <1>7, <1>8, <1>9, <1>10 DEF Next

(***************************************************************************)
(* Every variable of the manager keeps its type in every execution.        *)
(***************************************************************************)
THEOREM TypeCorrect == Spec => []TypeOK
<1>1. Init => TypeInv
  BY InitTypeInv
<1>2. TypeInv /\ [Next]_vars => TypeInv'
  BY NextPreservesType
<1>3. TypeInv => TypeOK
  BY DEF TypeInv
<1> QED BY <1>1, <1>2, <1>3, PTL DEF Spec

-----------------------------------------------------------------------------
(***************************************************************************)
(* The mutexes.  A thread is inside a mutex exactly at the stages between  *)
(* its lock and its return; without this the rest is not inductive.        *)
(***************************************************************************)
InsideTokens == {"value_backends", "value_read", "meta_backends", "meta_read"}
InsideBackends == {"resolve_check", "resolve_tokens", "value_read", "meta_read"}

LockInv ==
    \A t \in Threads :
      /\ holder["tokens"] = t <=> call[t].stage \in InsideTokens
      /\ holder["backends"] = t <=> call[t].stage \in InsideBackends

(***************************************************************************)
(* The tokens.  What is stored or revoked was drawn; a token waiting to be *)
(* stored is neither; a read past its check still finds its token stored.  *)
(***************************************************************************)
TokenInv ==
    /\ DOMAIN tokens \subseteq drawn
    /\ revoked \subseteq drawn
    /\ revoked \cap DOMAIN tokens = {}
    /\ \A t \in Threads :
         /\ call[t].stage = "resolve_tokens"
              => call[t].token \in drawn \ (revoked \cup DOMAIN tokens)
         /\ call[t].stage \in InsideTokens => call[t].token \in DOMAIN tokens

PoisonInv == PoisonSpreadsFromBackends

IInv == TypeInv /\ LockInv /\ TokenInv /\ PoisonInv

LEMMA InitIInv == Init => IInv
<1> SUFFICES ASSUME Init PROVE IInv
  OBVIOUS
<1>1. TypeInv
  BY InitTypeInv
<1>2. LockInv
  BY ConstantsAssumption DEF Init, LockInv, InsideTokens, InsideBackends, Idle, Mutexes
<1>3. TokenInv
  BY DEF Init, TokenInv, InsideTokens, Idle
<1>4. PoisonInv
  BY DEF Init, PoisonInv, PoisonSpreadsFromBackends
<1> QED BY <1>1, <1>2, <1>3, <1>4 DEF IInv

(***************************************************************************)
(* A step that ends thread t's call: the mutexes t was inside become free  *)
(* and t carries no token any more.                                        *)
(***************************************************************************)
LEMMA LeaveLocks ==
    ASSUME IInv, NEW t \in Threads, NEW a, Leave(t, a)
    PROVE  LockInv'
<1>1. /\ call'[t].stage = "idle"
      /\ \A u \in Threads \ {t} : call'[u] = call[u]
  BY DEF Leave, Return, IInv, TypeInv, TypeOK, Idle
<1>2. \A m \in Mutexes : holder'[m] = IF holder[m] = t THEN Free ELSE holder[m]
  BY DEF Leave, ReleaseAll
<1> QED BY <1>1, <1>2, ConstantsAssumption
        DEF IInv, LockInv, InsideTokens, InsideBackends, Mutexes

LEMMA LeaveTokens ==
    ASSUME IInv, NEW t \in Threads, NEW a, Return(t, a), UNCHANGED <<tokens, drawn, revoked>>
    PROVE  TokenInv'
<1>1. /\ call'[t].stage = "idle"
      /\ \A u \in Threads \ {t} : call'[u] = call[u]
  BY DEF Return, IInv, TypeInv, TypeOK, Idle
<1> QED BY <1>1 DEF IInv, TokenInv, InsideTokens

(***************************************************************************)
(* A step that only moves thread t to stage s, perhaps into mutex m.       *)
(***************************************************************************)
MovesTo(t, s) ==
    /\ call'[t].stage = s
    /\ \A u \in Threads \ {t} : call'[u] = call[u]

LEMMA StepPreservesLocks ==
    ASSUME IInv, NEW t \in Threads, Step(t)
    PROVE  LockInv'
<1> USE ConstantsAssumption DEF Mutexes
<1>1. CASE ResolveLocksBackends(t)
  <2>1. CASE call[t].stage = "resolve_backends" /\ Return(t, Error("InvalidBackend"))
             /\ UNCHANGED holder
    <3>1. MovesTo(t, "idle")
      BY <2>1 DEF Return, MovesTo, Idle, IInv, TypeInv, TypeOK
    <3> QED BY <2>1, <3>1 DEF MovesTo, IInv, LockInv, InsideTokens, InsideBackends
  <2>2. CASE /\ call[t].stage = "resolve_backends"
             /\ CanLock("backends")
             /\ GoTo(t, "resolve_check")
             /\ Acquire(t, "backends")
    <3>1. MovesTo(t, "resolve_check")
      BY <2>2 DEF GoTo, MovesTo, IInv, TypeInv, TypeOK
    <3> QED BY <2>2, <3>1 DEF MovesTo, Acquire, CanLock, IInv, TypeInv, TypeOK, LockInv,
                              InsideTokens, InsideBackends
  <2> QED BY <1>1, <2>1, <2>2 DEF ResolveLocksBackends
<1>2. CASE ResolveIsRefused(t) \/ ResolvePanics(t) \/ ResolveStoresToken(t)
  BY <1>2, LeaveLocks DEF ResolveIsRefused, ResolvePanics, ResolveStoresToken
<1>3. CASE ResolveDrawsToken(t)
  <2>1. MovesTo(t, "resolve_tokens")
    BY <1>3 DEF ResolveDrawsToken, MovesTo, IInv, TypeInv, TypeOK
  <2> QED BY <1>3, <2>1 DEF MovesTo, ResolveDrawsToken, IInv, LockInv, InsideTokens,
                            InsideBackends
<1>4. ASSUME NEW e, Refuse(t, e), call[t].stage \in {"value_tokens", "meta_tokens"}
      PROVE  LockInv'
  <2>1. MovesTo(t, "idle")
    BY <1>4 DEF Refuse, Return, MovesTo, Idle, IInv, TypeInv, TypeOK
  <2> QED BY <1>4, <2>1 DEF MovesTo, Refuse, IInv, LockInv, InsideTokens, InsideBackends
<1>5. ASSUME NEW next \in {"value_backends", "meta_backends"}, Accept(t, next),
             call[t].stage \in {"value_tokens", "meta_tokens"}
      PROVE  LockInv'
  <2>1. MovesTo(t, next)
    BY <1>5 DEF Accept, MovesTo, IInv, TypeInv, TypeOK
  <2> QED BY <1>5, <2>1 DEF MovesTo, Accept, Acquire, CanLock, IInv, TypeInv, TypeOK,
                            LockInv, InsideTokens, InsideBackends
<1>6. ASSUME NEW s \in {"value_backends", "meta_backends"},
             NEW next \in {"value_read", "meta_read"}, ReadLocksBackends(t, s, next)
      PROVE  LockInv'
  <2>1. MovesTo(t, next)
    BY <1>6 DEF ReadLocksBackends, GoTo, MovesTo, IInv, TypeInv, TypeOK
  <2> QED BY <1>6, <2>1 DEF MovesTo, ReadLocksBackends, Acquire, CanLock, IInv, TypeInv,
                            TypeOK, LockInv, InsideTokens, InsideBackends
<1>7. CASE GetValueReturns(t) \/ GetMetadataReturns(t)
  BY <1>7, LeaveLocks DEF GetValueReturns, GetMetadataReturns, ReadReturns
<1>8. ASSUME NEW m, LockPoisoned(t, m) PROVE LockInv'
  BY <1>8, LeaveLocks DEF LockPoisoned
<1>9. CASE GetValueLocksTokens(t)
  BY <1>9, <1>4, <1>5 DEF GetValueLocksTokens
<1>10. CASE GetMetadataLocksTokens(t)
  BY <1>10, <1>4, <1>5 DEF GetMetadataLocksTokens
<1>11. CASE GetValueLocksBackends(t) \/ GetMetadataLocksBackends(t)
  BY <1>11, <1>6 DEF GetValueLocksBackends, GetMetadataLocksBackends
<1> QED BY <1>1, <1>2, <1>3, <1>7, <1>8, <1>9, <1>10, <1>11 DEF Step

LEMMA StepPreservesTokens ==
    ASSUME IInv, NEW t \in Threads, Step(t)
    PROVE  TokenInv'
<1>1. CASE ResolveLocksBackends(t)
  <2>1. MovesTo(t, "idle") \/ MovesTo(t, "resolve_check")
    BY <1>1 DEF ResolveLocksBackends, Return, GoTo, MovesTo, Idle, IInv, TypeInv, TypeOK
  <2> QED BY <1>1, <2>1 DEF MovesTo, ResolveLocksBackends, IInv, TokenInv, InsideTokens
<1>2. CASE ResolveIsRefused(t) \/ ResolvePanics(t)
  BY <1>2, LeaveTokens DEF ResolveIsRefused, ResolvePanics, Leave
<1>3. CASE ResolveDrawsToken(t)
  <2>1. PICK tk \in FreshTokens :
          /\ drawn' = drawn \cup {tk}
          /\ call'[t].token = tk
          /\ MovesTo(t, "resolve_tokens")
    BY <1>3 DEF ResolveDrawsToken, MovesTo, IInv, TypeInv, TypeOK
  <2>2. tk \notin revoked \cup DOMAIN tokens
    BY DEF FreshTokens, IInv, TokenInv
  <2> QED BY <1>3, <2>1, <2>2 DEF MovesTo, ResolveDrawsToken, IInv, TokenInv, InsideTokens
<1>4. CASE ResolveStoresToken(t)
  <2>1. MovesTo(t, "idle")
    BY <1>4 DEF ResolveStoresToken, Leave, Return, MovesTo, Idle, IInv, TypeInv, TypeOK
  <2>2. DOMAIN tokens' = DOMAIN tokens \cup {call[t].token}
    BY <1>4 DEF ResolveStoresToken
  <2>3. \A u \in Threads \ {t} : call[u].stage # "resolve_tokens"
    BY <1>4 DEF ResolveStoresToken, IInv, LockInv, InsideBackends
  <2> QED BY <1>4, <2>1, <2>2, <2>3 DEF MovesTo, ResolveStoresToken, IInv, TokenInv,
                                       InsideTokens
<1>5. ASSUME NEW e, Refuse(t, e) PROVE TokenInv'
  BY <1>5, LeaveTokens DEF Refuse
<1>6. ASSUME NEW next \in {"value_backends", "meta_backends"}, Accept(t, next),
             call[t].token \in DOMAIN tokens
      PROVE  TokenInv'
  <2>1. MovesTo(t, next) /\ call'[t].token = call[t].token
    BY <1>6 DEF Accept, MovesTo, IInv, TypeInv, TypeOK
  <2> QED BY <1>6, <2>1 DEF MovesTo, Accept, IInv, TokenInv, InsideTokens
<1>7. ASSUME NEW s \in {"value_backends", "meta_backends"},
             NEW next \in {"value_read", "meta_read"}, ReadLocksBackends(t, s, next)
      PROVE  TokenInv'
  <2>1. MovesTo(t, next) /\ call'[t].token = call[t].token
    BY <1>7 DEF ReadLocksBackends, GoTo, MovesTo, IInv, TypeInv, TypeOK
  <2> QED BY <1>7, <2>1 DEF MovesTo, ReadLocksBackends, IInv, TokenInv, InsideTokens
<1>8. CASE GetValueReturns(t) \/ GetMetadataReturns(t)
  BY <1>8, LeaveTokens DEF GetValueReturns, GetMetadataReturns, ReadReturns, Leave
<1>9. ASSUME NEW m, LockPoisoned(t, m) PROVE TokenInv'
  BY <1>9, LeaveTokens DEF LockPoisoned, Leave
<1>10. CASE GetValueLocksTokens(t)
  BY <1>10, <1>5, <1>6 DEF GetValueLocksTokens
<1>11. CASE GetMetadataLocksTokens(t)
  BY <1>11, <1>5, <1>6 DEF GetMetadataLocksTokens
<1>12. CASE GetValueLocksBackends(t) \/ GetMetadataLocksBackends(t)
  BY <1>12, <1>7 DEF GetValueLocksBackends, GetMetadataLocksBackends
<1> QED BY <1>1, <1>2, <1>3, <1>4, <1>8, <1>9, <1>10, <1>11, <1>12 DEF Step

LEMMA StepPreservesPoison ==
    ASSUME IInv, NEW t \in Threads, Step(t)
    PROVE  PoisonInv'
<1> USE DEF PoisonInv, PoisonSpreadsFromBackends, IInv
<1>1. CASE ResolvePanics(t)
  <2>1. holder["tokens"] # t
    BY <1>1 DEF ResolvePanics, LockInv, InsideTokens
  <2> QED BY <1>1, <2>1 DEF ResolvePanics, Mutexes
<1>2. CASE /\ call[t].stage \in {"resolve_backends", "value_backends", "meta_backends"}
           /\ LockPoisoned(t, "backends")
  BY <1>2 DEF LockPoisoned
<1>3. CASE /\ call[t].stage \in {"resolve_tokens", "value_tokens", "meta_tokens"}
           /\ LockPoisoned(t, "tokens")
  BY <1>3 DEF LockPoisoned
<1>4. CASE UNCHANGED poisoned
  BY <1>4
<1> QED BY <1>1, <1>2, <1>3, <1>4
        DEF Step, ResolveLocksBackends, ResolveIsRefused, ResolveDrawsToken,
            ResolveStoresToken, GetValueLocksTokens, GetMetadataLocksTokens, Refuse, Accept,
            GetValueLocksBackends, GetMetadataLocksBackends, ReadLocksBackends,
            GetValueReturns, GetMetadataReturns, ReadReturns

LEMMA NextPreservesIInv == IInv /\ [Next]_vars => IInv'
<1> SUFFICES ASSUME IInv, [Next]_vars PROVE LockInv' /\ TokenInv' /\ PoisonInv'
  BY NextPreservesType DEF IInv
<1> USE DEF PoisonInv, PoisonSpreadsFromBackends
<1>1. ASSUME NEW t \in Threads, Step(t) PROVE LockInv' /\ TokenInv' /\ PoisonInv'
  BY <1>1, StepPreservesLocks, StepPreservesTokens, StepPreservesPoison
<1>2. ASSUME NEW t \in Threads, NEW c, Begin(t, c),
             c.stage \in {"resolve_backends", "value_tokens", "meta_tokens"}
      PROVE  LockInv' /\ TokenInv' /\ PoisonInv'
  <2>1. MovesTo(t, c.stage) /\ call[t].stage = "idle"
    BY <1>2 DEF Begin, MovesTo, IInv, TypeInv, TypeOK
  <2> QED BY <1>2, <2>1 DEF MovesTo, Begin, IInv, LockInv, TokenInv, InsideTokens,
                            InsideBackends
<1>3. ASSUME NEW t \in Threads, NEW id \in SecretIds, NEW s \in Schemes,
             CallResolve(t, id, s)
      PROVE  LockInv' /\ TokenInv' /\ PoisonInv'
  BY <1>3, <1>2 DEF CallResolve
<1>4. ASSUME NEW t \in Threads, NEW tk \in Known, NEW s \in {"value_tokens", "meta_tokens"},
             CallRead(t, s, tk)
      PROVE  LockInv' /\ TokenInv' /\ PoisonInv'
  BY <1>4, <1>2 DEF CallRead
<1>5. ASSUME NEW t \in Threads, NEW tk \in Known, RevokeToken(t, tk)
      PROVE  LockInv' /\ TokenInv' /\ PoisonInv'
  <2>1. \A u \in Threads : call[u].stage \notin InsideTokens
    BY <1>5, ConstantsAssumption DEF RevokeToken, CanLock, IInv, LockInv
  <2>2. \A u \in Threads : call[u].stage = "resolve_tokens" => call[u].token # tk
    BY DEF Known, Resolving
  <2> QED BY <1>5, <2>1, <2>2 DEF RevokeToken, Known, IInv, LockInv, TokenInv
<1>6. ASSUME NEW t \in Threads, CleanupExpiredTokens(t)
      PROVE  LockInv' /\ TokenInv' /\ PoisonInv'
  <2>1. \A u \in Threads : call[u].stage \notin InsideTokens
    BY <1>6, ConstantsAssumption DEF CleanupExpiredTokens, CanLock, IInv, LockInv
  <2> QED BY <1>6, <2>1 DEF CleanupExpiredTokens, IInv, LockInv, TokenInv
<1>7. CASE UNCHANGED <<tokens, holder, poisoned, call, drawn, revoked>>
  BY <1>7 DEF IInv, LockInv, TokenInv
<1>8. CASE ClockMoves
  <2>1. \A t \in Threads : call'[t].stage = call[t].stage /\ call'[t].token = call[t].token
                            /\ call'[t].entry = call[t].entry
    BY <1>8, ClockKeepsCalls DEF IInv, TypeInv, TypeOK, CallType
  <2>2. UNCHANGED <<tokens, holder, poisoned, drawn, revoked>>
    BY <1>8 DEF ClockMoves
  <2> QED BY <2>1, <2>2 DEF IInv, LockInv, TokenInv
<1> QED BY <1>1, <1>3, <1>4, <1>5, <1>6, <1>7, <1>8
        DEF Next, vars, RegisterBackend, SetTokenTtl, BackendChanges

LEMMA Invariance == Spec => []IInv
<1>1. Init => IInv
  BY InitIInv
<1>2. IInv /\ [Next]_vars => IInv'
  BY NextPreservesIInv
<1> QED BY <1>1, <1>2, PTL DEF Spec

(***************************************************************************)
(* revoke_token is final: a revoked token is never in the table again.     *)
(***************************************************************************)
THEOREM RevocationIsFinal == Spec => []RevokedStaysRevoked
<1>1. IInv => RevokedStaysRevoked
  BY DEF IInv, TokenInv, RevokedStaysRevoked
<1> QED BY <1>1, Invariance, PTL

(***************************************************************************)
(* A panic reaches the token table only through a backend table that was   *)
(* poisoned before.                                                        *)
(***************************************************************************)
THEOREM PoisonOrder == Spec => []PoisonSpreadsFromBackends
<1>1. IInv => PoisonSpreadsFromBackends
  BY DEF IInv, PoisonInv
<1> QED BY <1>1, Invariance, PTL

(***************************************************************************)
(* A token leaves the table only by revoke_token, or when get_value would  *)
(* have answered Expired: cleanup_expired_tokens and get_value agree on    *)
(* the last second of its life (mod.rs:201, 243).                          *)
(***************************************************************************)
THEOREM LiveTokensStay == Spec => OnlyExpiredAreReaped
<1>1. ASSUME [Next]_vars, NEW tk \in DOMAIN tokens \ DOMAIN tokens'
      PROVE  tk \in revoked' \/ Expired(tokens[tk], clock)
  <2>1. ~UNCHANGED tokens
    OBVIOUS
  <2>2. CASE \E t \in Threads, r \in Known : RevokeToken(t, r)
    BY <2>2 DEF RevokeToken
  <2>3. CASE \E t \in Threads : CleanupExpiredTokens(t)
    BY <2>3 DEF CleanupExpiredTokens
  <2>4. ASSUME NEW t \in Threads PROVE ~ResolveStoresToken(t)
    BY DEF ResolveStoresToken
  <2>5. ASSUME NEW t \in Threads PROVE ~Step(t)
    BY <2>1, <2>4 DEF Step, ResolveLocksBackends, ResolveIsRefused, ResolveDrawsToken,
                      ResolvePanics, GetValueLocksTokens, GetMetadataLocksTokens, Refuse, Accept,
                      GetValueLocksBackends, GetMetadataLocksBackends, ReadLocksBackends,
                      GetValueReturns, GetMetadataReturns, ReadReturns, LockPoisoned
  <2> QED BY <2>1, <2>2, <2>3, <2>5, <1>1
          DEF Next, vars, CallResolve, CallRead, Begin, RegisterBackend, SetTokenTtl,
              BackendChanges, ClockMoves
<1>2. [Next]_vars =>
        [\A tk \in DOMAIN tokens \ DOMAIN tokens' : tk \in revoked' \/ Expired(tokens[tk], clock)]_vars
  BY <1>1
<1> QED BY <1>2, PTL DEF Spec, OnlyExpiredAreReaped

-----------------------------------------------------------------------------
(***************************************************************************)
(* More of a call: a resolve has no token before it draws one; a get_value *)
(* has not seen an earlier time than it remembers, and past its check the  *)
(* token had not expired then.  A mutex somebody is inside is not poisoned,*)
(* so that a drawn token is always stored.                                 *)
(***************************************************************************)
CallFits(c, table, now) ==
    /\ c.stage \in {"resolve_backends", "resolve_check"} => c.token = None
    /\ c.stage \in {"value_tokens", "value_backends", "value_read"} => c.since <= now
    /\ c.stage \in {"value_backends", "value_read"} => ~Expired(table[c.token], c.since)
CallsFit == \A t \in Threads : CallFits(call[t], tokens, clock)
HeldIsClean == \A m \in Mutexes : holder[m] # Free => m \notin poisoned
JInv == IInv /\ CallsFit /\ HeldIsClean

\* An entry that has not expired had not expired before.
LEMMA ExpiryIsFinal ==
    ASSUME NEW e \in Entries, NEW now \in Nat, NEW past \in Nat, past <= now, ~Expired(e, now)
    PROVE  ~Expired(e, past)
<1>1. e.expires = Never \/ e.expires \in Nat
  BY ConstantsAssumption DEF Entries, Times
<1> QED BY <1>1 DEF Expired

LEMMA CallsKeepFitting ==
    ASSUME JInv, NEW t \in Threads, NEW c, call' = [call EXCEPT ![t] = c], CallFits(c, tokens', clock'),
           clock' = clock,
           tokens' = tokens \/ \A u \in Threads \ {t} : call[u].stage \notin InsideTokens
    PROVE  CallsFit'
<1>1. \A u \in Threads : call'[u] = IF u = t THEN c ELSE call[u]
  BY DEF JInv, IInv, TypeInv, TypeOK
<1>2. ASSUME NEW u \in Threads, u # t PROVE CallFits(call'[u], tokens', clock')
  <2>1. CallFits(call[u], tokens, clock) /\ call'[u] = call[u]
    BY <1>1, <1>2 DEF JInv, CallsFit
  <2>2. tokens' = tokens \/ call[u].stage \notin {"value_backends", "value_read"}
    BY <1>2 DEF InsideTokens
  <2> QED BY <2>1, <2>2 DEF CallFits
<1>3. CallFits(call'[t], tokens', clock')
  BY <1>1 DEF CallFits
<1> QED BY <1>2, <1>3 DEF CallsFit

LEMMA IdleFits == ASSUME NEW table, NEW now PROVE CallFits(Idle, table, now)
BY DEF CallFits, Idle

LEMMA MovedCall ==
    ASSUME NEW b \in CallType, NEW s
    PROVE  /\ [b EXCEPT !.stage = s].stage = s /\ [b EXCEPT !.stage = s].token = b.token
           /\ [b EXCEPT !.stage = s].since = b.since
BY DEF CallType

LEMMA NextKeepsFitting == ASSUME JInv, [Next]_vars PROVE CallsFit'
<1>1. /\ call \in [Threads -> CallType] /\ clock \in Nat
      /\ \A tk \in DOMAIN tokens : tokens[tk] \in Entries
      /\ \A t \in Threads : CallFits(call[t], tokens, clock) /\ call[t] \in CallType /\ call[t].since \in Nat
  BY ConstantsAssumption DEF JInv, CallsFit, IInv, TypeInv, TypeOK, CallType
<1>2. CanLock("tokens") => \A t \in Threads : call[t].stage \notin InsideTokens
  BY ConstantsAssumption DEF CanLock, JInv, IInv, LockInv
<1>3. ASSUME NEW t \in Threads, call' = [call EXCEPT ![t] = Idle], clock' = clock,
             tokens' = tokens \/ CanLock("tokens")
      PROVE  CallsFit'
  BY <1>2, <1>3, IdleFits, CallsKeepFitting
<1>4. CASE UNCHANGED <<tokens, clock, call>>
  BY <1>1, <1>4 DEF CallsFit, CallFits
<1>5. CASE UNCHANGED <<clock, call>> /\ CanLock("tokens")
  BY <1>1, <1>2, <1>5 DEF CallsFit, CallFits, InsideTokens
<1>6. ASSUME NEW t \in Threads, NEW s, GoTo(t, s), UNCHANGED <<tokens, clock>>,
             \/ call[t].stage = "resolve_backends" /\ s = "resolve_check"
             \/ call[t].stage = "value_backends" /\ s = "value_read"
             \/ call[t].stage = "meta_backends" /\ s = "meta_read"
      PROVE  CallsFit'
  <2> DEFINE c == [call[t] EXCEPT !.stage = s]
  <2>1. c.stage = s /\ c.token = call[t].token /\ c.since = call[t].since
    BY <1>1, MovedCall
  <2>2. call' = [call EXCEPT ![t] = c]
    BY <1>6 DEF GoTo
  <2> HIDE DEF c
  <2>3. CallFits(c, tokens', clock')
    BY <1>1, <1>6, <2>1 DEF CallFits
  <2> QED BY <1>6, <2>2, <2>3, CallsKeepFitting
<1>7. ASSUME NEW t \in Threads, ResolveDrawsToken(t) PROVE CallsFit'
  <2>1. PICK tk \in FreshTokens :
          call' = [call EXCEPT ![t].stage = "resolve_tokens", ![t].token = tk,
                               ![t].entry.expires = ExpiresAt(ttl, clock)]
    BY <1>7 DEF ResolveDrawsToken
  <2> DEFINE c == [call[t] EXCEPT !.stage = "resolve_tokens", !.token = tk,
                                  !.entry.expires = ExpiresAt(ttl, clock)]
  <2>2. c.stage = "resolve_tokens"
    BY <1>1 DEF CallType
  <2>3. call' = [call EXCEPT ![t] = c]
    BY <2>1
  <2> HIDE DEF c
  <2>4. CallFits(c, tokens', clock')
    BY <2>2 DEF CallFits
  <2> QED BY <1>7, <2>3, <2>4, CallsKeepFitting DEF ResolveDrawsToken
<1>8. ASSUME NEW t \in Threads, NEW s \in {"value_backends", "meta_backends"}, Accept(t, s),
             call[t].token \in DOMAIN tokens,
             s = "value_backends" => /\ call[t].stage = "value_tokens"
                                     /\ ~Expired(tokens[call[t].token], clock)
      PROVE  CallsFit'
  <2> DEFINE c == [call[t] EXCEPT !.stage = s, !.entry = tokens[call[t].token]]
  <2>1. c.stage = s /\ c.token = call[t].token /\ c.since = call[t].since
    BY <1>1 DEF CallType
  <2>2. call' = [call EXCEPT ![t] = c] /\ UNCHANGED <<tokens, clock>>
    BY <1>8 DEF Accept
  <2> HIDE DEF c
  <2>3. s = "value_backends" => /\ call[t].since <= clock
                                /\ ~Expired(tokens[call[t].token], call[t].since)
    BY <1>1, <1>8, ExpiryIsFinal DEF CallFits
  <2>4. CallFits(c, tokens', clock')
    BY <1>8, <2>1, <2>2, <2>3 DEF CallFits
  <2> QED BY <2>2, <2>4, CallsKeepFitting
<1>9. ASSUME NEW t \in Threads, Step(t) PROVE CallsFit'
  <2>1. CASE ResolveLocksBackends(t)
    BY <2>1, <1>3, <1>6 DEF ResolveLocksBackends, Return
  <2>2. CASE ResolveIsRefused(t) \/ ResolvePanics(t)
    BY <2>2, <1>3 DEF ResolveIsRefused, ResolvePanics, Leave, Return
  <2>3. CASE ResolveStoresToken(t)
    BY <2>3, <1>3 DEF ResolveStoresToken, Leave, Return
  <2>4. CASE GetValueLocksTokens(t)
    BY <2>4, <1>3, <1>8 DEF GetValueLocksTokens, Refuse, Return
  <2>5. CASE GetMetadataLocksTokens(t)
    BY <2>5, <1>3, <1>8 DEF GetMetadataLocksTokens, Refuse, Return
  <2>6. CASE GetValueLocksBackends(t) \/ GetMetadataLocksBackends(t)
    BY <2>6, <1>6 DEF GetValueLocksBackends, GetMetadataLocksBackends, ReadLocksBackends
  <2>7. CASE GetValueReturns(t) \/ GetMetadataReturns(t)
    BY <2>7, <1>3 DEF GetValueReturns, GetMetadataReturns, ReadReturns, Leave, Return
  <2>8. CASE LockPoisoned(t, "backends") \/ LockPoisoned(t, "tokens")
    BY <2>8, <1>3 DEF LockPoisoned, Leave, Return
  <2> QED BY <1>9, <1>7, <2>1, <2>2, <2>3, <2>4, <2>5, <2>6, <2>7, <2>8 DEF Step
<1>10. ASSUME NEW t \in Threads, NEW c, Begin(t, c), CallFits(c, tokens', clock') PROVE CallsFit'
  BY <1>10, CallsKeepFitting DEF Begin
<1>11. ASSUME NEW t \in Threads, NEW id \in SecretIds, NEW s \in Schemes, CallResolve(t, id, s)
       PROVE  CallsFit'
  BY <1>10, <1>11 DEF CallResolve, CallFits
<1>12. ASSUME NEW t \in Threads, NEW tk \in Known, NEW s \in {"value_tokens", "meta_tokens"},
              CallRead(t, s, tk)
       PROVE  CallsFit'
  <2> DEFINE c == [stage |-> s, token |-> tk, entry |-> None,
                   since |-> IF s = "value_tokens" THEN clock ELSE 0]
  <2>1. Begin(t, c) /\ clock' = clock
    BY <1>12 DEF CallRead, Begin
  <2>2. c.stage = s /\ (s = "value_tokens" => c.since = clock)
    OBVIOUS
  <2> HIDE DEF c
  <2>3. CallFits(c, tokens', clock')
    BY <1>1, <2>1, <2>2 DEF CallFits
  <2> QED BY <1>10, <2>1, <2>3
<1>13. CASE ClockMoves
  <2> SUFFICES ASSUME NEW t \in Threads PROVE CallFits(call'[t], tokens', clock')
    BY DEF CallsFit
  <2>1. /\ call'[t].stage = call[t].stage /\ call'[t].token = call[t].token
        /\ tokens' = tokens /\ clock' \in Nat
    BY <1>1, <1>13, ClockKeepsCalls DEF ClockMoves
  <2>2. call'[t].since = IF clock' < call[t].since THEN clock' ELSE call[t].since
    BY <1>1, <1>13 DEF ClockMoves, CallType
  <2>3. call'[t].since \in Nat /\ call'[t].since <= clock' /\ call'[t].since <= call[t].since
    BY <1>1, <2>1, <2>2
  <2>4. call[t].stage \in {"value_backends", "value_read"} =>
            call[t].token \in DOMAIN tokens /\ tokens[call[t].token] \in Entries
    BY <1>1 DEF JInv, IInv, TokenInv, InsideTokens
  <2>5. call[t].stage \in {"value_backends", "value_read"} =>
            ~Expired(tokens[call[t].token], call'[t].since)
    BY <1>1, <2>3, <2>4, ExpiryIsFinal DEF CallFits
  <2> QED BY <1>1, <2>1, <2>3, <2>5 DEF CallFits
<1> QED BY <1>4, <1>5, <1>9, <1>11, <1>12, <1>13
        DEF Next, vars, RevokeToken, CleanupExpiredTokens, RegisterBackend, SetTokenTtl,
            BackendChanges

LEMMA NextKeepsHeldClean == ASSUME JInv, [Next]_vars PROVE HeldIsClean'
<1>1. HeldIsClean /\ holder \in [Mutexes -> Threads \cup {Free}] /\ poisoned \subseteq Mutexes
  BY DEF JInv, IInv, TypeInv, TypeOK
<1>2. CASE UNCHANGED <<holder, poisoned>>
  BY <1>1, <1>2 DEF HeldIsClean
<1>3. ASSUME NEW t \in Threads, ReleaseAll(t),
             poisoned' = poisoned \/ poisoned' = poisoned \cup {m \in Mutexes : holder[m] = t}
      PROVE  HeldIsClean'
  <2>1. \A m \in Mutexes : holder'[m] = IF holder[m] = t THEN Free ELSE holder[m]
    BY <1>3 DEF ReleaseAll
  <2> QED BY <1>1, <1>3, <2>1 DEF HeldIsClean
<1>4. ASSUME NEW t \in Threads, NEW m \in Mutexes, Acquire(t, m), CanLock(m), UNCHANGED poisoned
      PROVE  HeldIsClean'
  BY <1>1, <1>4 DEF HeldIsClean, Acquire, CanLock
<1>5. ASSUME NEW t \in Threads, Step(t) PROVE HeldIsClean'
  <2>1. CASE ResolveLocksBackends(t)
    BY <2>1, <1>2, <1>4 DEF ResolveLocksBackends, Mutexes
  <2>2. CASE ResolveDrawsToken(t)
    BY <2>2, <1>2 DEF ResolveDrawsToken
  <2>3. CASE \/ ResolveIsRefused(t) \/ ResolvePanics(t) \/ ResolveStoresToken(t)
             \/ GetValueReturns(t) \/ GetMetadataReturns(t)
             \/ LockPoisoned(t, "backends") \/ LockPoisoned(t, "tokens")
    BY <2>3, <1>3 DEF ResolveIsRefused, ResolvePanics, ResolveStoresToken, GetValueReturns,
                      GetMetadataReturns, ReadReturns, LockPoisoned, Leave
  <2>4. CASE GetValueLocksTokens(t) \/ GetMetadataLocksTokens(t)
    BY <2>4, <1>2, <1>4 DEF GetValueLocksTokens, GetMetadataLocksTokens, Refuse, Accept, Mutexes
  <2>5. CASE GetValueLocksBackends(t) \/ GetMetadataLocksBackends(t)
    BY <2>5, <1>4 DEF GetValueLocksBackends, GetMetadataLocksBackends, ReadLocksBackends, Mutexes
  <2> QED BY <1>5, <2>1, <2>2, <2>3, <2>4, <2>5 DEF Step
<1> QED BY <1>2, <1>5
        DEF Next, vars, CallResolve, CallRead, Begin, RevokeToken, CleanupExpiredTokens,
            RegisterBackend, SetTokenTtl, BackendChanges, ClockMoves

LEMMA JInvariance == Spec => []JInv
<1>1. Init => JInv
  <2>1. Init => IInv
    BY InitIInv
  <2>2. Init => CallsFit /\ HeldIsClean
    BY IdleFits DEF Init, CallsFit, HeldIsClean
  <2> QED BY <2>1, <2>2 DEF JInv
<1>2. JInv /\ [Next]_vars => JInv'
  <2>1. JInv /\ [Next]_vars => IInv'
    BY NextPreservesIInv DEF JInv
  <2> QED BY <2>1, NextKeepsFitting, NextKeepsHeldClean DEF JInv
<1> QED BY <1>1, <1>2, PTL DEF Spec

\* A step that gives an answer ends the call of its thread, or begins one.
LEMMA ValuesComeFromReads ==
    ASSUME IInv, [Next]_vars, NEW t \in Threads, answer'[t] # answer[t], answer'[t].kind = "value"
    PROVE  /\ call[t].stage = "value_read" /\ tokens' = tokens
           /\ answer'[t].token = call[t].token
<1>1. ASSUME NEW u \in Threads, NEW a, answer' = [answer EXCEPT ![u] = a]
      PROVE  u = t /\ answer'[t] = a
  BY <1>1 DEF IInv, TypeInv, TypeOK
<1>2. ASSUME NEW u \in Threads, NEW e PROVE ~Return(u, Error(e))
  <2> SUFFICES ASSUME Return(u, Error(e)) PROVE FALSE
    OBVIOUS
  <2>1. answer' = [answer EXCEPT ![u] = Error(e)]
    BY DEF Return
  <2>2. answer'[t] = Error(e)
    BY <2>1, <1>1
  <2> QED BY <2>2 DEF Error
<1>3. ASSUME NEW u \in Threads, NEW c PROVE ~Begin(u, c)
  <2> SUFFICES ASSUME Begin(u, c) PROVE FALSE
    OBVIOUS
  <2>1. answer'[t] = Nothing
    BY <1>1 DEF Begin
  <2> QED BY <2>1 DEF Nothing
<1>4. answer' # answer
  OBVIOUS
<1>5. PICK u \in Threads : Step(u)
  BY <1>3, <1>4 DEF Next, vars, CallResolve, CallRead, RevokeToken, CleanupExpiredTokens,
                    RegisterBackend, SetTokenTtl, BackendChanges, ClockMoves
<1>6. ASSUME NEW k PROVE Return(u, Got(k, call[u].token)) => u = t /\ answer'[t] = Got(k, call[u].token)
  BY <1>1 DEF Return
<1>7. ~ResolveStoresToken(u)
  BY <1>6 DEF ResolveStoresToken, Leave, Got
<1>8. ~GetMetadataReturns(u)
  <2> SUFFICES ASSUME GetMetadataReturns(u) PROVE FALSE
    OBVIOUS
  <2>1. Return(u, Got("metadata", call[u].token)) \/ Return(u, Error("BackendRefuses"))
    BY DEF GetMetadataReturns, ReadReturns, Leave
  <2> QED BY <2>1, <1>2, <1>6 DEF Got
<1>9. GetValueReturns(u)
  BY <1>2, <1>4, <1>5, <1>7, <1>8
     DEF Step, ResolveLocksBackends, ResolveIsRefused, ResolveDrawsToken, ResolvePanics,
         GetValueLocksTokens, GetMetadataLocksTokens, Refuse, Accept, GetValueLocksBackends,
         GetMetadataLocksBackends, ReadLocksBackends, GoTo, LockPoisoned, Leave
<1>10. Return(u, Got("value", call[u].token)) \/ Return(u, Error("BackendRefuses"))
  BY <1>9 DEF GetValueReturns, ReadReturns, Leave
<1>11. u = t /\ answer'[t] = Got("value", call[u].token)
  BY <1>2, <1>6, <1>10
<1> QED BY <1>9, <1>11 DEF GetValueReturns, ReadReturns, Got

(***************************************************************************)
(* get_value hands out a value only while its token is in the table.       *)
(***************************************************************************)
THEOREM ValuesNeedLiveTokens == Spec => ValueNeedsLiveToken
<1>1. ASSUME IInv, [Next]_vars, NEW t \in Threads,
             answer'[t] # answer[t], answer'[t].kind = "value"
      PROVE  answer'[t].token \in DOMAIN tokens
  <2>1. call[t].stage = "value_read" /\ answer'[t].token = call[t].token
    BY <1>1, ValuesComeFromReads
  <2> QED BY <1>1, <2>1 DEF IInv, TokenInv, InsideTokens
<1>2. IInv /\ [Next]_vars =>
        [\A t \in Threads : answer'[t] # answer[t] /\ answer'[t].kind = "value"
           => answer'[t].token \in DOMAIN tokens]_vars
  BY <1>1
<1> QED BY <1>2, Invariance, PTL DEF Spec, ValueNeedsLiveToken

(***************************************************************************)
(* get_value yields no value of a token that had expired at every time the *)
(* clock showed during the call, also when the clock is set back meanwhile *)
(* and whatever others do to the table (mod.rs:195-213).                   *)
(***************************************************************************)
THEOREM ValuesAreInTime == Spec => NoValueAfterExpiry
<1>1. ASSUME JInv, [Next]_vars, NEW t \in Threads,
             answer'[t] # answer[t], answer'[t].kind = "value"
      PROVE  ~Expired(tokens[answer'[t].token], call[t].since)
  <2>1. call[t].stage = "value_read" /\ answer'[t].token = call[t].token
    BY <1>1, ValuesComeFromReads DEF JInv
  <2> QED BY <1>1, <2>1 DEF JInv, CallsFit, CallFits
<1>2. JInv /\ [Next]_vars =>
        [\A t \in Threads : answer'[t] # answer[t] /\ answer'[t].kind = "value"
           => ~Expired(tokens[answer'[t].token], call[t].since)]_vars
  BY <1>1
<1> QED BY <1>2, JInvariance, PTL DEF Spec, NoValueAfterExpiry

-----------------------------------------------------------------------------
(***************************************************************************)
(* The refinement: what a step of the manager is to the store of tokens.   *)
(***************************************************************************)
StoreStays == UNCHANGED <<Known, DOMAIN tokens, answer>>

LEMMA KnownIs ==
    Known = {tk \in drawn : \A u \in Threads : Resolving(u) => call[u].token # tk}
BY DEF Known

\* No step but that of ResolveStoresToken makes a token known.
LEMMA KnownStays ==
    ASSUME JInv, NEW t \in Threads, NEW c, call' = [call EXCEPT ![t] = c], drawn' = drawn,
           Resolving(t) => call[t].token \notin drawn,
           c.stage \in {"resolve_backends", "resolve_check", "resolve_tokens"} => c.token \notin drawn
    PROVE  Known' = Known
<1>1. \A u \in Threads : call'[u] = IF u = t THEN c ELSE call[u]
  BY DEF JInv, IInv, TypeInv, TypeOK
<1>2. \A tk \in drawn, u \in Threads :
        (Resolving(u) => call[u].token # tk) <=> (Resolving(u)' => call'[u].token # tk)
  BY <1>1 DEF Resolving
<1>3. Known' = {tk \in drawn : \A u \in Threads : Resolving(u)' => call'[u].token # tk}
  BY DEF Known
<1> QED BY <1>2, <1>3, KnownIs

LEMMA NoneIsNoToken ==
    ASSUME JInv
    PROVE  /\ None \notin drawn
           /\ \A t \in Threads : call[t].stage \in {"resolve_backends", "resolve_check"}
                                   => call[t].token = None
           /\ Idle.token = None /\ Idle.stage = "idle"
BY ConstantsAssumption DEF JInv, IInv, TypeInv, TypeOK, CallsFit, CallFits, Idle

\* A thread that ends its call, outside of the last wait of a resolve, or starts one.
LEMMA EndsKeepKnown ==
    ASSUME JInv, NEW t \in Threads, call' = [call EXCEPT ![t] = Idle], drawn' = drawn,
           call[t].stage # "resolve_tokens"
    PROVE  Known' = Known
BY NoneIsNoToken, KnownStays DEF Resolving

LEMMA ErrorsAreRefusals ==
    ASSUME JInv, NEW t \in Threads, NEW e \in Errors, Return(t, Error(e)), UNCHANGED <<tokens, drawn>>,
           call[t].stage # "resolve_tokens"
    PROVE  Store!Next
<1>1. Known' = Known
  BY EndsKeepKnown DEF Return
<1>2. Store!Refuse(t)
  BY <1>1 DEF Store!Refuse, Store!Refusals, Errors, Return, Error
<1> QED BY <1>2 DEF Store!Next

LEMMA GotoKeepsStore ==
    ASSUME JInv, NEW t \in Threads, NEW s, GoTo(t, s), UNCHANGED <<tokens, drawn>>,
           \/ call[t].stage = "resolve_backends" /\ s = "resolve_check"
           \/ call[t].stage = "value_backends" /\ s = "value_read"
           \/ call[t].stage = "meta_backends" /\ s = "meta_read"
    PROVE  StoreStays
<1> DEFINE c == [call[t] EXCEPT !.stage = s]
<1>1. c.stage = s /\ c.token = call[t].token
  BY MovedCall DEF JInv, IInv, TypeInv, TypeOK, CallType
<1>2. call' = [call EXCEPT ![t] = c]
  BY DEF GoTo
<1> HIDE DEF c
<1>3. Known' = Known
  BY <1>1, <1>2, NoneIsNoToken, KnownStays DEF Resolving
<1> QED BY <1>3 DEF StoreStays, GoTo

LEMMA BeginIsAsk ==
    ASSUME JInv, NEW t \in Threads, NEW c, Begin(t, c),
           c.stage \in {"resolve_backends", "resolve_check", "resolve_tokens"} => c.token = None
    PROVE  Store!Next
<1>1. Known' = Known
  BY NoneIsNoToken, KnownStays DEF Begin, Resolving
<1>2. Store!Ask(t)
  BY <1>1 DEF Store!Ask, Store!Nothing, Begin, Nothing
<1> QED BY <1>2 DEF Store!Next

LEMMA DrawKeepsStore == ASSUME JInv, NEW t \in Threads, ResolveDrawsToken(t) PROVE StoreStays
<1>1. PICK tk \in FreshTokens :
        /\ drawn' = drawn \cup {tk}
        /\ call' = [call EXCEPT ![t].stage = "resolve_tokens", ![t].token = tk,
                                ![t].entry.expires = ExpiresAt(ttl, clock)]
  BY DEF ResolveDrawsToken
<1>2. /\ \A u \in Threads \ {t} : call'[u] = call[u]
      /\ call'[t].token = tk /\ call'[t].stage = "resolve_tokens"
  BY <1>1 DEF JInv, IInv, TypeInv, TypeOK, CallType
<1>3. tk \notin drawn /\ call[t].token = None /\ None \notin drawn /\ Resolving(t)
  BY <1>1, NoneIsNoToken DEF FreshTokens, ResolveDrawsToken, Resolving
<1>4. Known' = {k \in drawn \cup {tk} : \A u \in Threads : Resolving(u)' => call'[u].token # k}
  BY <1>1 DEF Known
<1>5. \A k \in drawn, u \in Threads :
        (Resolving(u) => call[u].token # k) <=> (Resolving(u)' => call'[u].token # k)
  BY <1>2, <1>3 DEF Resolving
<1>6. Resolving(t)' /\ call'[t].token = tk
  BY <1>2 DEF Resolving
<1>7. Known' = Known
  BY <1>4, <1>5, <1>6, KnownIs
<1> QED BY <1>7 DEF StoreStays, ResolveDrawsToken

LEMMA StoresAreIssues == ASSUME JInv, NEW t \in Threads, ResolveStoresToken(t) PROVE Store!Next
<1> DEFINE tk == call[t].token
<1>1. tk \in Tokens /\ tk \in drawn /\ Resolving(t)
  BY DEF ResolveStoresToken, Resolving, JInv, IInv, TypeInv, Carries, TokenInv
<1>2. \A u \in Threads \ {t} : call[u].stage # "resolve_tokens"
  BY DEF ResolveStoresToken, JInv, IInv, LockInv, InsideBackends
<1>3. \A u \in Threads : call'[u] = IF u = t THEN Idle ELSE call[u]
  BY DEF ResolveStoresToken, Leave, Return, JInv, IInv, TypeInv, TypeOK
<1>4. \A u \in Threads \ {t} : Resolving(u) => call[u].token = None
  BY <1>2, NoneIsNoToken DEF Resolving
<1>5. tk \notin Known
  BY <1>1, KnownIs
<1>6. Known' = {k \in drawn : \A u \in Threads : Resolving(u)' => call'[u].token # k}
  BY DEF ResolveStoresToken, Known
<1>7. Known' = Known \cup {tk}
  <2>1. \A u \in Threads : Resolving(u)' => u # t /\ Resolving(u) /\ call'[u] = call[u]
    BY <1>3, NoneIsNoToken DEF Resolving
  <2>2. \A u \in Threads \ {t} : Resolving(u) => Resolving(u)' /\ call'[u] = call[u]
    BY <1>3 DEF Resolving
  <2> HIDE DEF tk
  <2>3. ASSUME NEW k \in drawn, k # tk PROVE k \in Known' <=> k \in Known
    <3>1. Resolving(t) => call[t].token # k
      BY <2>3 DEF tk
    <3> QED BY <3>1, <2>1, <2>2, <1>6, KnownIs
  <2>4. tk \in Known'
    BY <2>1, <1>1, <1>4, <1>6, NoneIsNoToken
  <2> QED BY <2>3, <2>4, <1>6, KnownIs
<1>8. DOMAIN tokens' = DOMAIN tokens \cup {tk}
  BY DEF ResolveStoresToken
<1>9. answer' = [answer EXCEPT ![t] = Store!Got("token", tk)]
  BY DEF ResolveStoresToken, Leave, Return, Got, Store!Got
<1>10. Store!Issue(t, tk)
  BY <1>5, <1>7, <1>8, <1>9 DEF Store!Issue
<1> QED BY <1>1, <1>10 DEF Store!Next

LEMMA ReadsAreHonoured ==
    ASSUME JInv, NEW t \in Threads, NEW s \in {"value_read", "meta_read"}, NEW k \in {"value", "metadata"},
           ReadReturns(t, s, k)
    PROVE  Store!Next
<1>1. call[t].stage = s /\ call[t].token \in DOMAIN tokens /\ call[t].token \in Tokens
  BY DEF ReadReturns, JInv, IInv, TypeInv, Carries, TokenInv, InsideTokens
<1>2. CASE Return(t, Error("BackendRefuses"))
  BY <1>1, <1>2, ErrorsAreRefusals DEF ReadReturns, Errors
<1>3. CASE Return(t, Got(k, call[t].token))
  <2>1. Known' = Known
    BY <1>1, <1>3, EndsKeepKnown DEF Return, ReadReturns
  <2>2. Store!Honour(t, call[t].token)
    BY <1>1, <1>3, <2>1 DEF Store!Honour, Store!Got, Got, Return, ReadReturns
  <2> QED BY <1>1, <2>2 DEF Store!Next
<1> QED BY <1>2, <1>3 DEF ReadReturns, Leave

\* A resolve that waits for the token table is inside the backend table, which is clean, and
\* so is then the table of tokens.
LEMMA ResolveMeetsNoPoison ==
    ASSUME JInv, NEW t \in Threads, call[t].stage = "resolve_tokens" PROVE "tokens" \notin poisoned
<1>1. holder["backends"] = t /\ t # Free
  BY ConstantsAssumption DEF JInv, IInv, LockInv, InsideBackends
<1>2. "backends" \notin poisoned
  BY <1>1 DEF JInv, HeldIsClean, Mutexes
<1> QED BY <1>2 DEF JInv, IInv, PoisonInv, PoisonSpreadsFromBackends

LEMMA StepImplements == ASSUME JInv, NEW t \in Threads, Step(t) PROVE Store!Next \/ StoreStays
<1>1. CASE ResolveLocksBackends(t)
  BY <1>1, ErrorsAreRefusals, GotoKeepsStore DEF ResolveLocksBackends, Errors
<1>2. CASE ResolveIsRefused(t) \/ ResolvePanics(t)
  BY <1>2, ErrorsAreRefusals DEF ResolveIsRefused, ResolvePanics, Leave, Errors
<1>3. CASE ResolveDrawsToken(t)
  BY <1>3, DrawKeepsStore
<1>4. CASE ResolveStoresToken(t)
  BY <1>4, StoresAreIssues
<1>5. ASSUME NEW s \in {"value_backends", "meta_backends"}, Accept(t, s),
             call[t].stage \in {"value_tokens", "meta_tokens"}
      PROVE  StoreStays
  <2> DEFINE c == [call[t] EXCEPT !.stage = s, !.entry = tokens[call[t].token]]
  <2>1. c.stage = s
    BY DEF JInv, IInv, TypeInv, TypeOK, CallType
  <2>2. call' = [call EXCEPT ![t] = c]
    BY <1>5 DEF Accept
  <2> HIDE DEF c
  <2>3. Known' = Known
    BY <1>5, <2>1, <2>2, KnownStays DEF Resolving, Accept
  <2> QED BY <1>5, <2>3 DEF StoreStays, Accept
<1>6. CASE GetValueLocksTokens(t)
  BY <1>5, <1>6, ErrorsAreRefusals DEF GetValueLocksTokens, Refuse, Errors
<1>7. CASE GetMetadataLocksTokens(t)
  BY <1>5, <1>7, ErrorsAreRefusals DEF GetMetadataLocksTokens, Refuse, Errors
<1>8. CASE GetValueLocksBackends(t) \/ GetMetadataLocksBackends(t)
  BY <1>8, GotoKeepsStore DEF GetValueLocksBackends, GetMetadataLocksBackends, ReadLocksBackends
<1>9. CASE GetValueReturns(t) \/ GetMetadataReturns(t)
  BY <1>9, ReadsAreHonoured DEF GetValueReturns, GetMetadataReturns
<1>10. CASE /\ call[t].stage \in {"resolve_backends", "value_backends", "meta_backends"}
            /\ LockPoisoned(t, "backends")
  BY <1>10, ErrorsAreRefusals DEF LockPoisoned, Leave, Errors
<1>11. CASE /\ call[t].stage \in {"resolve_tokens", "value_tokens", "meta_tokens"}
            /\ LockPoisoned(t, "tokens")
  BY <1>11, ErrorsAreRefusals, ResolveMeetsNoPoison DEF LockPoisoned, Leave, Errors
<1> QED BY <1>1, <1>2, <1>3, <1>4, <1>6, <1>7, <1>8, <1>9, <1>10, <1>11 DEF Step

LEMMA NextImplements == ASSUME JInv, [Next]_vars PROVE [Store!Next]_Store!vars
<1> SUFFICES Store!Next \/ StoreStays
  BY DEF StoreStays, Store!vars
<1>1. ASSUME NEW t \in Threads, Step(t) PROVE Store!Next \/ StoreStays
  BY <1>1, StepImplements
<1>2. ASSUME NEW t \in Threads, NEW id \in SecretIds, NEW s \in Schemes, CallResolve(t, id, s)
      PROVE  Store!Next
  BY <1>2, BeginIsAsk DEF CallResolve
<1>3. ASSUME NEW t \in Threads, NEW tk \in Known, NEW s \in {"value_tokens", "meta_tokens"},
             CallRead(t, s, tk)
      PROVE  Store!Next
  BY <1>3, BeginIsAsk DEF CallRead
<1>4. CASE UNCHANGED <<drawn, call, answer>> /\ DOMAIN tokens' \in SUBSET DOMAIN tokens
  <2>1. Known' = Known
    BY <1>4 DEF Known, Resolving
  <2> QED BY <1>4, <2>1 DEF Store!Next, Store!Retire
<1>5. CASE ClockMoves
  <2>1. \A t \in Threads : call'[t].stage = call[t].stage /\ call'[t].token = call[t].token
    BY <1>5, ClockKeepsCalls DEF JInv, IInv, TypeInv, TypeOK, CallType
  <2>2. Known' = Known
    BY <1>5, <2>1 DEF Known, Resolving, ClockMoves
  <2> QED BY <1>5, <2>2 DEF StoreStays, ClockMoves
<1>6. CASE UNCHANGED vars
  BY <1>6, <1>4 DEF vars
<1> QED BY <1>1, <1>2, <1>3, <1>4, <1>5, <1>6
        DEF Next, RevokeToken, CleanupExpiredTokens, RegisterBackend, SetTokenTtl, BackendChanges

(***************************************************************************)
(* The manager, with its mutexes, panics, backends and clock, implements   *)
(* the store of bearer tokens that its callers rely on: a token is issued  *)
(* once, and only a live one buys anything.                                *)
(***************************************************************************)
THEOREM ManagerIsATokenStore == Spec => ImplementsTokenStore
<1>1. Init => Store!Init
  BY DEF Init, Store!Init, Known, Nothing, Store!Nothing
<1>2. JInv /\ [Next]_vars => [Store!Next]_Store!vars
  BY NextImplements
<1> QED BY <1>1, <1>2, JInvariance, PTL DEF Spec, ImplementsTokenStore, Store!Spec
=============================================================================
