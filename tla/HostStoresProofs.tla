--------------------------- MODULE HostStoresProofs ---------------------------
(***************************************************************************)
(* Proofs about what the host keeps and must be able to believe: the trust *)
(* store, for any threads, digests and backends and a clock of any width   *)
(* that does not run out; the compile cache, for any hosts, keys and       *)
(* secrets; and the cache of the fetcher, for any fetchers and artifacts.  *)
(***************************************************************************)
EXTENDS TrustStore, CompileCache, Fetcher, TLAPS

CallType == [stage : Stages, digest : Digests \cup {None}, text : Texts \cup {None},
             backend : Backends \cup {None}, input : Inputs \cup {None}]
EntryType == [at : 0 .. MaxClock, by : Backends]

(***************************************************************************)
(* A call that is under way is about a digest, and one that verifies has a *)
(* backend.                                                                *)
(***************************************************************************)
CallsCarry == \A t \in Threads :
    /\ call[t].stage # "idle" => call[t].digest \in Digests
    /\ call[t].stage \in {"verify_lock", "verify_check"} => call[t].backend \in Backends
    /\ call[t].stage = "trust_write" => call[t].text \in Texts

\* What the cache holds was accepted once.
AcceptedBy(b, d) == \E x \in Inputs : <<b, d, x>> \in Accepts
CachedWasAccepted == \A d \in Digests : cached[d] # None => AcceptedBy(cached[d].by, d)

TypeInv == TypeOK /\ CallsCarry
FreshInv == HitsAreFresh /\ CachedWasAccepted /\ VerifiedWasAccepted
IInv == TypeInv /\ FreshInv

----------------------------------------------------------------------------

(***************************************************************************)
(* The unsigned subtraction: what is from the future is older than the     *)
(* time to live.                                                           *)
(***************************************************************************)
LEMMA WrappedAge ==
    ASSUME NEW now \in 0 .. MaxClock, NEW at \in 0 .. MaxClock, (now - at) % Width < Ttl
    PROVE  at <= now /\ now < at + Ttl
<1>1. now \in Int /\ at \in Int /\ Width \in Nat /\ Width > MaxClock + Ttl /\ MaxClock \in Nat /\ Ttl \in Nat
  BY TrustAssumption
<1>2. CASE at <= now
  <2>1. now - at \in 0 .. Width - 1
    BY <1>1, <1>2
  <2>2. (now - at) % Width = now - at
    BY <1>1, <2>1, Z3
  <2> QED BY <1>1, <1>2, <2>2
<1>3. CASE now < at
  <2>1. now - at + Width \in 0 .. Width - 1
    BY <1>1, <1>3
  <2>2. (now - at) % Width = now - at + Width
    BY <1>1, <1>3, <2>1, Z3
  <2>3. now - at + Width > Ttl
    BY <1>1
  <2> QED BY <1>1, <2>2, <2>3
<1> QED BY <1>1, <1>2, <1>3

LEMMA Started ==
    ASSUME TypeInv, NEW t \in Threads, NEW c \in CallType, call' = [call EXCEPT ![t] = c],
           c.stage # "idle" => c.digest \in Digests,
           c.stage \in {"verify_lock", "verify_check"} => c.backend \in Backends,
           c.stage = "trust_write" => c.text \in Texts
    PROVE  call' \in [Threads -> CallType] /\ CallsCarry'
<1>1. call \in [Threads -> CallType]
  BY DEF TypeInv, TypeOK, CallType
<1>2. call' \in [Threads -> CallType]
  BY <1>1
<1>3. \A u \in Threads : call'[u] = IF u = t THEN c ELSE call[u]
  BY <1>1
<1>4. CallsCarry'
  BY <1>3 DEF TypeInv, CallsCarry
<1> QED BY <1>2, <1>4

LEMMA Returned ==
    ASSUME TypeInv, NEW t \in Threads, Return(t)
    PROVE  call' \in [Threads -> CallType] /\ CallsCarry'
<1>1. Idle \in CallType /\ Idle.stage = "idle"
  BY DEF Idle, CallType, Stages
<1>2. call' = [call EXCEPT ![t] = Idle]
  BY DEF Return
<1> QED BY <1>1, <1>2, Started

----------------------------------------------------------------------------

LEMMA InitIInv == Init => IInv
<1> SUFFICES ASSUME Init PROVE IInv
  OBVIOUS
<1>1. Idle \in CallType /\ Idle.stage = "idle"
  BY DEF Idle, CallType, Stages
<1>2. TypeOK
  BY <1>1, TrustAssumption DEF Init, TypeOK, CallType
<1>3. CallsCarry
  BY <1>1 DEF Init, CallsCarry
<1>4. FreshInv
  BY DEF Init, FreshInv, HitsAreFresh, CachedWasAccepted, VerifiedWasAccepted
<1> QED BY <1>2, <1>3, <1>4 DEF IInv, TypeInv

(***************************************************************************)
(* The steps of trust_digest and untrust_digest touch the set, the files   *)
(* and their own call.                                                     *)
(***************************************************************************)
LEMMA AdminKeepsType ==
    ASSUME TypeInv, call' \in [Threads -> CallType], CallsCarry',
           trusted' \in [Digests -> Metadata \cup {None}],
           file' \in [Digests -> Texts \cup {None}], excused' \subseteq Digests,
           UNCHANGED <<clock, verification>>
    PROVE  TypeInv'
<1>1. UNCHANGED <<clock, cached, verifier, answer>>
  BY DEF verification
<1>2. TypeOK'
  BY <1>1 DEF TypeInv, TypeOK, CallType
<1> QED BY <1>2 DEF TypeInv

AdminStep(t) ==
    \/ TrustReads(t) \/ TrustWrites(t) \/ UntrustLooks(t) \/ UntrustUnlinks(t)
    \/ \E d \in Digests : UntrustBegins(t, d) \/ \E m \in Metadata : TrustBegins(t, d, m)

LEMMA AdminPreservesType ==
    ASSUME TypeInv, NEW t \in Threads, AdminStep(t)
    PROVE  TypeInv'
<1>0. /\ call \in [Threads -> CallType] /\ call[t] \in CallType
      /\ trusted \in [Digests -> Metadata \cup {None}]
      /\ file \in [Digests -> Texts \cup {None}] /\ excused \subseteq Digests
  BY DEF TypeInv, TypeOK, CallType
<1>1. CASE TrustReads(t)
  <2> DEFINE x == IF trusted[call[t].digest] = None THEN "null" ELSE trusted[call[t].digest]
             c == [call[t] EXCEPT !.stage = "trust_write", !.text = x]
  <2>1. call[t].digest \in Digests
    BY <1>1 DEF TrustReads, At, TypeInv, CallsCarry
  <2>2. x \in Texts
    BY <1>0, <2>1 DEF Texts
  <2>3. /\ c \in CallType /\ c.stage = "trust_write"
        /\ c.digest = call[t].digest /\ c.text = x
    BY <1>0, <2>2 DEF CallType, Stages
  <2>4. call' = [call EXCEPT ![t] = c]
    BY <1>1, <1>0 DEF TrustReads
  <2> HIDE DEF x, c
  <2>5. call' \in [Threads -> CallType] /\ CallsCarry'
    BY <2>1, <2>2, <2>3, <2>4, Started
  <2> QED BY <1>0, <1>1, <2>5, AdminKeepsType DEF TrustReads
<1>2. CASE TrustWrites(t)
  <2>1. call[t].digest \in Digests /\ call[t].text \in Texts
    BY <1>2 DEF TrustWrites, At, TypeInv, CallsCarry
  <2>2. file' \in [Digests -> Texts \cup {None}] /\ excused' \subseteq Digests
    BY <1>2, <1>0, <2>1 DEF TrustWrites, Stored, Excused
  <2>3. call' \in [Threads -> CallType] /\ CallsCarry'
    BY <1>2, Returned DEF TrustWrites
  <2> QED BY <1>0, <1>2, <2>2, <2>3, AdminKeepsType DEF TrustWrites
<1>3. CASE UntrustLooks(t)
  <2>1. excused' \subseteq Digests
    BY <1>0, <1>3 DEF UntrustLooks
  <2>2. CASE Return(t)
    <3>1. call' \in [Threads -> CallType] /\ CallsCarry'
      BY <2>2, Returned
    <3> QED BY <1>0, <1>3, <2>1, <3>1, AdminKeepsType DEF UntrustLooks
  <2>3. CASE Goto(t, "untrust_unlink")
    <3> DEFINE c == [call[t] EXCEPT !.stage = "untrust_unlink"]
    <3>1. call[t].digest \in Digests
      BY <1>3 DEF UntrustLooks, At, TypeInv, CallsCarry
    <3>2. c \in CallType /\ c.stage = "untrust_unlink" /\ c.digest = call[t].digest
      BY <1>0 DEF CallType, Stages
    <3>3. call' = [call EXCEPT ![t] = c]
      BY <2>3, <1>0 DEF Goto
    <3> HIDE DEF c
    <3>4. call' \in [Threads -> CallType] /\ CallsCarry'
      BY <3>1, <3>2, <3>3, Started
    <3> QED BY <1>0, <1>3, <2>1, <3>4, AdminKeepsType DEF UntrustLooks
  <2> QED BY <1>3, <2>2, <2>3 DEF UntrustLooks
<1>4. CASE UntrustUnlinks(t)
  <2>1. call[t].digest \in Digests
    BY <1>4 DEF UntrustUnlinks, At, TypeInv, CallsCarry
  <2>2. file' \in [Digests -> Texts \cup {None}] /\ excused' \subseteq Digests
    BY <1>4, <1>0, <2>1 DEF UntrustUnlinks, Stored, Excused
  <2>3. call' \in [Threads -> CallType] /\ CallsCarry'
    BY <1>4, Returned DEF UntrustUnlinks
  <2> QED BY <1>0, <1>4, <2>2, <2>3, AdminKeepsType DEF UntrustUnlinks
<1>5. ASSUME NEW d \in Digests, UntrustBegins(t, d) PROVE TypeInv'
  <2> DEFINE c == [Idle EXCEPT !.stage = "untrust_look", !.digest = d]
  <2>1. c \in CallType /\ c.stage = "untrust_look" /\ c.digest = d
    BY DEF Idle, CallType, Stages
  <2>2. call' = [call EXCEPT ![t] = c]
    BY <1>5 DEF UntrustBegins
  <2> HIDE DEF c
  <2>3. call' \in [Threads -> CallType] /\ CallsCarry'
    BY <2>1, <2>2, Started
  <2>4. trusted' \in [Digests -> Metadata \cup {None}]
    BY <1>0, <1>5 DEF UntrustBegins
  <2> QED BY <1>0, <1>5, <2>3, <2>4, AdminKeepsType DEF UntrustBegins
<1>6. ASSUME NEW d \in Digests, NEW m \in Metadata, TrustBegins(t, d, m) PROVE TypeInv'
  <2> DEFINE c == [Idle EXCEPT !.stage = "trust_read", !.digest = d]
  <2>1. c \in CallType /\ c.stage = "trust_read" /\ c.digest = d
    BY DEF Idle, CallType, Stages
  <2>2. call' = [call EXCEPT ![t] = c]
    BY <1>6 DEF TrustBegins
  <2> HIDE DEF c
  <2>3. call' \in [Threads -> CallType] /\ CallsCarry'
    BY <2>1, <2>2, Started
  <2>4. trusted' \in [Digests -> Metadata \cup {None}]
    BY <1>0, <1>6 DEF TrustBegins
  <2> QED BY <1>0, <1>6, <2>3, <2>4, AdminKeepsType DEF TrustBegins
<1> QED BY <1>1, <1>2, <1>3, <1>4, <1>5, <1>6 DEF AdminStep

LEMMA CacheInvKept ==
    ASSUME FreshInv, UNCHANGED <<cached, answer>>
    PROVE  FreshInv'
BY DEF FreshInv, HitsAreFresh, CachedWasAccepted, VerifiedWasAccepted

LEMMA AdminPreserves ==
    ASSUME IInv, NEW t \in Threads, AdminStep(t)
    PROVE  IInv'
<1>1. TypeInv'
  BY AdminPreservesType DEF IInv
<1>2. UNCHANGED <<cached, answer>>
  BY DEF AdminStep, TrustReads, TrustWrites, UntrustLooks, UntrustUnlinks,
         UntrustBegins, TrustBegins, verification
<1> QED BY <1>1, <1>2, CacheInvKept DEF IInv

----------------------------------------------------------------------------

(***************************************************************************)
(* A verification leaves the set and the files alone; what it answers or   *)
(* caches comes with what makes it true.                                   *)
(***************************************************************************)
LEMMA VerifyKeeps ==
    ASSUME TypeInv, call' \in [Threads -> CallType], CallsCarry',
           cached' \in [Digests -> EntryType \cup {None}],
           verifier' \in Threads \cup {None},
           answer' \in [Threads -> Answers \cup {None}],
           UNCHANGED <<clock, trusted, file, excused>>
    PROVE  TypeInv'
<1>1. TypeOK'
  BY DEF TypeInv, TypeOK, CallType, EntryType
<1> QED BY <1>1 DEF TypeInv

LEMMA AnswersWell ==
    ASSUME TypeInv, FreshInv, NEW t \in Threads, NEW a \in Answers,
           answer' = [answer EXCEPT ![t] = a],
           a.at <= a.now, a.now = a.at \/ a.now < a.at + Ttl, AcceptedBy(a.by, a.digest)
    PROVE  /\ answer' \in [Threads -> Answers \cup {None}]
           /\ HitsAreFresh' /\ VerifiedWasAccepted'
<1>1. answer \in [Threads -> Answers \cup {None}]
  BY DEF TypeInv, TypeOK
<1>2. \A u \in Threads : answer'[u] = IF u = t THEN a ELSE answer[u]
  BY <1>1
<1>3. HitsAreFresh'
  BY <1>2 DEF FreshInv, HitsAreFresh
<1>4. VerifiedWasAccepted'
  BY <1>2 DEF FreshInv, VerifiedWasAccepted, AcceptedBy
<1> QED BY <1>1, <1>3, <1>4

LEMMA VerifyLooksPreserves ==
    ASSUME IInv, NEW t \in Threads, NEW d \in Digests, NEW b \in Backends, NEW x \in Inputs,
           VerifyLooks(t, d, b, x)
    PROVE  IInv'
<1>0. /\ TypeInv /\ FreshInv /\ clock \in 0 .. MaxClock
      /\ cached \in [Digests -> EntryType \cup {None}]
      /\ verifier \in Threads \cup {None}
      /\ call \in [Threads -> CallType] /\ answer \in [Threads -> Answers \cup {None}]
  BY DEF IInv, TypeInv, TypeOK, CallType, EntryType
<1>1. UNCHANGED <<clock, trusted, file, cached, verifier, excused>>
  BY DEF VerifyLooks
<1>2. CASE cached[d] # None /\ Age(d) < Ttl
  <2> DEFINE a == [digest |-> d, backend |-> b, by |-> cached[d].by,
                   at |-> cached[d].at, now |-> clock]
  <2>1. cached[d].at \in 0 .. MaxClock /\ cached[d].by \in Backends
    BY <1>0, <1>2 DEF EntryType
  <2>2. cached[d].at <= clock /\ clock < cached[d].at + Ttl
    BY <1>0, <1>2, <2>1, WrappedAge DEF Age
  <2>3. AcceptedBy(cached[d].by, d)
    BY <1>0, <1>2 DEF FreshInv, CachedWasAccepted
  <2>4. /\ a \in Answers /\ a.digest = d /\ a.by = cached[d].by
        /\ a.at = cached[d].at /\ a.now = clock
    BY <1>0, <2>1 DEF Answers
  <2>5. answer' = [answer EXCEPT ![t] = a] /\ UNCHANGED call
    BY <1>2 DEF VerifyLooks
  <2> HIDE DEF a
  <2>6. /\ answer' \in [Threads -> Answers \cup {None}]
        /\ HitsAreFresh' /\ VerifiedWasAccepted'
    BY <1>0, <2>2, <2>3, <2>4, <2>5, AnswersWell
  <2>7. call' \in [Threads -> CallType] /\ CallsCarry'
    BY <1>0, <2>5 DEF TypeInv, CallsCarry
  <2>8. TypeInv'
    BY <1>0, <1>1, <2>6, <2>7, VerifyKeeps
  <2>9. CachedWasAccepted'
    BY <1>0, <1>1 DEF FreshInv, CachedWasAccepted
  <2> QED BY <2>6, <2>8, <2>9 DEF IInv, FreshInv
<1>3. CASE ~(cached[d] # None /\ Age(d) < Ttl)
  <2> DEFINE c == [Idle EXCEPT !.stage = "verify_lock", !.digest = d, !.backend = b, !.input = x]
  <2>1. c \in CallType /\ c.stage = "verify_lock" /\ c.digest = d /\ c.backend = b
    BY DEF Idle, CallType, Stages
  <2>2. call' = [call EXCEPT ![t] = c] /\ answer' = [answer EXCEPT ![t] = None]
    BY <1>3 DEF VerifyLooks
  <2> HIDE DEF c
  <2>3. call' \in [Threads -> CallType] /\ CallsCarry'
    BY <1>0, <2>1, <2>2, Started
  <2>4. answer' \in [Threads -> Answers \cup {None}]
    BY <1>0, <2>2
  <2>5. TypeInv'
    BY <1>0, <1>1, <2>3, <2>4, VerifyKeeps
  <2>6. \A u \in Threads : answer'[u] # None => answer'[u] = answer[u]
    BY <1>0, <2>2
  <2>7. FreshInv'
    BY <1>0, <1>1, <2>6 DEF FreshInv, HitsAreFresh, CachedWasAccepted, VerifiedWasAccepted
  <2> QED BY <2>5, <2>7 DEF IInv
<1> QED BY <1>2, <1>3

LEMMA VerifyLocksPreserves ==
    ASSUME IInv, NEW t \in Threads, VerifyLocks(t)
    PROVE  IInv'
<1> DEFINE c == [call[t] EXCEPT !.stage = "verify_check"]
<1>0. /\ TypeInv /\ FreshInv
      /\ cached \in [Digests -> EntryType \cup {None}]
      /\ call \in [Threads -> CallType] /\ call[t] \in CallType
      /\ answer \in [Threads -> Answers \cup {None}]
  BY DEF IInv, TypeInv, TypeOK, CallType, EntryType
<1>1. call[t].digest \in Digests /\ call[t].backend \in Backends
  BY <1>0 DEF VerifyLocks, At, TypeInv, CallsCarry
<1>2. /\ c \in CallType /\ c.stage = "verify_check"
      /\ c.digest = call[t].digest /\ c.backend = call[t].backend
  BY <1>0 DEF CallType, Stages
<1>3. call' = [call EXCEPT ![t] = c]
  BY <1>0 DEF VerifyLocks, Goto
<1> HIDE DEF c
<1>4. call' \in [Threads -> CallType] /\ CallsCarry'
  BY <1>0, <1>1, <1>2, <1>3, Started
<1>5. TypeInv'
  BY <1>0, <1>4, VerifyKeeps DEF VerifyLocks
<1>6. FreshInv'
  BY <1>0, CacheInvKept DEF VerifyLocks
<1> QED BY <1>5, <1>6 DEF IInv

LEMMA VerifyChecksPreserves ==
    ASSUME IInv, NEW t \in Threads, VerifyChecks(t)
    PROVE  IInv'
<1> DEFINE d == call[t].digest
           b == call[t].backend
           e == [at |-> clock, by |-> b]
           a == [digest |-> d, backend |-> b, by |-> b, at |-> clock, now |-> clock]
<1>0. /\ TypeInv /\ FreshInv /\ clock \in 0 .. MaxClock
      /\ cached \in [Digests -> EntryType \cup {None}]
      /\ verifier' \in Threads \cup {None}
      /\ answer \in [Threads -> Answers \cup {None}]
      /\ UNCHANGED <<clock, trusted, file, excused>>
  BY DEF IInv, TypeInv, TypeOK, EntryType, VerifyChecks
<1>1. d \in Digests /\ b \in Backends
  BY <1>0 DEF VerifyChecks, At, TypeInv, CallsCarry
<1>2. call' \in [Threads -> CallType] /\ CallsCarry'
  BY <1>0, Returned DEF VerifyChecks
<1>3. CASE <<b, d, call[t].input>> \in Accepts
  <2>1. cached' = [cached EXCEPT ![d] = e] /\ answer' = [answer EXCEPT ![t] = a]
    BY <1>3 DEF VerifyChecks, Caches
  <2>2. AcceptedBy(b, d)
    BY <1>3, TrustAssumption DEF AcceptedBy
  <2>3. e \in EntryType /\ e.by = b
    BY <1>0, <1>1 DEF EntryType
  <2>4. a \in Answers /\ a.digest = d /\ a.by = b /\ a.at = clock /\ a.now = clock
    BY <1>0, <1>1 DEF Answers
  <2>5. clock <= clock
    BY <1>0
  <2> HIDE DEF a, b, d, e
  <2>6. /\ answer' \in [Threads -> Answers \cup {None}]
        /\ HitsAreFresh' /\ VerifiedWasAccepted'
    BY <1>0, <2>1, <2>2, <2>4, <2>5, AnswersWell
  <2>7. cached' \in [Digests -> EntryType \cup {None}]
    BY <1>0, <2>1, <2>3
  <2>8. CachedWasAccepted'
    BY <1>0, <1>1, <2>1, <2>2, <2>3 DEF FreshInv, CachedWasAccepted
  <2>9. TypeInv'
    BY <1>0, <1>2, <2>6, <2>7, VerifyKeeps
  <2> QED BY <2>6, <2>8, <2>9 DEF IInv, FreshInv
<1>4. CASE <<b, d, call[t].input>> \notin Accepts
  <2>1. UNCHANGED <<cached, answer>>
    BY <1>4 DEF VerifyChecks
  <2>2. TypeInv'
    BY <1>0, <1>2, <2>1, VerifyKeeps
  <2>3. FreshInv'
    BY <1>0, <2>1, CacheInvKept
  <2> QED BY <2>2, <2>3 DEF IInv
<1> QED BY <1>3, <1>4

----------------------------------------------------------------------------

LEMMA ClearCachePreserves == IInv /\ ClearCache => IInv'
<1> SUFFICES ASSUME IInv, ClearCache PROVE IInv'
  OBVIOUS
<1>1. \A d \in Digests : cached'[d] = None
  BY DEF ClearCache
<1>2. cached' \in [Digests -> EntryType \cup {None}]
  BY DEF ClearCache
<1>3. TypeInv'
  BY <1>2 DEF IInv, TypeInv, TypeOK, CallsCarry, ClearCache, CallType, EntryType
<1>4. FreshInv'
  BY <1>1 DEF ClearCache, IInv, FreshInv, HitsAreFresh, CachedWasAccepted, VerifiedWasAccepted
<1> QED BY <1>3, <1>4 DEF IInv

LEMMA ClockPreserves == IInv /\ ClockMoves => IInv'
<1> SUFFICES ASSUME IInv, ClockMoves PROVE IInv'
  OBVIOUS
<1>1. TypeInv'
  BY DEF IInv, TypeInv, TypeOK, CallsCarry, ClockMoves
<1>2. FreshInv'
  BY CacheInvKept DEF IInv, ClockMoves
<1> QED BY <1>1, <1>2 DEF IInv

LEMMA RestartPreserves == IInv /\ Restart => IInv'
<1> SUFFICES ASSUME IInv, Restart PROVE IInv'
  OBVIOUS
<1>1. Idle \in CallType /\ Idle.stage = "idle"
  BY DEF Idle, CallType, Stages
<1>2. TypeOK'
  BY <1>1 DEF IInv, TypeInv, TypeOK, Restart, CallType
<1>3. CallsCarry'
  BY <1>1 DEF CallsCarry, Restart
<1>4. FreshInv'
  BY DEF Restart, FreshInv, HitsAreFresh, CachedWasAccepted, VerifiedWasAccepted
<1> QED BY <1>2, <1>3, <1>4 DEF IInv, TypeInv

LEMMA StutterPreserves == IInv /\ UNCHANGED vars => IInv'
BY DEF IInv, TypeInv, TypeOK, CallsCarry, FreshInv, HitsAreFresh, CachedWasAccepted,
       VerifiedWasAccepted, vars

LEMMA NextPreserves == IInv /\ [Next]_vars => IInv'
BY AdminPreserves, VerifyLooksPreserves, VerifyLocksPreserves, VerifyChecksPreserves,
   ClearCachePreserves, ClockPreserves, RestartPreserves, StutterPreserves
   DEF Next, AdminStep

LEMMA InvariantHolds == Spec => []IInv
BY InitIInv, NextPreserves, PTL DEF Spec

\* The set, the files, the cache and the calls keep their shapes.
THEOREM TypeCorrect == Spec => []TypeOK
<1>1. IInv => TypeOK
  BY DEF IInv, TypeInv
<1> QED BY <1>1, InvariantHolds, PTL

\* However the clock is set back and however calls race, a hit is not from the future
\* and no older than the time to live.
THEOREM FreshHits == Spec => []HitsAreFresh
<1>1. IInv => HitsAreFresh
  BY DEF IInv, FreshInv
<1> QED BY <1>1, InvariantHolds, PTL

\* What is answered as verified was accepted by the backend that is named.
THEOREM AcceptedIsVerified == Spec => []VerifiedWasAccepted
<1>1. IInv => VerifiedWasAccepted
  BY DEF IInv, FreshInv
<1> QED BY <1>1, InvariantHolds, PTL

----------------------------------------------------------------------------

AdminStages == {"trust_read", "trust_write", "untrust_look", "untrust_unlink"}

(***************************************************************************)
(* With one administrator per digest the set in memory does not change     *)
(* under a call that is about to write the file.                           *)
(***************************************************************************)
Alone == \A t, u \in Threads :
    call[t].stage \in AdminStages /\ call[u].stage \in AdminStages /\ t # u
        => call[t].digest # call[u].digest
InHand == \A t \in Threads :
    /\ call[t].stage = "trust_read" => trusted[call[t].digest] # None
    /\ call[t].stage = "trust_write" => call[t].text = trusted[call[t].digest]
    /\ call[t].stage \in {"untrust_look", "untrust_unlink"} => trusted[call[t].digest] = None
AdminInv == Alone /\ InHand /\ FilesAgreeAtRest

LEMMA InitAdmin == Init => AdminInv
BY DEF Init, Idle, AdminInv, Alone, InHand, FilesAgreeAtRest, AdminStages, Administered

LEMMA BeginsAlone ==
    ASSUME TypeInv, AdminInv, NEW t \in Threads, NEW d \in Digests, NEW c \in CallType,
           ~Administered(d), At(t, "idle"),
           call' = [call EXCEPT ![t] = c], c.digest = d, c.stage \in AdminStages
    PROVE  /\ Alone'
           /\ \A u \in Threads : u # t => call'[u] = call[u]
           /\ call'[t] = c
           /\ \A x \in Digests : Administered(x)' <=> Administered(x) \/ x = d
           /\ \A u \in Threads : u # t /\ call[u].stage \in AdminStages => call[u].digest # d
<1>1. call \in [Threads -> CallType]
  BY DEF TypeInv, TypeOK, CallType
<1>2. \A u \in Threads : call'[u] = IF u = t THEN c ELSE call[u]
  BY <1>1
<1>3. \A u \in Threads : u # t /\ call[u].stage \in AdminStages => call[u].digest # d
  BY DEF Administered, AdminStages
<1>4. Alone'
  BY <1>2, <1>3 DEF Alone, AdminInv
<1>5. \A x \in Digests : Administered(x)' <=> Administered(x) \/ x = d
  BY <1>2 DEF Administered, AdminStages, At
<1> QED BY <1>2, <1>3, <1>4, <1>5

LEMMA ReturnsAlone ==
    ASSUME TypeInv, AdminInv, NEW t \in Threads, Return(t), call[t].stage \in AdminStages
    PROVE  /\ Alone'
           /\ \A u \in Threads : u # t => call'[u] = call[u]
           /\ call'[t] = Idle
           /\ \A x \in Digests : Administered(x)' <=> Administered(x) /\ x # call[t].digest
           /\ \A u \in Threads : u # t /\ call[u].stage \in AdminStages
                                   => call[u].digest # call[t].digest
<1>1. call \in [Threads -> CallType] /\ Idle.stage = "idle"
  BY DEF TypeInv, TypeOK, CallType, Idle
<1>2. \A u \in Threads : call'[u] = IF u = t THEN Idle ELSE call[u]
  BY <1>1 DEF Return
<1>3. \A u \in Threads : u # t /\ call[u].stage \in AdminStages
                            => call[u].digest # call[t].digest
  BY DEF AdminInv, Alone
<1>4. Alone'
  BY <1>1, <1>2 DEF Alone, AdminInv, AdminStages
<1>5. \A x \in Digests : Administered(x)' <=> Administered(x) /\ x # call[t].digest
  BY <1>1, <1>2, <1>3 DEF Administered, AdminStages
<1> QED BY <1>2, <1>3, <1>4, <1>5

LEMMA FilesKept ==
    ASSUME AdminInv, NEW d,
           \A x \in Digests : x # d => trusted'[x] = trusted[x] /\ file'[x] = file[x]
                                       /\ (x \in excused' <=> x \in excused)
                                       /\ (Administered(x)' <=> Administered(x)),
           d \in Digests /\ ~Administered(d)' /\ d \notin excused' => file'[d] = trusted'[d]
    PROVE  FilesAgreeAtRest'
BY DEF AdminInv, FilesAgreeAtRest

LEMMA TrustBeginsAdmin ==
    ASSUME SerialAdmin, TypeInv, AdminInv, NEW t \in Threads, NEW d \in Digests,
           NEW m \in Metadata, TrustBegins(t, d, m)
    PROVE  AdminInv'
<1> DEFINE c == [Idle EXCEPT !.stage = "trust_read", !.digest = d]
<1>1. c \in CallType /\ c.stage = "trust_read" /\ c.digest = d
  BY DEF Idle, CallType, Stages
<1>2. call' = [call EXCEPT ![t] = c] /\ ~Administered(d) /\ At(t, "idle")
  BY DEF TrustBegins
<1>3. /\ trusted' = [trusted EXCEPT ![d] = m] /\ UNCHANGED <<file, excused>>
      /\ trusted \in [Digests -> Metadata \cup {None}]
  BY DEF TrustBegins, TypeInv, TypeOK
<1> HIDE DEF c
<1>4. c.stage \in AdminStages
  BY <1>1 DEF AdminStages
<1>5. /\ Alone' /\ call'[t] = c
      /\ \A u \in Threads : u # t => call'[u] = call[u]
      /\ \A x \in Digests : Administered(x)' <=> Administered(x) \/ x = d
      /\ \A u \in Threads : u # t /\ call[u].stage \in AdminStages => call[u].digest # d
  BY <1>1, <1>2, <1>4, BeginsAlone
<1>6. m # None /\ trusted'[d] = m /\ \A x \in Digests : x # d => trusted'[x] = trusted[x]
  BY <1>3, TrustAssumption
<1>7. \A u \in Threads : call[u].stage \in AdminStages => call[u].digest \in Digests
  BY DEF TypeInv, CallsCarry, AdminStages
<1>8. InHand'
  BY <1>1, <1>5, <1>6, <1>7 DEF InHand, AdminInv, AdminStages
<1>9. FilesAgreeAtRest'
  BY <1>3, <1>5, <1>6, FilesKept
<1> QED BY <1>5, <1>8, <1>9 DEF AdminInv

LEMMA UntrustBeginsAdmin ==
    ASSUME SerialAdmin, TypeInv, AdminInv, NEW t \in Threads, NEW d \in Digests,
           UntrustBegins(t, d)
    PROVE  AdminInv'
<1> DEFINE c == [Idle EXCEPT !.stage = "untrust_look", !.digest = d]
<1>1. c \in CallType /\ c.stage = "untrust_look" /\ c.digest = d
  BY DEF Idle, CallType, Stages
<1>2. call' = [call EXCEPT ![t] = c] /\ ~Administered(d) /\ At(t, "idle")
  BY DEF UntrustBegins
<1>3. /\ trusted' = [trusted EXCEPT ![d] = None] /\ UNCHANGED <<file, excused>>
      /\ trusted \in [Digests -> Metadata \cup {None}]
  BY DEF UntrustBegins, TypeInv, TypeOK
<1> HIDE DEF c
<1>4. c.stage \in AdminStages
  BY <1>1 DEF AdminStages
<1>5. /\ Alone' /\ call'[t] = c
      /\ \A u \in Threads : u # t => call'[u] = call[u]
      /\ \A x \in Digests : Administered(x)' <=> Administered(x) \/ x = d
      /\ \A u \in Threads : u # t /\ call[u].stage \in AdminStages => call[u].digest # d
  BY <1>1, <1>2, <1>4, BeginsAlone
<1>6. trusted'[d] = None /\ \A x \in Digests : x # d => trusted'[x] = trusted[x]
  BY <1>3
<1>7. \A u \in Threads : call[u].stage \in AdminStages => call[u].digest \in Digests
  BY DEF TypeInv, CallsCarry, AdminStages
<1>8. InHand'
  BY <1>1, <1>5, <1>6, <1>7 DEF InHand, AdminInv, AdminStages
<1>9. FilesAgreeAtRest'
  BY <1>3, <1>5, <1>6, FilesKept
<1> QED BY <1>5, <1>8, <1>9 DEF AdminInv

LEMMA TrustReadsAdmin ==
    ASSUME TypeInv, AdminInv, NEW t \in Threads, TrustReads(t)
    PROVE  AdminInv'
<1> DEFINE x == trusted[call[t].digest]
           c == [call[t] EXCEPT !.stage = "trust_write", !.text = x]
<1>1. x # None /\ call[t].stage = "trust_read"
  BY DEF TrustReads, At, AdminInv, InHand
<1>2. call \in [Threads -> CallType] /\ call[t] \in CallType
  BY DEF TypeInv, TypeOK, CallType
<1>3. call' = [call EXCEPT ![t] = c]
  BY <1>1, <1>2 DEF TrustReads
<1>4. c.stage = "trust_write" /\ c.digest = call[t].digest /\ c.text = x
  BY <1>2 DEF CallType
<1>5. UNCHANGED <<trusted, file, excused>>
  BY DEF TrustReads
<1> HIDE DEF c
<1>6. \A u \in Threads : call'[u] = IF u = t THEN c ELSE call[u]
  BY <1>2, <1>3
<1>7. \A u \in Threads : /\ call'[u].digest = call[u].digest
                         /\ call'[u].stage \in AdminStages <=> call[u].stage \in AdminStages
  BY <1>1, <1>4, <1>6 DEF AdminStages
<1>8. Alone'
  BY <1>7 DEF Alone, AdminInv
<1>9. InHand'
  BY <1>4, <1>5, <1>6 DEF InHand, AdminInv
<1>10. \A d \in Digests : Administered(d)' <=> Administered(d)
  BY <1>7 DEF Administered, AdminStages
<1>11. FilesAgreeAtRest'
  BY <1>5, <1>10 DEF FilesAgreeAtRest, AdminInv
<1> QED BY <1>8, <1>9, <1>11 DEF AdminInv

(***************************************************************************)
(* The call ends having written what the set holds, or having found or     *)
(* made the file absent; or the disk refused.                              *)
(***************************************************************************)
LEMMA EndsAdmin ==
    ASSUME TypeInv, AdminInv, NEW t \in Threads, Return(t), call[t].stage \in AdminStages,
           UNCHANGED trusted,
           \/ Stored(call[t].digest, trusted[call[t].digest])
           \/ Excused(call[t].digest)
    PROVE  AdminInv'
<1> DEFINE d == call[t].digest
<1>1. d \in Digests /\ file \in [Digests -> Texts \cup {None}]
  BY DEF TypeInv, TypeOK, CallsCarry, AdminStages
<1>2. /\ Alone' /\ call'[t] = Idle
      /\ \A u \in Threads : u # t => call'[u] = call[u]
      /\ \A x \in Digests : Administered(x)' <=> Administered(x) /\ x # d
  BY ReturnsAlone
<1>3. InHand'
  BY <1>2 DEF InHand, AdminInv, Idle
<1>4. /\ \A x \in Digests : x # d => file'[x] = file[x] /\ (x \in excused' <=> x \in excused)
      /\ d \notin excused' => file'[d] = trusted'[d]
  BY <1>1 DEF Stored, Excused
<1>5. FilesAgreeAtRest'
  BY <1>1, <1>2, <1>4, FilesKept
<1> QED BY <1>2, <1>3, <1>5 DEF AdminInv

LEMMA UntrustLooksAdmin ==
    ASSUME TypeInv, AdminInv, NEW t \in Threads, UntrustLooks(t)
    PROVE  AdminInv'
<1> DEFINE d == call[t].digest
<1>1. /\ call[t].stage = "untrust_look" /\ trusted[d] = None /\ d \in Digests
      /\ file \in [Digests -> Texts \cup {None}] /\ UNCHANGED <<trusted, file>>
  BY DEF UntrustLooks, At, AdminInv, InHand, TypeInv, TypeOK, CallsCarry
<1>2. CASE file[d] = None /\ Return(t) /\ excused' = excused \ {d}
  <2>1. file' = [file EXCEPT ![d] = trusted[d]]
    BY <1>1, <1>2
  <2>2. Stored(d, trusted[d])
    BY <1>2, <2>1 DEF Stored
  <2> QED BY <1>1, <1>2, <2>2, EndsAdmin DEF AdminStages
<1>3. CASE file[d] # None /\ Goto(t, "untrust_unlink") /\ UNCHANGED excused
  <2> DEFINE c == [call[t] EXCEPT !.stage = "untrust_unlink"]
  <2>1. call \in [Threads -> CallType] /\ call[t] \in CallType
    BY DEF TypeInv, TypeOK, CallType
  <2>2. call' = [call EXCEPT ![t] = c]
    BY <1>3, <2>1 DEF Goto
  <2>3. c.stage = "untrust_unlink" /\ c.digest = d
    BY <2>1 DEF CallType
  <2> HIDE DEF c
  <2>4. \A u \in Threads : call'[u] = IF u = t THEN c ELSE call[u]
    BY <2>1, <2>2
  <2>5. \A u \in Threads : /\ call'[u].digest = call[u].digest
                           /\ call'[u].stage \in AdminStages <=> call[u].stage \in AdminStages
    BY <1>1, <2>3, <2>4 DEF AdminStages
  <2>6. Alone'
    BY <2>5 DEF Alone, AdminInv
  <2>7. InHand'
    BY <1>1, <2>3, <2>4 DEF InHand, AdminInv
  <2>8. \A x \in Digests : Administered(x)' <=> Administered(x)
    BY <2>5 DEF Administered, AdminStages
  <2>9. FilesAgreeAtRest'
    BY <1>1, <1>3, <2>8 DEF FilesAgreeAtRest, AdminInv
  <2> QED BY <2>6, <2>7, <2>9 DEF AdminInv
<1> QED BY <1>2, <1>3 DEF UntrustLooks

LEMMA AdminSteps ==
    ASSUME SerialAdmin, TypeInv, AdminInv, NEW t \in Threads, AdminStep(t)
    PROVE  AdminInv'
<1>1. CASE TrustWrites(t)
  <2>1. call[t].stage = "trust_write" /\ call[t].text = trusted[call[t].digest]
    BY <1>1 DEF TrustWrites, At, AdminInv, InHand
  <2> QED BY <1>1, <2>1, EndsAdmin DEF TrustWrites, AdminStages
<1>2. CASE UntrustUnlinks(t)
  <2>1. call[t].stage = "untrust_unlink" /\ None = trusted[call[t].digest]
    BY <1>2 DEF UntrustUnlinks, At, AdminInv, InHand
  <2> QED BY <1>2, <2>1, EndsAdmin DEF UntrustUnlinks, AdminStages
<1> QED BY <1>1, <1>2, TrustReadsAdmin, UntrustLooksAdmin, UntrustBeginsAdmin,
           TrustBeginsAdmin DEF AdminStep

(***************************************************************************)
(* A step of a verification leaves the calls of the administrators alone.  *)
(***************************************************************************)
LEMMA OthersAdmin ==
    ASSUME TypeInv, AdminInv, UNCHANGED <<trusted, file, excused>>,
           \A u \in Threads : \/ call'[u] = call[u]
                              \/ call[u].stage \notin AdminStages /\ call'[u].stage \notin AdminStages
    PROVE  AdminInv'
<1>1. Alone'
  BY DEF Alone, AdminInv
<1>2. InHand'
  BY DEF InHand, AdminInv, AdminStages
<1>3. \A d \in Digests : Administered(d)' <=> Administered(d)
  BY DEF Administered, AdminStages
<1>4. FilesAgreeAtRest'
  BY <1>3 DEF FilesAgreeAtRest, AdminInv
<1> QED BY <1>1, <1>2, <1>4 DEF AdminInv

VerifyStep(t) ==
    \/ VerifyLocks(t) \/ VerifyChecks(t)
    \/ \E d \in Digests, b \in Backends, x \in Inputs : VerifyLooks(t, d, b, x)

LEMMA VerifyAdmin ==
    ASSUME TypeInv, AdminInv, NEW t \in Threads, VerifyStep(t)
    PROVE  AdminInv'
<1>0. call \in [Threads -> CallType] /\ Idle.stage = "idle"
  BY DEF TypeInv, TypeOK, CallType, Idle
<1>1. UNCHANGED <<trusted, file, excused>>
  BY DEF VerifyStep, VerifyLocks, VerifyChecks, VerifyLooks
<1>2. CASE VerifyLocks(t)
  <2>1. \A u \in Threads : u # t => call'[u] = call[u]
    BY <1>0, <1>2 DEF VerifyLocks, Goto
  <2>2. call[t].stage = "verify_lock" /\ call'[t].stage = "verify_check"
    BY <1>0, <1>2 DEF VerifyLocks, Goto, At, CallType
  <2> QED BY <1>1, <2>1, <2>2, OthersAdmin DEF AdminStages
<1>3. CASE VerifyChecks(t)
  <2>1. \A u \in Threads : u # t => call'[u] = call[u]
    BY <1>0, <1>3 DEF VerifyChecks, Return
  <2>2. call[t].stage = "verify_check" /\ call'[t].stage = "idle"
    BY <1>0, <1>3 DEF VerifyChecks, Return, At
  <2> QED BY <1>1, <2>1, <2>2, OthersAdmin DEF AdminStages
<1>4. ASSUME NEW d \in Digests, NEW b \in Backends, NEW x \in Inputs, VerifyLooks(t, d, b, x)
      PROVE  AdminInv'
  <2> DEFINE c == [Idle EXCEPT !.stage = "verify_lock", !.digest = d, !.backend = b, !.input = x]
  <2>1. c.stage = "verify_lock" /\ call[t].stage = "idle"
    BY <1>4 DEF Idle, VerifyLooks, At
  <2>2. UNCHANGED call \/ call' = [call EXCEPT ![t] = c]
    BY <1>4 DEF VerifyLooks
  <2> HIDE DEF c
  <2>3. \A u \in Threads : call'[u] = call[u] \/ (u = t /\ call'[u] = c)
    BY <1>0, <2>2
  <2> QED BY <1>1, <2>1, <2>3, OthersAdmin DEF AdminStages
<1> QED BY <1>2, <1>3, <1>4 DEF VerifyStep

LEMMA RestartAdmin == TypeInv /\ Restart => AdminInv'
<1> SUFFICES ASSUME TypeInv, Restart PROVE AdminInv'
  OBVIOUS
<1>1. \A u \in Threads : call'[u].stage = "idle"
  BY DEF Restart, Idle
<1>2. Alone' /\ InHand'
  BY <1>1 DEF Alone, InHand, AdminStages
<1>3. FilesAgreeAtRest'
  BY DEF Restart, FilesAgreeAtRest
<1> QED BY <1>2, <1>3 DEF AdminInv

LEMMA NextAdmin ==
    ASSUME SerialAdmin, TypeInv, AdminInv, [Next]_vars
    PROVE  AdminInv'
<1>1. CASE ClearCache \/ ClockMoves \/ UNCHANGED vars
  <2>1. UNCHANGED <<trusted, file, excused, call>>
    BY <1>1 DEF ClearCache, ClockMoves, vars
  <2>2. \A u \in Threads : call'[u] = call[u]
    BY <2>1
  <2> QED BY <2>1, <2>2, OthersAdmin
<1>2. CASE \E t \in Threads : AdminStep(t) \/ VerifyStep(t)
  BY <1>2, AdminSteps, VerifyAdmin
<1> QED BY <1>1, <1>2, RestartAdmin DEF Next, AdminStep, VerifyStep

\* With one administrator per digest at a time, the file of a digest nobody administers
\* says what the set says, unless the disk or a restart excuses it.
THEOREM FilesAgree ==
    ASSUME SerialAdmin
    PROVE  Spec => []FilesAgreeAtRest
<1>1. Init => AdminInv
  BY InitAdmin
<1>2. TypeInv /\ TypeInv' /\ AdminInv /\ [Next]_vars => AdminInv'
  BY NextAdmin
<1>3. Spec => []TypeInv
  <2>1. IInv => TypeInv
    BY DEF IInv
  <2> QED BY <2>1, InvariantHolds, PTL
<1>4. AdminInv => FilesAgreeAtRest
  BY DEF AdminInv
<1> QED BY <1>1, <1>2, <1>3, <1>4, PTL DEF Spec

-----------------------------------------------------------------------------

(***************************************************************************)
(* The compile cache.  Whatever other users of the backend do, a frame     *)
(* under some host's tag is one that store has written.                    *)
(***************************************************************************)
Results1 == [key : Keys, artifact : Artifacts \cup {Missing}, due : {"no", "yes"}]

CacheTypes ==
    /\ frames \subseteq Frames /\ aliases \subseteq Aliases
    /\ secret \in [Hosts -> Secrets]
    /\ access \in [Hosts -> Accesses]
    /\ loaded \in [Hosts -> Results1 \cup {Missing}]

\* A call under way is about a key and a frame; a store's frame has its own tag.
Carries == \A h \in Hosts :
    LET c == access[h] IN
    /\ c.stage # "idle" => c.key \in Keys /\ c.frame \in Frames
    /\ c.stage \in {"store_frame", "store_alias"} =>
         c.frame.key = c.key /\ c.frame.secret = secret[h]

OwnFrames == frames \subseteq made

\* Of a key that nobody spoilt, every alias leads to a frame of the key, all under one
\* secret.
Leads(k) == \A x \in AliasOf(k) : x.frame \in frames /\ x.frame.key = k
OneSecret(k, s) == \A x \in AliasOf(k) : x.frame.secret = s
Clean == \A k \in Keys \ spoilt :
    /\ Leads(k)
    /\ \A s \in Secrets : <<s, k>> \in promised => AliasOf(k) # {} /\ OneSecret(k, s)
\* What a call has read of such a key stays.
Found == \A h \in Hosts :
    LET c == access[h] IN
    /\ c.stage \in {"store_alias", "load_frame"} /\ c.key \notin spoilt =>
         c.frame \in frames /\ c.frame.key = c.key
    /\ c.stage = "load_frame" /\ c.due = "yes" /\ c.key \notin spoilt
         => Verifies(h, c.key, c.frame)

CacheInv ==
    CacheTypes /\ Carries /\ OwnFrames /\ OnlyOwnArtifacts /\ Clean /\ Found /\ StoredLoads

----------------------------------------------------------------------------

LEMMA MissingIsNothing == Missing \notin Keys /\ Missing \notin Artifacts /\ Missing \notin Secrets
BY CacheAssumption

LEMMA NoAccessType == NoAccess \in Accesses /\ NoAccess.stage = "idle"
BY DEF NoAccess, Accesses

LEMMA TaggedType ==
    ASSUME CacheTypes, NEW h \in Hosts, NEW k \in Keys, NEW a \in Artifacts
    PROVE  /\ Tagged(h, k, a) \in Frames
           /\ Tagged(h, k, a).key = k /\ Tagged(h, k, a).secret = secret[h]
BY DEF CacheTypes, Tagged, Frames

LEMMA FrameIsTagged ==
    ASSUME NEW h \in Hosts, NEW f \in Frames, Verifies(h, f.key, f)
    PROVE  Tagged(h, f.key, f.artifact) = f /\ f.artifact \in Artifacts /\ f.key \in Keys
BY DEF Verifies, Tagged, Frames

LEMMA CacheInitInv == CacheInit => CacheInv
<1> SUFFICES ASSUME CacheInit PROVE CacheInv
  OBVIOUS
<1>1. CacheTypes
  BY NoAccessType DEF CacheInit, CacheTypes
<1>2. Carries /\ Found
  BY NoAccessType DEF CacheInit, Carries, Found
<1>3. OwnFrames /\ Clean /\ OnlyOwnArtifacts /\ StoredLoads
  BY DEF CacheInit, OwnFrames, Clean, Leads, AliasOf, OnlyOwnArtifacts, StoredLoads
<1> QED BY <1>1, <1>2, <1>3 DEF CacheInv

LEMMA StoreKeeps ==
    ASSUME CacheInv, NEW h \in Hosts, NEW k \in Keys, NEW a \in Artifacts, Store(h, k, a)
    PROVE  CacheInv'
<1> DEFINE f == Tagged(h, k, a)
           c == [stage |-> "store_frame", key |-> k, frame |-> f, due |-> "no"]
<1>1. CacheTypes /\ f \in Frames /\ f.key = k /\ f.secret = secret[h]
  BY TaggedType DEF CacheInv
<1> HIDE DEF f
<1>2. c \in Accesses /\ c.stage = "store_frame" /\ c.key = k /\ c.frame = f
  BY <1>1 DEF Accesses
<1>3. /\ access' = [access EXCEPT ![h] = c] /\ loaded' = [loaded EXCEPT ![h] = Missing]
      /\ UNCHANGED <<frames, aliases, secret, made, promised, spoilt>>
  BY DEF Store, Following, f
<1> HIDE DEF c
<1>4. CacheTypes'
  BY <1>1, <1>2, <1>3 DEF CacheTypes
<1>5. \A g \in Hosts : access'[g] = IF g = h THEN c ELSE access[g]
  BY <1>1, <1>3 DEF CacheTypes
<1>6. \A g \in Hosts : loaded'[g] = IF g = h THEN Missing ELSE loaded[g]
  BY <1>1, <1>3 DEF CacheTypes
<1>7. Carries' /\ Found'
  BY <1>1, <1>2, <1>3, <1>5 DEF CacheInv, Carries, Found, Verifies
<1>8. OwnFrames' /\ Clean'
  BY <1>3 DEF CacheInv, OwnFrames, Clean, Leads, OneSecret, AliasOf
<1>9. OnlyOwnArtifacts' /\ StoredLoads'
  BY <1>3, <1>6 DEF CacheInv, OnlyOwnArtifacts, StoredLoads, Tagged
<1> QED BY <1>4, <1>7, <1>8, <1>9 DEF CacheInv

LEMMA StoreFrameKeeps ==
    ASSUME CacheInv, NEW h \in Hosts, StoreFrame(h)
    PROVE  CacheInv'
<1> DEFINE f == access[h].frame
           c == [access[h] EXCEPT !.stage = "store_alias"]
<1>1. /\ CacheTypes /\ access[h] \in Accesses /\ access[h].stage = "store_frame"
      /\ access[h].key \in Keys /\ f \in Frames /\ f.key = access[h].key
      /\ f.secret = secret[h]
  BY DEF CacheInv, CacheTypes, Carries, StoreFrame
<1>2. /\ frames' = frames \cup {f} /\ made' = made \cup {f}
      /\ access' = [access EXCEPT ![h] = c]
      /\ UNCHANGED <<aliases, secret, loaded, promised, spoilt>>
  BY <1>1 DEF StoreFrame, GoesOn, Following
<1>3. c \in Accesses /\ c.stage = "store_alias" /\ c.key = access[h].key /\ c.frame = f
  BY <1>1 DEF Accesses
<1> HIDE DEF c, f
<1>4. CacheTypes'
  BY <1>1, <1>2, <1>3 DEF CacheTypes
<1>5. \A g \in Hosts : access'[g] = IF g = h THEN c ELSE access[g]
  BY <1>1, <1>2 DEF CacheTypes
<1>6. Carries'
  BY <1>1, <1>2, <1>3, <1>5 DEF CacheInv, Carries
<1>7. Found'
  BY <1>1, <1>2, <1>3, <1>5 DEF CacheInv, Found, Verifies
<1>8. OwnFrames' /\ OnlyOwnArtifacts' /\ StoredLoads'
  BY <1>2 DEF CacheInv, OwnFrames, OnlyOwnArtifacts, StoredLoads, Tagged
<1>9. Clean'
  BY <1>2 DEF CacheInv, Clean, Leads, OneSecret, AliasOf
<1> QED BY <1>4, <1>6, <1>7, <1>8, <1>9 DEF CacheInv

LEMMA StoreAliasKeeps ==
    ASSUME CacheInv, NEW h \in Hosts, StoreAlias(h)
    PROVE  CacheInv'
<1> DEFINE k == access[h].key
           f == access[h].frame
           x == [key |-> k, frame |-> f]
<1>1. /\ CacheTypes /\ k \in Keys /\ f \in Frames /\ f.key = k /\ f.secret = secret[h]
      /\ k \notin spoilt => f \in frames
  BY DEF CacheInv, StoreAlias, Carries, Found
<1>2. /\ aliases' = aliases \cup {x} /\ promised' = promised \cup {<<secret[h], k>>}
      /\ spoilt \subseteq spoilt'
      /\ \A j \in Keys : j \in spoilt' <=>
            j \in spoilt \/ (j = k /\ \E y \in AliasOf(k) : y.frame.secret # secret[h])
      /\ access' = [access EXCEPT ![h] = NoAccess]
      /\ UNCHANGED <<frames, secret, loaded, made>>
  BY <1>1 DEF StoreAlias, GoesOn, Following
<1> HIDE DEF k, f
<1>3. x \in Aliases /\ x.key = k /\ x.frame = f
  BY <1>1 DEF Aliases
<1> HIDE DEF x
<1>4. CacheTypes'
  BY <1>1, <1>2, <1>3, NoAccessType DEF CacheTypes
<1>5. \A g \in Hosts : access'[g] = IF g = h THEN NoAccess ELSE access[g]
  BY <1>1, <1>2 DEF CacheTypes
<1>6. Carries'
  BY <1>2, <1>5, NoAccessType DEF CacheInv, Carries
<1>7. OwnFrames' /\ OnlyOwnArtifacts'
  BY <1>2 DEF CacheInv, OwnFrames, OnlyOwnArtifacts, Tagged
<1>8. Found'
  BY <1>2, <1>5, NoAccessType DEF CacheInv, Found, Verifies
<1>9. StoredLoads'
  BY <1>2 DEF CacheInv, StoredLoads
<1>10. ASSUME NEW j \in Keys \ spoilt'
       PROVE  /\ Leads(j)'
              /\ \A s \in Secrets : <<s, j>> \in promised' => AliasOf(j)' # {} /\ OneSecret(j, s)'
  <2>1. /\ j \notin spoilt /\ Leads(j)
        /\ \A s \in Secrets : <<s, j>> \in promised => AliasOf(j) # {} /\ OneSecret(j, s)
    BY <1>2 DEF CacheInv, Clean
  <2>2. CASE j # k
    <3>1. AliasOf(j)' = AliasOf(j)
      BY <1>2, <1>3, <2>2 DEF AliasOf
    <3> QED BY <1>2, <2>1, <2>2, <3>1 DEF Leads, OneSecret
  <2>3. CASE j = k
    <3>1. AliasOf(j)' = AliasOf(j) \cup {x}
      BY <1>2, <1>3, <2>3 DEF AliasOf
    <3>2. Leads(j)'
      BY <1>1, <1>2, <1>3, <2>1, <2>3, <3>1 DEF Leads
    <3>3. \A y \in AliasOf(j) : y.frame.secret = secret[h]
      BY <1>2, <2>1, <2>3
    <3>4. \A y \in AliasOf(j)' : y.frame.secret = secret[h]
      BY <1>1, <1>3, <3>1, <3>3
    <3>5. ASSUME NEW s \in Secrets, <<s, j>> \in promised' PROVE s = secret[h]
      <4>1. CASE <<s, j>> \in promised
        <5>1. AliasOf(j) # {} /\ OneSecret(j, s)
          BY <2>1, <4>1
        <5> QED BY <3>3, <5>1 DEF OneSecret
      <4>2. CASE <<s, j>> \notin promised
        BY <1>2, <3>5, <4>2
      <4> QED BY <4>1, <4>2
    <3>6. ASSUME NEW s \in Secrets, <<s, j>> \in promised'
          PROVE  AliasOf(j)' # {} /\ OneSecret(j, s)'
      BY <3>1, <3>4, <3>5, <3>6 DEF OneSecret
    <3> QED BY <3>2, <3>6
  <2> QED BY <2>2, <2>3
<1>11. Clean'
  BY <1>10 DEF Clean
<1> QED BY <1>4, <1>6, <1>7, <1>8, <1>9, <1>11 DEF CacheInv

LEMMA LoadAliasKeeps ==
    ASSUME CacheInv, NEW h \in Hosts, NEW k \in Keys, LoadAlias(h, k)
    PROVE  CacheInv'
<1> DEFINE due == IF <<secret[h], k>> \in promised THEN "yes" ELSE "no"
<1>1. /\ CacheTypes /\ due \in {"no", "yes"} /\ secret[h] \in Secrets
      /\ UNCHANGED <<frames, aliases, secret, made, promised, spoilt>>
  BY DEF CacheInv, CacheTypes, LoadAlias
<1>2. OwnFrames' /\ Clean'
  BY <1>1 DEF CacheInv, OwnFrames, Clean, Leads, OneSecret, AliasOf
<1>3. CASE AliasOf(k) = {} /\ Loads(h, k, Missing, due) /\ UNCHANGED access
  <2> DEFINE r == [key |-> k, artifact |-> Missing, due |-> due]
  <2>1. r \in Results1 /\ r.key = k /\ r.artifact = Missing /\ r.due = due
    BY <1>1 DEF Results1
  <2>2. loaded' = [loaded EXCEPT ![h] = r]
    BY <1>3 DEF Loads
  <2>3. due = "yes" => k \in spoilt
    BY <1>1, <1>3 DEF CacheInv, Clean
  <2> HIDE DEF r, due
  <2>4. \A g \in Hosts : loaded'[g] = IF g = h THEN r ELSE loaded[g]
    BY <1>1, <2>2 DEF CacheTypes
  <2>5. CacheTypes'
    BY <1>1, <1>3, <2>1, <2>2 DEF CacheTypes
  <2>6. Carries' /\ Found'
    BY <1>1, <1>3 DEF CacheInv, Carries, Found, Verifies
  <2>7. OnlyOwnArtifacts'
    BY <1>1, <2>1, <2>4 DEF CacheInv, OnlyOwnArtifacts, Tagged
  <2>8. StoredLoads'
    BY <1>1, <2>1, <2>3, <2>4 DEF CacheInv, StoredLoads
  <2> QED BY <1>2, <2>5, <2>6, <2>7, <2>8 DEF CacheInv
<1>4. ASSUME NEW x \in AliasOf(k),
             access' = [access EXCEPT ![h] = [stage |-> "load_frame", key |-> k,
                                              frame |-> x.frame, due |-> due]],
             loaded' = [loaded EXCEPT ![h] = Missing]
      PROVE  CacheInv'
  <2> DEFINE c == [stage |-> "load_frame", key |-> k, frame |-> x.frame, due |-> due]
  <2>1. x \in Aliases /\ x.frame \in Frames
    BY <1>1 DEF CacheTypes, AliasOf, Aliases
  <2>2. /\ c \in Accesses /\ c.stage = "load_frame" /\ c.key = k /\ c.frame = x.frame
        /\ c.due = due
    BY <1>1, <2>1 DEF Accesses
  <2>3. access' = [access EXCEPT ![h] = c]
    BY <1>4
  <2>4. k \notin spoilt => x.frame \in frames /\ x.frame.key = k
    BY DEF CacheInv, Clean, Leads
  <2>5. due = "yes" /\ k \notin spoilt => x.frame.secret = secret[h]
    BY <1>1 DEF CacheInv, Clean, OneSecret
  <2> HIDE DEF c, due
  <2>6. \A g \in Hosts : access'[g] = IF g = h THEN c ELSE access[g]
    BY <1>1, <2>3 DEF CacheTypes
  <2>7. CacheTypes'
    BY <1>1, <1>4, <2>2, <2>3 DEF CacheTypes
  <2>8. Carries'
    BY <1>1, <2>1, <2>2, <2>6 DEF CacheInv, Carries
  <2>9. Found'
    BY <1>1, <2>2, <2>4, <2>5, <2>6 DEF CacheInv, Found, Verifies
  <2>10. \A g \in Hosts : loaded'[g] = IF g = h THEN Missing ELSE loaded[g]
    BY <1>1, <1>4 DEF CacheTypes
  <2>11. OnlyOwnArtifacts' /\ StoredLoads'
    BY <1>1, <2>10 DEF CacheInv, OnlyOwnArtifacts, StoredLoads, Tagged
  <2> QED BY <1>2, <2>7, <2>8, <2>9, <2>11 DEF CacheInv
<1> QED BY <1>3, <1>4 DEF LoadAlias

LEMMA LoadFrameKeeps ==
    ASSUME CacheInv, NEW h \in Hosts, LoadFrame(h)
    PROVE  CacheInv'
<1> DEFINE k == access[h].key
           f == access[h].frame
           good == f \in frames /\ Verifies(h, k, f)
           a == IF good THEN f.artifact ELSE Missing
           r == [key |-> k, artifact |-> a, due |-> access[h].due]
<1>1. /\ CacheTypes /\ k \in Keys /\ f \in Frames /\ access[h].due \in {"no", "yes"}
      /\ UNCHANGED <<frames, aliases, secret, made, promised, spoilt>>
      /\ access' = [access EXCEPT ![h] = NoAccess]
  BY DEF CacheInv, CacheTypes, Carries, LoadFrame, Accesses
<1>2. access[h].due = "yes" /\ k \notin spoilt => good
  BY DEF CacheInv, Found, LoadFrame
<1>3. good => Tagged(h, k, f.artifact) \in made /\ f.artifact \in Artifacts
  <2>1. good => f.key = k /\ f \in made
    BY DEF CacheInv, OwnFrames, Verifies
  <2> QED BY <1>1, <2>1, FrameIsTagged
<1>4. /\ r \in Results1 /\ r.key = k /\ r.artifact = a /\ r.due = access[h].due
  BY <1>1, <1>3 DEF Results1
<1>5. loaded' = [loaded EXCEPT ![h] = r]
  BY DEF LoadFrame, Loads
<1>6. (a # Missing => good /\ a = f.artifact) /\ (good => a # Missing)
  BY <1>3, MissingIsNothing
<1> HIDE DEF r, a, good, k, f
<1>7. \A g \in Hosts : loaded'[g] = IF g = h THEN r ELSE loaded[g]
  BY <1>1, <1>5 DEF CacheTypes
<1>8. \A g \in Hosts : access'[g] = IF g = h THEN NoAccess ELSE access[g]
  BY <1>1 DEF CacheTypes
<1>9. CacheTypes'
  BY <1>1, <1>4, <1>5, NoAccessType DEF CacheTypes
<1>10. Carries' /\ Found'
  BY <1>1, <1>8, NoAccessType DEF CacheInv, Carries, Found, Verifies
<1>11. OwnFrames' /\ Clean'
  BY <1>1 DEF CacheInv, OwnFrames, Clean, Leads, OneSecret, AliasOf
<1>12. OnlyOwnArtifacts'
  BY <1>1, <1>3, <1>4, <1>6, <1>7 DEF CacheInv, OnlyOwnArtifacts, Tagged
<1>13. StoredLoads'
  BY <1>1, <1>2, <1>4, <1>6, <1>7 DEF CacheInv, StoredLoads
<1> QED BY <1>9, <1>10, <1>11, <1>12, <1>13 DEF CacheInv

LEMMA HostRestartsKeeps ==
    ASSUME CacheInv, NEW h \in Hosts, HostRestarts(h)
    PROVE  CacheInv'
<1>1. /\ CacheTypes /\ UNCHANGED <<frames, aliases, made, promised, spoilt>>
      /\ access' = [access EXCEPT ![h] = NoAccess]
      /\ loaded' = [loaded EXCEPT ![h] = Missing]
  BY DEF CacheInv, HostRestarts
<1>2. secret' \in [Hosts -> Secrets] /\ \A g \in Hosts : g # h => secret'[g] = secret[g]
  BY <1>1 DEF HostRestarts, CacheTypes
<1>3. \A g \in Hosts : access'[g] = IF g = h THEN NoAccess ELSE access[g]
  BY <1>1 DEF CacheTypes
<1>4. \A g \in Hosts : loaded'[g] = IF g = h THEN Missing ELSE loaded[g]
  BY <1>1 DEF CacheTypes
<1>5. CacheTypes'
  BY <1>1, <1>2, NoAccessType DEF CacheTypes
<1>6. Carries' /\ Found'
  BY <1>1, <1>2, <1>3, NoAccessType DEF CacheInv, Carries, Found, Verifies
<1>7. OwnFrames' /\ Clean'
  BY <1>1 DEF CacheInv, OwnFrames, Clean, Leads, OneSecret, AliasOf
<1>8. OnlyOwnArtifacts' /\ StoredLoads'
  BY <1>1, <1>2, <1>4 DEF CacheInv, OnlyOwnArtifacts, StoredLoads, Tagged
<1> QED BY <1>5, <1>6, <1>7, <1>8 DEF CacheInv

(***************************************************************************)
(* Others may take away frames and aliases, or add aliases, of the keys    *)
(* that they spoil.                                                        *)
(***************************************************************************)
LEMMA OthersKeep ==
    ASSUME CacheInv, NEW k, frames' \subseteq frames, aliases' \subseteq Aliases,
           spoilt' = spoilt \cup {k},
           \A f \in frames : f.key # k => f \in frames',
           \A x \in Aliases : x.key # k => (x \in aliases' <=> x \in aliases),
           UNCHANGED <<secret, access, loaded, made, promised>>
    PROVE  CacheInv'
<1>1. CacheTypes'
  BY DEF CacheInv, CacheTypes
<1>2. Carries' /\ OwnFrames' /\ OnlyOwnArtifacts' /\ StoredLoads'
  BY DEF CacheInv, Carries, OwnFrames, OnlyOwnArtifacts, StoredLoads, Tagged
<1>3. \A j \in Keys : j # k => AliasOf(j)' = AliasOf(j)
  BY DEF AliasOf, CacheInv, CacheTypes
<1>4. \A j \in Keys \ spoilt' : Leads(j)' /\ AliasOf(j)' = AliasOf(j) /\ j \notin spoilt
  BY <1>3 DEF CacheInv, Clean, Leads
<1>5. Clean'
  BY <1>4 DEF CacheInv, Clean, OneSecret
<1>6. \A h \in Hosts : access[h].stage \in {"store_alias", "load_frame"}
                      /\ access[h].key \notin spoilt' => access[h].frame.key = access[h].key
  BY DEF CacheInv, Found, Carries
<1>7. Found'
  BY <1>6 DEF CacheInv, Found, Verifies
<1> QED BY <1>1, <1>2, <1>5, <1>7 DEF CacheInv

LEMMA CacheNextKeeps == CacheInv /\ [CacheNext]_cacheVars => CacheInv'
<1>1. ASSUME CacheInv, UNCHANGED cacheVars PROVE CacheInv'
  BY <1>1 DEF cacheVars, CacheInv, CacheTypes, Carries, OwnFrames, OnlyOwnArtifacts, Clean,
     Leads, OneSecret, AliasOf, Found, Verifies, StoredLoads, Tagged
<1>2. ASSUME CacheInv, NEW f \in frames, DeleteFrame(f) PROVE CacheInv'
  <2>1. aliases' \subseteq Aliases
    BY <1>2 DEF DeleteFrame, CacheInv, CacheTypes
  <2> QED BY <1>2, <2>1, OthersKeep DEF DeleteFrame
<1>3. ASSUME CacheInv, NEW f \in frames, NEW k \in Keys, AddAlias(k, f) PROVE CacheInv'
  <2> DEFINE x == [key |-> k, frame |-> f]
  <2>1. x \in Aliases /\ x.key = k
    BY <1>3 DEF CacheInv, CacheTypes, Aliases
  <2>2. aliases' = aliases \cup {x}
    BY <1>3 DEF AddAlias
  <2> HIDE DEF x
  <2>3. aliases' \subseteq Aliases
    BY <1>3, <2>1, <2>2 DEF CacheInv, CacheTypes
  <2> QED BY <1>3, <2>1, <2>2, <2>3, OthersKeep DEF AddAlias
<1>4. ASSUME CacheInv, NEW x \in aliases, DeleteAlias(x) PROVE CacheInv'
  <2>1. aliases' \subseteq Aliases
    BY <1>4 DEF DeleteAlias, CacheInv, CacheTypes
  <2> QED BY <1>4, <2>1, OthersKeep DEF DeleteAlias
<1> QED BY <1>1, <1>2, <1>3, <1>4, StoreKeeps, StoreFrameKeeps, StoreAliasKeeps,
           LoadAliasKeeps, LoadFrameKeeps, HostRestartsKeeps DEF CacheNext

LEMMA CacheInvariant == CacheSpec => []CacheInv
BY CacheInitInv, CacheNextKeeps, PTL DEF CacheSpec

\* A host loads only what a host with its own secret stored under that key, whatever
\* frames and aliases others put into the backend, or take from it.
THEOREM ArtifactsAreOwn == CacheSpec => []OnlyOwnArtifacts
<1>1. CacheInv => OnlyOwnArtifacts
  BY DEF CacheInv
<1> QED BY <1>1, CacheInvariant, PTL

\* What was stored is found as long as nobody spoils the key, however many hosts store it
\* at a time and wherever they die.
THEOREM StoresAreFound == CacheSpec => []StoredLoads
<1>1. CacheInv => StoredLoads
  BY DEF CacheInv
<1> QED BY <1>1, CacheInvariant, PTL

----------------------------------------------------------------------------

FetchCalls == [stage : {"idle", "network", "read", "open", "write", "rename"},
               expected : Blobs \cup {Absent}, actual : Blobs \cup {Absent},
               file : Inodes \cup {Absent}, next : 1 .. Parts + 1, seen : SUBSET Whole]

FetchTypes ==
    /\ entry \in [Blobs -> Inodes \cup {Absent}] /\ temp \in [Blobs -> Inodes \cup {Absent}]
    /\ parts \in [Inodes -> SUBSET Whole]
    /\ fetching \in [Fetchers -> FetchCalls]
    /\ fetched \in [Fetchers -> Results \cup {Absent}]
    /\ shared \subseteq Blobs

Reads(c) == c.stage = "read"
Writes(c) == c.stage \in {"write", "rename"}

(***************************************************************************)
(* What is known of one call: a digest that was asked for is the one that  *)
(* is read or written; outside of reading and writing no file is open.     *)
(***************************************************************************)
GoodCall(c) ==
    /\ Reads(c) => c.expected \in Blobs /\ c.file \in Inodes /\ c.next <= Parts
    /\ Writes(c) => c.actual \in Blobs /\ c.file \in Inodes
    /\ c.stage = "write" => c.next <= Parts
    /\ c.stage = "open" => c.actual \in Blobs
    /\ c.stage \in {"network", "open"} => c.next = 1
    /\ Writes(c) \/ c.stage = "open" => c.expected \in {Absent, c.actual}
    /\ ~Reads(c) /\ ~Writes(c) => c.file = Absent
GoodCalls == \A p \in Fetchers : GoodCall(fetching[p])

\* No file is of two digests, and an entry is no temp file.
NamesApart == \A d, e \in Blobs :
    /\ entry[d] # Absent => entry[d] # temp[e]
    /\ entry[d] # Absent /\ entry[d] = entry[e] => d = e
    /\ temp[d] # Absent /\ temp[d] = temp[e] => d = e
WritersApart == \A p \in Fetchers : Writes(fetching[p]) =>
    /\ \A e \in Blobs : fetching[p].file \in {entry[e], temp[e]} => e = fetching[p].actual
    /\ \A q \in Fetchers : Writes(fetching[q]) /\ fetching[q].file = fetching[p].file
                              => fetching[q].actual = fetching[p].actual
ReadersApart == \A p \in Fetchers : Reads(fetching[p]) =>
    /\ \A e \in Blobs : fetching[p].file # temp[e]
    /\ \A e \in Blobs : fetching[p].file = entry[e] => e = fetching[p].expected
    /\ \A q \in Fetchers : Writes(fetching[q]) /\ fetching[q].file = fetching[p].file
                              => fetching[q].actual = fetching[p].expected

\* As long as the temp file of a digest had one writer at a time, that writer has it.
LoneWriters == \A p \in Fetchers : Writes(fetching[p]) /\ fetching[p].actual \notin shared =>
    /\ fetching[p].file = temp[fetching[p].actual]
    /\ \A q \in Fetchers : Writes(fetching[q]) /\ fetching[q].actual = fetching[p].actual => q = p
    /\ parts[fetching[p].file] = 1 .. fetching[p].next - 1
    /\ fetching[p].stage = "rename" => parts[fetching[p].file] = Whole

LoneReaders == \A p \in Fetchers : Reads(fetching[p]) /\ fetching[p].expected \notin shared =>
    /\ parts[fetching[p].file] = Whole
    /\ fetching[p].seen = 1 .. fetching[p].next - 1

FetchInv ==
    /\ FetchTypes /\ GoodCalls
    /\ NamesApart /\ WritersApart /\ ReadersApart
    /\ LoneWriters /\ LoneReaders /\ OnlyOverlapsTear /\ PinnedBytesMatch

LEMMA NoFetchType == NoFetch \in FetchCalls /\ NoFetch.stage = "idle" /\ GoodCall(NoFetch)
BY FetcherAssumption DEF NoFetch, FetchCalls, GoodCall, Reads, Writes, Whole

LEMMA FetchInitInv == FetchInit => FetchInv
<1> SUFFICES ASSUME FetchInit PROVE FetchInv
  OBVIOUS
<1>1. FetchTypes
  BY NoFetchType DEF FetchInit, FetchTypes
<1>2. \A p \in Fetchers : GoodCall(fetching[p]) /\ ~Reads(fetching[p]) /\ ~Writes(fetching[p])
  BY NoFetchType DEF FetchInit, Reads, Writes
<1>3. NamesApart /\ OnlyOverlapsTear /\ PinnedBytesMatch
  BY DEF FetchInit, NamesApart, OnlyOverlapsTear, PinnedBytesMatch
<1> QED BY <1>1, <1>2, <1>3
        DEF FetchInv, GoodCalls, WritersApart, ReadersApart, LoneWriters, LoneReaders

(***************************************************************************)
(* A result that a call ends with.                                         *)
(***************************************************************************)
GoodResult(r) ==
    /\ r \in Results \cup {Absent}
    /\ r # Absent /\ r.expected # Absent =>
         /\ r.of = r.expected
         /\ r.of \notin shared => r.bytes = Whole

LEMMA GivenKeeps ==
    ASSUME FetchInv, NEW p \in Fetchers, NEW r, GoodResult(r), shared \subseteq shared',
           fetched' = [fetched EXCEPT ![p] = r]
    PROVE  fetched' \in [Fetchers -> Results \cup {Absent}] /\ PinnedBytesMatch'
<1>1. fetched \in [Fetchers -> Results \cup {Absent}]
  BY DEF FetchInv, FetchTypes
<1>2. \A q \in Fetchers : fetched'[q] = IF q = p THEN r ELSE fetched[q]
  BY <1>1
<1>3. PinnedBytesMatch'
  BY <1>2 DEF FetchInv, PinnedBytesMatch, GoodResult
<1> QED BY <1>1, <1>3 DEF GoodResult

\* A call that comes to a stage without a file, with the files as they were.
LEMMA AsideKeeps ==
    ASSUME FetchInv, NEW p \in Fetchers, NEW c \in FetchCalls, GoodCall(c), ~Reads(c), ~Writes(c),
           fetching' = [fetching EXCEPT ![p] = c], Files,
           fetched' \in [Fetchers -> Results \cup {Absent}], PinnedBytesMatch'
    PROVE  FetchInv'
<1>1. /\ FetchTypes /\ GoodCalls /\ NamesApart /\ WritersApart /\ ReadersApart
      /\ LoneWriters /\ LoneReaders /\ OnlyOverlapsTear
      /\ UNCHANGED <<entry, temp, parts, shared>>
  BY DEF FetchInv, Files
<1>2. \A q \in Fetchers : fetching'[q] = IF q = p THEN c ELSE fetching[q]
  BY <1>1 DEF FetchTypes
<1>3. FetchTypes'
  BY <1>1 DEF FetchTypes
<1>4. GoodCalls'
  BY <1>1, <1>2 DEF GoodCalls
<1>5. NamesApart' /\ OnlyOverlapsTear'
  BY <1>1 DEF NamesApart, OnlyOverlapsTear
<1>6. WritersApart'
  BY <1>1, <1>2 DEF WritersApart
<1>7. ReadersApart'
  BY <1>1, <1>2 DEF ReadersApart
<1>8. LoneWriters'
  BY <1>1, <1>2 DEF LoneWriters
<1>9. LoneReaders'
  BY <1>1, <1>2 DEF LoneReaders
<1> QED BY <1>3, <1>4, <1>5, <1>6, <1>7, <1>8, <1>9 DEF FetchInv

LEMMA EndsKeeps ==
    ASSUME FetchInv, NEW p \in Fetchers, NEW r, GoodResult(r), Ends(p, r), Files
    PROVE  FetchInv'
<1>1. shared \subseteq shared'
  BY DEF Files
<1>2. fetched' \in [Fetchers -> Results \cup {Absent}] /\ PinnedBytesMatch'
  BY <1>1, GivenKeeps DEF Ends
<1> QED BY <1>2, NoFetchType, AsideKeeps DEF Ends, Reads, Writes

LEMMA AbsentIsGood == GoodResult(Absent)
BY DEF GoodResult
\* A call that comes to read a file, which is as a reader may find it.
ReaderFits(c) ==
    /\ \A e \in Blobs : c.file # temp[e] /\ (c.file = entry[e] => e = c.expected)
    /\ \A q \in Fetchers : Writes(fetching[q]) /\ fetching[q].file = c.file
                              => fetching[q].actual = c.expected
    /\ c.expected \notin shared => parts[c.file] = Whole /\ c.seen = 1 .. c.next - 1

LEMMA ReadingKeeps ==
    ASSUME FetchInv, NEW p \in Fetchers, NEW c \in FetchCalls, GoodCall(c), Reads(c), ReaderFits(c),
           fetching' = [fetching EXCEPT ![p] = c], Files,
           fetched' \in [Fetchers -> Results \cup {Absent}], PinnedBytesMatch'
    PROVE  FetchInv'
<1>1. /\ FetchTypes /\ GoodCalls /\ NamesApart /\ WritersApart /\ ReadersApart
      /\ LoneWriters /\ LoneReaders /\ OnlyOverlapsTear
      /\ UNCHANGED <<entry, temp, parts, shared>>
  BY DEF FetchInv, Files
<1>2. \A q \in Fetchers : fetching'[q] = IF q = p THEN c ELSE fetching[q]
  BY <1>1 DEF FetchTypes
<1>3. FetchTypes'
  BY <1>1 DEF FetchTypes
<1>4. GoodCalls'
  BY <1>1, <1>2 DEF GoodCalls
<1>5. NamesApart' /\ OnlyOverlapsTear'
  BY <1>1 DEF NamesApart, OnlyOverlapsTear
<1>6. ~Writes(c)
  BY DEF Reads, Writes
<1>7. WritersApart'
  BY <1>1, <1>2, <1>6 DEF WritersApart
<1>8. ReadersApart'
  BY <1>1, <1>2, <1>6 DEF ReadersApart, ReaderFits
<1>9. LoneWriters'
  BY <1>1, <1>2, <1>6 DEF LoneWriters
<1>10. LoneReaders'
  BY <1>1, <1>2 DEF LoneReaders, ReaderFits
<1> QED BY <1>3, <1>4, <1>5, <1>7, <1>8, <1>9, <1>10 DEF FetchInv

FetchAt(k, d) ==
    [NoFetch EXCEPT !.stage = IF k = Absent THEN "network" ELSE "read", !.expected = d, !.file = k]

LEMMA FetchesAt ==
    ASSUME NEW k \in Inodes \cup {Absent}, NEW d \in Blobs \cup {Absent}, k # Absent => d \in Blobs
    PROVE  /\ FetchAt(k, d) \in FetchCalls /\ GoodCall(FetchAt(k, d)) /\ ~Writes(FetchAt(k, d))
           /\ (Reads(FetchAt(k, d)) <=> k # Absent)
           /\ FetchAt(k, d).file = k /\ FetchAt(k, d).expected = d
           /\ FetchAt(k, d).next = 1 /\ FetchAt(k, d).seen = {}
<1> DEFINE c == FetchAt(k, d)
<1>1. Parts \in Nat /\ 1 <= Parts /\ 1 \in 1 .. Parts + 1
  BY FetcherAssumption
<1>2. c \in FetchCalls
  BY <1>1 DEF FetchAt, NoFetch, FetchCalls
<1>3. /\ c.file = k /\ c.expected = d /\ c.next = 1 /\ c.seen = {} /\ c.actual = Absent
      /\ (k = Absent => c.stage = "network") /\ (k # Absent => c.stage = "read")
  BY DEF FetchAt, NoFetch
<1> HIDE DEF c
<1>4. (Reads(c) <=> k # Absent) /\ ~Writes(c) /\ c.stage # "write" /\ c.stage # "open"
  BY <1>3 DEF Reads, Writes
<1>5. GoodCall(c)
  BY <1>1, <1>3, <1>4 DEF GoodCall
<1> QED BY <1>2, <1>3, <1>4, <1>5 DEF c

LEMMA FetchKeeps ==
    ASSUME FetchInv, NEW p \in Fetchers, NEW d \in Blobs \cup {Absent}, Fetch(p, d)
    PROVE  FetchInv'
<1> DEFINE hit == IF d = Absent THEN Absent ELSE entry[d]
           c == FetchAt(hit, d)
<1>1. FetchTypes /\ NamesApart /\ WritersApart /\ OnlyOverlapsTear
  BY DEF FetchInv
<1>2. hit \in Inodes \cup {Absent}
  BY <1>1 DEF FetchTypes
<1>8. fetching' = [fetching EXCEPT ![p] = c] /\ Files /\ fetched' = [fetched EXCEPT ![p] = Absent]
  BY DEF Fetch, FetchAt
<1> HIDE DEF hit
<1>10. hit # Absent => d \in Blobs /\ hit = entry[d]
  BY DEF hit
<1>3. /\ c \in FetchCalls /\ GoodCall(c) /\ ~Writes(c) /\ (Reads(c) <=> hit # Absent)
      /\ c.file = hit /\ c.expected = d /\ c.next = 1 /\ c.seen = {}
  BY <1>2, <1>10, FetchesAt
<1> HIDE DEF c
<1>5. fetched' \in [Fetchers -> Results \cup {Absent}] /\ PinnedBytesMatch'
  BY <1>8, GivenKeeps, AbsentIsGood DEF Files
<1>6. CASE hit = Absent
  BY <1>3, <1>5, <1>6, <1>8, AsideKeeps
<1>7. CASE hit # Absent
  <2>1. d \in Blobs /\ hit = entry[d] /\ hit \in Inodes
    BY <1>2, <1>7, <1>10
  <2>3. c.file = entry[d] /\ c.expected = d /\ c.seen = {} /\ c.next = 1
    BY <1>3, <2>1
  <2>4. \A e \in Blobs : c.file # temp[e] /\ (c.file = entry[e] => e = c.expected)
    BY <1>1, <1>7, <2>1, <2>3 DEF NamesApart
  <2>5. \A q \in Fetchers : Writes(fetching[q]) /\ fetching[q].file = c.file
                              => fetching[q].actual = c.expected
    BY <1>1, <2>1, <2>3 DEF WritersApart
  <2>6. c.expected \notin shared => parts[c.file] = Whole /\ c.seen = 1 .. c.next - 1
    BY <1>1, <1>7, <2>1, <2>3 DEF OnlyOverlapsTear
  <2>7. ReaderFits(c)
    BY <2>4, <2>5, <2>6 DEF ReaderFits
  <2> QED BY <2>7, <1>3, <1>5, <1>7, <1>8, ReadingKeeps
<1> QED BY <1>6, <1>7

ReadOnCall(b, s) == [b EXCEPT !.next = @ + 1, !.seen = s]

LEMMA ReadOn ==
    ASSUME NEW b \in FetchCalls, Reads(b), GoodCall(b), b.next # Parts, NEW s \in SUBSET Whole
    PROVE  /\ ReadOnCall(b, s) \in FetchCalls /\ Reads(ReadOnCall(b, s)) /\ GoodCall(ReadOnCall(b, s))
           /\ ReadOnCall(b, s).file = b.file /\ ReadOnCall(b, s).expected = b.expected
           /\ ReadOnCall(b, s).next - 1 = b.next /\ ReadOnCall(b, s).seen = s
<1> DEFINE c == ReadOnCall(b, s)
<1>1. /\ b.expected \in Blobs /\ b.file \in Inodes /\ b.next \in 1 .. Parts + 1 /\ b.next <= Parts
      /\ b.actual \in Blobs \cup {Absent} /\ b.stage = "read"
  BY DEF GoodCall, FetchCalls, Reads
<1>2. b.next \in Nat /\ Parts \in Nat /\ b.next + 1 <= Parts /\ b.next + 1 \in 1 .. Parts + 1
  BY <1>1, FetcherAssumption
<1>3. c \in FetchCalls
  BY <1>2 DEF FetchCalls, ReadOnCall
<1>4. /\ c.stage = "read" /\ c.file = b.file /\ c.expected = b.expected
      /\ c.next = b.next + 1 /\ c.seen = s
  BY <1>1 DEF FetchCalls, ReadOnCall
<1> HIDE DEF c
<1>5. c.next - 1 = b.next
  BY <1>2, <1>4
<1>6. Reads(c) /\ GoodCall(c)
  BY <1>1, <1>2, <1>4 DEF GoodCall, Reads, Writes
<1> QED BY <1>3, <1>4, <1>5, <1>6 DEF c

LEMMA ReadFromCacheKeeps ==
    ASSUME FetchInv, NEW p \in Fetchers, ReadFromCache(p)
    PROVE  FetchInv'
<1> DEFINE b == fetching[p]
           now == b.seen \cup (parts[b.file] \cap {b.next})
           c == ReadOnCall(b, now)
<1>1. FetchTypes /\ GoodCalls /\ ReadersApart /\ LoneReaders /\ PinnedBytesMatch
  BY DEF FetchInv
<1>2. b \in FetchCalls /\ Reads(b) /\ GoodCall(b) /\ Files
  BY <1>1 DEF ReadFromCache, Is, FetchTypes, GoodCalls, Reads
<1>3. /\ b.expected \in Blobs /\ b.file \in Inodes /\ b.next \in Nat \ {0} /\ b.next <= Parts
      /\ b.seen \subseteq Whole
  BY <1>2 DEF GoodCall, FetchCalls
<1>4. now \subseteq Whole
  BY <1>3, FetcherAssumption DEF Whole
<1>5. b.expected \notin shared => now = 1 .. b.next
  <2> SUFFICES ASSUME b.expected \notin shared PROVE now = 1 .. b.next
    OBVIOUS
  <2>1. parts[b.file] = Whole /\ b.seen = 1 .. b.next - 1
    BY <1>1, <1>2 DEF LoneReaders
  <2> QED BY <2>1, <1>3, FetcherAssumption DEF Whole
<1>6. CASE b.next = Parts
  <2> DEFINE r == [expected |-> b.expected, of |-> b.expected, bytes |-> now]
  <2>1. Ends(p, r)
    BY <1>6 DEF ReadFromCache, Gives
  <2>2. r \in Results
    BY <1>3, <1>4 DEF Results
  <2>3. r.of \notin shared => r.bytes = Whole
    BY <1>5, <1>6 DEF Whole
  <2>4. GoodResult(r)
    BY <2>2, <2>3 DEF GoodResult
  <2> HIDE DEF r
  <2> QED BY <2>1, <2>4, <1>2, EndsKeeps
<1>7. CASE b.next # Parts
  <2>1. fetching' = [fetching EXCEPT ![p] = c] /\ UNCHANGED fetched
    BY <1>7 DEF ReadFromCache, ReadOnCall
  <2> HIDE DEF b, now
  <2>2. now \in SUBSET Whole
    BY <1>4
  <2>3. /\ c \in FetchCalls /\ Reads(c) /\ GoodCall(c)
        /\ c.file = b.file /\ c.expected = b.expected /\ c.next - 1 = b.next /\ c.seen = now
    BY <2>2, <1>2, <1>7, ReadOn
  <2> HIDE DEF c
  <2>6. /\ \A e \in Blobs : b.file # temp[e] /\ (b.file = entry[e] => e = b.expected)
        /\ \A q \in Fetchers : Writes(fetching[q]) /\ fetching[q].file = b.file
                              => fetching[q].actual = b.expected
    BY <1>1, <1>2 DEF ReadersApart, b
  <2>7. b.expected \notin shared => parts[b.file] = Whole
    BY <1>1, <1>2 DEF LoneReaders, b
  <2>8. ReaderFits(c)
    BY <2>3, <2>6, <2>7, <1>5 DEF ReaderFits
  <2>9. fetched' \in [Fetchers -> Results \cup {Absent}] /\ PinnedBytesMatch'
    BY <2>1, <1>1, <1>2 DEF Files, FetchTypes, PinnedBytesMatch
  <2> QED BY <2>1, <2>3, <2>8, <2>9, <1>2, ReadingKeeps
<1> QED BY <1>6, <1>7
OpenCall(b, d) == [b EXCEPT !.stage = "open", !.actual = d]

LEMMA FetchRawKeeps ==
    ASSUME FetchInv, NEW p \in Fetchers, NEW d \in Blobs, FetchRaw(p, d)
    PROVE  FetchInv'
<1> DEFINE b == fetching[p]
           c == OpenCall(b, d)
<1>1. FetchTypes /\ GoodCalls /\ PinnedBytesMatch
  BY DEF FetchInv
<1>2. b \in FetchCalls /\ b.stage = "network" /\ GoodCall(b) /\ Files
  BY <1>1 DEF FetchRaw, Is, FetchTypes, GoodCalls
<1>3. b.file = Absent
  BY <1>2 DEF GoodCall, Reads, Writes
<1>6. b.next = 1
  BY <1>2 DEF GoodCall
<1>4. CASE ~Matches(p, d)
  BY <1>2, <1>4, EndsKeeps, AbsentIsGood DEF FetchRaw
<1>5. CASE Matches(p, d)
  <2>1. fetching' = [fetching EXCEPT ![p] = c] /\ UNCHANGED fetched
    BY <1>5 DEF FetchRaw, OpenCall
  <2>2. c \in FetchCalls
    BY <1>2 DEF FetchCalls, OpenCall
  <2>3. /\ c.stage = "open" /\ c.actual = d /\ c.expected = b.expected /\ c.file = Absent
        /\ c.next = 1
    BY <1>2, <1>3, <1>6 DEF FetchCalls, OpenCall
  <2>4. b.expected \in {Absent, d}
    BY <1>5 DEF Matches
  <2> HIDE DEF c, b
  <2>5. GoodCall(c) /\ ~Reads(c) /\ ~Writes(c)
    BY <2>3, <2>4 DEF GoodCall, Reads, Writes
  <2>6. fetched' \in [Fetchers -> Results \cup {Absent}] /\ PinnedBytesMatch'
    BY <2>1, <1>1, <1>2 DEF Files, FetchTypes, PinnedBytesMatch
  <2> QED BY <2>1, <2>2, <2>5, <2>6, <1>2, AsideKeeps
<1> QED BY <1>4, <1>5

FetchedIn(b) == [expected |-> b.expected, of |-> b.actual, bytes |-> Whole]

\* What was fetched is returned whole, and matched when it was fetched.
LEMMA FetchedIsGood ==
    ASSUME FetchInv, NEW p \in Fetchers, Writes(fetching[p]) \/ fetching[p].stage = "open"
    PROVE  GoodResult(FetchedIn(fetching[p]))
<1> DEFINE b == fetching[p]
<1>1. b \in FetchCalls /\ GoodCall(b)
  BY DEF FetchInv, FetchTypes, GoodCalls
<1>2. b.actual \in Blobs /\ b.expected \in {Absent, b.actual}
  BY <1>1 DEF GoodCall
<1> QED BY <1>2 DEF GoodResult, FetchedIn, Results

LEMMA CacheFailsKeeps == ASSUME FetchInv, NEW p \in Fetchers, CacheFails(p) PROVE FetchInv'
<1>1. GoodResult(FetchedIn(fetching[p]))
  BY FetchedIsGood DEF CacheFails, Is, Writes
<1>2. Ends(p, FetchedIn(fetching[p])) /\ Files
  BY DEF CacheFails, Gives, FetchedIn
<1> QED BY <1>1, <1>2, EndsKeeps

LEMMA GivesUpKeeps ==
    ASSUME FetchInv, NEW p \in Fetchers, FetchFails(p) \/ FetcherDies(p)
    PROVE  FetchInv'
BY EndsKeeps, AbsentIsGood DEF FetchFails, FetcherDies

(***************************************************************************)
(* The steps that change files.                                            *)
(***************************************************************************)
WriteCall(b, f) == [b EXCEPT !.stage = "write", !.file = f]

LEMMA OpenTempKeeps == ASSUME FetchInv, NEW p \in Fetchers, OpenTemp(p) PROVE FetchInv'
<1> DEFINE b == fetching[p]
           d == b.actual
           f == IF temp[d] # Absent THEN temp[d] ELSE CHOOSE i \in FreeInodes : TRUE
           c == WriteCall(b, f)
<1>1. /\ FetchTypes /\ GoodCalls /\ NamesApart /\ WritersApart /\ ReadersApart
      /\ LoneWriters /\ LoneReaders /\ OnlyOverlapsTear /\ PinnedBytesMatch
  BY DEF FetchInv
<1>2. b \in FetchCalls /\ b.stage = "open" /\ GoodCall(b)
  BY <1>1 DEF OpenTemp, Is, FetchTypes, GoodCalls
<1>3. d \in Blobs /\ b.expected \in {Absent, d} /\ b.next = 1
  BY <1>2 DEF GoodCall, FetchCalls
<1>4. /\ temp' = [temp EXCEPT ![d] = f]
      /\ parts' = [parts EXCEPT ![f] = {}]
      /\ fetching' = [fetching EXCEPT ![p] = c]
      /\ shared' = IF Writers(d) = {} THEN shared ELSE shared \cup {d}
      /\ entry' = entry /\ fetched' = fetched
  BY DEF OpenTemp, WriteCall
<1>5. f \in Inodes /\ (temp[d] # Absent => f = temp[d])
  <2>1. CASE temp[d] # Absent
    BY <1>1, <1>3, <2>1 DEF FetchTypes
  <2>2. CASE temp[d] = Absent
    BY <2>2, <1>2 DEF OpenTemp, FreeInodes
  <2> QED BY <2>1, <2>2
<1>6. temp[d] = Absent => f \in FreeInodes
  BY DEF OpenTemp
<1>7. /\ c \in FetchCalls /\ c.stage = "write" /\ c.actual = d /\ c.file = f
      /\ c.expected = b.expected /\ c.next = 1
  <2> HIDE DEF d, f
  <2> QED BY <1>2, <1>3, <1>5 DEF FetchCalls, WriteCall, d
<1> HIDE DEF f, c
<1>8. f # Absent /\ \A e \in Blobs : f # entry[e] /\ (f = temp[e] => e = d)
  BY <1>1, <1>3, <1>5, <1>6, FetcherAssumption DEF NamesApart, FreeInodes
<1>9. \A q \in Fetchers : Reads(fetching[q]) => fetching[q].file # f
  BY <1>1, <1>3, <1>5, <1>6 DEF ReadersApart, FreeInodes
<1>10. \A q \in Fetchers : Writes(fetching[q]) /\ fetching[q].file = f => fetching[q].actual = d
  BY <1>1, <1>3, <1>5, <1>6 DEF WritersApart, FreeInodes
<1>11. ~Reads(c) /\ Writes(c) /\ GoodCall(c)
  BY <1>3, <1>5, <1>7, FetcherAssumption DEF Reads, Writes, GoodCall
<1> HIDE DEF d, b
<1>12. /\ \A q \in Fetchers : fetching'[q] = IF q = p THEN c ELSE fetching[q]
       /\ \A e \in Blobs : temp'[e] = IF e = d THEN f ELSE temp[e]
       /\ \A i \in Inodes : parts'[i] = IF i = f THEN {} ELSE parts[i]
  BY <1>1, <1>4 DEF FetchTypes
<1>13. FetchTypes'
  <2>1. /\ entry \in [Blobs -> Inodes \cup {Absent}] /\ temp \in [Blobs -> Inodes \cup {Absent}]
        /\ parts \in [Inodes -> SUBSET Whole] /\ fetching \in [Fetchers -> FetchCalls]
        /\ fetched \in [Fetchers -> Results \cup {Absent}] /\ shared \subseteq Blobs
    BY <1>1 DEF FetchTypes
  <2>2. temp' \in [Blobs -> Inodes \cup {Absent}] /\ fetching' \in [Fetchers -> FetchCalls]
    BY <2>1, <1>4, <1>5, <1>7
  <2>3. parts' \in [Inodes -> SUBSET Whole]
    BY <2>1, <1>4
  <2>4. shared' \subseteq Blobs
    BY <2>1, <1>3, <1>4
  <2> QED BY <2>1, <2>2, <2>3, <2>4, <1>4 DEF FetchTypes
<1>14. GoodCalls'
  BY <1>1, <1>11, <1>12 DEF GoodCalls
<1>15. NamesApart'
  BY <1>1, <1>4, <1>8, <1>12 DEF NamesApart
<1>16. WritersApart'
  <2> SUFFICES ASSUME NEW q \in Fetchers, Writes(fetching'[q])
               PROVE  /\ \A e \in Blobs : fetching'[q].file \in {entry'[e], temp'[e]} => e = fetching'[q].actual
                      /\ \A r \in Fetchers : Writes(fetching'[r]) /\ fetching'[r].file = fetching'[q].file
                                            => fetching'[r].actual = fetching'[q].actual
    BY DEF WritersApart
  <2>1. CASE q = p
    BY <2>1, <1>4, <1>7, <1>8, <1>10, <1>12
  <2>2. CASE q # p
    BY <2>2, <1>1, <1>4, <1>7, <1>10, <1>12 DEF WritersApart
  <2> QED BY <2>1, <2>2
<1>17. ReadersApart'
  BY <1>1, <1>4, <1>7, <1>9, <1>11, <1>12 DEF ReadersApart
<1>18. LoneWriters'
  <2> SUFFICES ASSUME NEW q \in Fetchers, Writes(fetching'[q]), fetching'[q].actual \notin shared'
               PROVE  /\ fetching'[q].file = temp'[fetching'[q].actual]
                      /\ \A r \in Fetchers : Writes(fetching'[r]) /\ fetching'[r].actual = fetching'[q].actual => r = q
                      /\ parts'[fetching'[q].file] = 1 .. fetching'[q].next - 1
                      /\ fetching'[q].stage = "rename" => parts'[fetching'[q].file] = Whole
    BY DEF LoneWriters
  <2>1. \A r \in Fetchers : Writes(fetching[r]) /\ fetching[r].actual = d => d \in shared'
    BY <1>4 DEF Writers, Writes
  <2>2. shared \subseteq shared'
    BY <1>4
  <2>3. CASE q = p
    BY <2>1, <2>3, <1>3, <1>5, <1>7, <1>12
  <2>4. CASE q # p
    <3>1. /\ Writes(fetching[q]) /\ fetching'[q] = fetching[q] /\ fetching[q].actual \notin shared
          /\ fetching[q].actual # d /\ fetching[q].actual \in Blobs /\ fetching[q].file \in Inodes
      BY <2>1, <2>2, <2>4, <1>1, <1>12 DEF GoodCalls, GoodCall
    <3>2. fetching[q].file # f
      BY <3>1, <1>10
    <3> QED BY <3>1, <3>2, <1>1, <1>7, <1>12 DEF LoneWriters
  <2> QED BY <2>3, <2>4
<1>19. LoneReaders'
  <2> SUFFICES ASSUME NEW q \in Fetchers, Reads(fetching'[q]), fetching'[q].expected \notin shared'
               PROVE  /\ parts'[fetching'[q].file] = Whole
                      /\ fetching'[q].seen = 1 .. fetching'[q].next - 1
    BY DEF LoneReaders
  <2>1. /\ Reads(fetching[q]) /\ fetching'[q] = fetching[q] /\ fetching[q].expected \notin shared
        /\ fetching[q].file # f /\ fetching[q].file \in Inodes
    BY <1>1, <1>4, <1>9, <1>11, <1>12 DEF GoodCalls, GoodCall
  <2> QED BY <2>1, <1>1, <1>12 DEF LoneReaders
<1>20. OnlyOverlapsTear'
  BY <1>1, <1>4, <1>8, <1>12 DEF OnlyOverlapsTear, FetchTypes
<1>21. PinnedBytesMatch'
  BY <1>1, <1>4 DEF PinnedBytesMatch
<1> QED BY <1>13, <1>14, <1>15, <1>16, <1>17, <1>18, <1>19, <1>20, <1>21 DEF FetchInv
NextPartCall(b) == [b EXCEPT !.next = @ + 1, !.stage = IF b.next = Parts THEN "rename" ELSE @]

LEMMA WriteTempKeeps == ASSUME FetchInv, NEW p \in Fetchers, WriteTemp(p) PROVE FetchInv'
<1> DEFINE b == fetching[p]
           f == b.file
           c == NextPartCall(b)
<1>1. /\ FetchTypes /\ GoodCalls /\ NamesApart /\ WritersApart /\ ReadersApart
      /\ LoneWriters /\ LoneReaders /\ OnlyOverlapsTear /\ PinnedBytesMatch
  BY DEF FetchInv
<1>2. b \in FetchCalls /\ b.stage = "write" /\ GoodCall(b) /\ Writes(b)
  BY <1>1 DEF WriteTemp, Is, FetchTypes, GoodCalls, Writes
<1>3. /\ b.actual \in Blobs /\ b.expected \in {Absent, b.actual} /\ f \in Inodes
      /\ b.next \in 1 .. Parts + 1 /\ b.next <= Parts
  BY <1>2 DEF GoodCall, FetchCalls
<1>4. b.next \in Nat /\ b.next + 1 \in 1 .. Parts + 1 /\ b.next \in Whole
  BY <1>3, FetcherAssumption DEF Whole
<1>5. /\ parts' = [parts EXCEPT ![f] = @ \cup {b.next}]
      /\ fetching' = [fetching EXCEPT ![p] = c]
      /\ entry' = entry /\ temp' = temp /\ fetched' = fetched /\ shared' = shared
  BY DEF WriteTemp, NextPartCall
<1>6. /\ c \in FetchCalls /\ c.actual = b.actual /\ c.file = f /\ c.expected = b.expected
      /\ c.next = b.next + 1
      /\ c.stage = IF b.next = Parts THEN "rename" ELSE "write"
  BY <1>2, <1>4 DEF FetchCalls, NextPartCall
<1> HIDE DEF c, f
<1>7. ~Reads(c) /\ Writes(c) /\ GoodCall(c)
  BY <1>3, <1>4, <1>6, FetcherAssumption DEF Reads, Writes, GoodCall
<1>8. /\ \A q \in Fetchers : fetching'[q] = IF q = p THEN c ELSE fetching[q]
      /\ \A i \in Inodes : parts'[i] = IF i = f THEN parts[f] \cup {b.next} ELSE parts[i]
  BY <1>1, <1>3, <1>5 DEF FetchTypes
<1>9. parts[f] = Whole => parts'[f] = Whole
  BY <1>3, <1>4, <1>8
<1>10. FetchTypes'
  <2>1. parts \in [Inodes -> SUBSET Whole] /\ fetching \in [Fetchers -> FetchCalls]
    BY <1>1 DEF FetchTypes
  <2>2. parts' \in [Inodes -> SUBSET Whole]
    BY <2>1, <1>4, <1>5
  <2>3. fetching' \in [Fetchers -> FetchCalls]
    BY <2>1, <1>5, <1>6
  <2> QED BY <2>2, <2>3, <1>1, <1>5 DEF FetchTypes
<1>11. GoodCalls'
  BY <1>1, <1>7, <1>8 DEF GoodCalls
<1>12. NamesApart' /\ PinnedBytesMatch'
  BY <1>1, <1>5 DEF NamesApart, PinnedBytesMatch
<1>13. \A q \in Fetchers : /\ Writes(fetching'[q]) <=> Writes(fetching[q])
                           /\ Reads(fetching'[q]) <=> Reads(fetching[q])
                           /\ fetching'[q].file = fetching[q].file
                           /\ fetching'[q].actual = fetching[q].actual
                           /\ Reads(fetching[q]) => fetching'[q] = fetching[q]
  BY <1>2, <1>6, <1>7, <1>8 DEF f, Reads, Writes
<1>14. WritersApart' /\ ReadersApart'
  BY <1>1, <1>5, <1>13 DEF WritersApart, ReadersApart
<1>15. LoneWriters'
  <2> SUFFICES ASSUME NEW q \in Fetchers, Writes(fetching'[q]), fetching'[q].actual \notin shared'
               PROVE  /\ fetching'[q].file = temp'[fetching'[q].actual]
                      /\ \A r \in Fetchers : Writes(fetching'[r]) /\ fetching'[r].actual = fetching'[q].actual => r = q
                      /\ parts'[fetching'[q].file] = 1 .. fetching'[q].next - 1
                      /\ fetching'[q].stage = "rename" => parts'[fetching'[q].file] = Whole
    BY DEF LoneWriters
  <2>1. /\ Writes(fetching[q]) /\ fetching[q].actual \notin shared
        /\ fetching'[q].file = temp'[fetching'[q].actual]
        /\ \A r \in Fetchers : Writes(fetching'[r]) /\ fetching'[r].actual = fetching'[q].actual => r = q
    BY <1>1, <1>5, <1>13 DEF LoneWriters
  <2>2. CASE q = p
    <3>1. parts[f] = 1 .. b.next - 1
      BY <2>1, <2>2, <1>1 DEF LoneWriters, f
    <3>2. parts'[f] = 1 .. b.next
      <4>1. parts'[f] = (1 .. b.next - 1) \cup {b.next}
        BY <3>1, <1>3, <1>8
      <4>2. b.next \in Nat \ {0}
        BY <1>3
      <4>3. (1 .. b.next - 1) \cup {b.next} = 1 .. b.next
        BY <4>2
      <4> QED BY <4>1, <4>3
    <3>3. c.next - 1 = b.next
      BY <1>4, <1>6
    <3>4. c.stage = "rename" => b.next = Parts
      BY <1>6
    <3> QED BY <2>1, <2>2, <3>2, <3>3, <3>4, <1>6, <1>8 DEF Whole
  <2>3. CASE q # p
    <3>1. fetching[q].file # f
      BY <2>1, <2>3, <1>1, <1>2 DEF WritersApart, LoneWriters, f
    <3>2. fetching[q].file \in Inodes /\ fetching'[q] = fetching[q]
      BY <2>1, <2>3, <1>1, <1>8 DEF GoodCalls, GoodCall
    <3> QED BY <2>1, <3>1, <3>2, <1>1, <1>8 DEF LoneWriters
  <2> QED BY <2>2, <2>3
<1>16. LoneReaders'
  <2> SUFFICES ASSUME NEW q \in Fetchers, Reads(fetching'[q]), fetching'[q].expected \notin shared'
               PROVE  /\ parts'[fetching'[q].file] = Whole
                      /\ fetching'[q].seen = 1 .. fetching'[q].next - 1
    BY DEF LoneReaders
  <2>1. /\ Reads(fetching[q]) /\ fetching'[q] = fetching[q] /\ fetching[q].expected \notin shared
        /\ fetching[q].file \in Inodes
    BY <1>1, <1>5, <1>13 DEF GoodCalls, GoodCall
  <2> QED BY <2>1, <1>1, <1>8, <1>9 DEF LoneReaders
<1>17. OnlyOverlapsTear'
  BY <1>1, <1>5, <1>8, <1>9 DEF OnlyOverlapsTear, FetchTypes
<1> QED BY <1>10, <1>11, <1>12, <1>14, <1>15, <1>16, <1>17 DEF FetchInv

LEMMA RenameTempKeeps == ASSUME FetchInv, NEW p \in Fetchers, RenameTemp(p) PROVE FetchInv'
<1> DEFINE b == fetching[p]
           d == b.actual
           r == FetchedIn(b)
<1>1. /\ FetchTypes /\ GoodCalls /\ NamesApart /\ WritersApart /\ ReadersApart
      /\ LoneWriters /\ LoneReaders /\ OnlyOverlapsTear
  BY DEF FetchInv
<1>2. b \in FetchCalls /\ b.stage = "rename" /\ GoodCall(b) /\ Writes(b)
  BY <1>1 DEF RenameTemp, Is, FetchTypes, GoodCalls, Writes
<1>3. d \in Blobs
  BY <1>2 DEF GoodCall
<1>4. GoodResult(r) /\ Ends(p, r) /\ UNCHANGED <<parts, shared>>
  BY <1>2, FetchedIsGood DEF RenameTemp, Gives, FetchedIn
<1>5. CASE temp[d] = Absent
  <2>1. Files
    BY <1>4, <1>5 DEF RenameTemp, Files
  <2> QED BY <2>1, <1>4, EndsKeeps
<1>6. CASE temp[d] # Absent
  <2> HIDE DEF d, r
  <2>1. entry' = [entry EXCEPT ![d] = temp[d]] /\ temp' = [temp EXCEPT ![d] = Absent]
    BY <1>6 DEF RenameTemp, d
  <2>2. /\ \A q \in Fetchers : fetching'[q] = IF q = p THEN NoFetch ELSE fetching[q]
        /\ \A e \in Blobs : /\ temp'[e] = IF e = d THEN Absent ELSE temp[e]
                            /\ entry'[e] = IF e = d THEN temp[d] ELSE entry[e]
    BY <2>1, <1>1, <1>4 DEF FetchTypes, Ends
  <2>3. ~Reads(NoFetch) /\ ~Writes(NoFetch) /\ GoodCall(NoFetch) /\ NoFetch \in FetchCalls
    BY NoFetchType DEF Reads, Writes
  <2>4. fetched' \in [Fetchers -> Results \cup {Absent}] /\ PinnedBytesMatch'
    BY <1>4, GivenKeeps DEF Ends
  <2>5. FetchTypes'
    <3>1. temp[d] \in Inodes
      BY <1>1, <1>3, <1>6 DEF FetchTypes
    <3>2. entry' \in [Blobs -> Inodes \cup {Absent}] /\ temp' \in [Blobs -> Inodes \cup {Absent}]
      BY <3>1, <2>1, <1>1 DEF FetchTypes
    <3>3. fetching' \in [Fetchers -> FetchCalls]
      BY <2>3, <1>1, <1>4 DEF FetchTypes, Ends
    <3> QED BY <3>2, <3>3, <2>4, <1>1, <1>4 DEF FetchTypes
  <2>6. GoodCalls'
    BY <2>2, <2>3, <1>1 DEF GoodCalls
  <2>7. NamesApart'
    BY <2>2, <1>1, <1>3, <1>6 DEF NamesApart
  <2>8. \A q \in Fetchers : Writes(fetching'[q]) \/ Reads(fetching'[q]) =>
            fetching'[q] = fetching[q] /\ fetching[q].file \in Inodes
    BY <2>2, <2>3, <1>1 DEF GoodCalls, GoodCall
  <2>9. WritersApart'
    BY <2>2, <2>8, <1>1, <1>3, FetcherAssumption DEF WritersApart
  <2>10. ReadersApart'
    BY <2>2, <2>8, <1>1, <1>3, FetcherAssumption DEF ReadersApart
  <2>11. LoneWriters'
    <3> SUFFICES ASSUME NEW q \in Fetchers, Writes(fetching'[q]), fetching'[q].actual \notin shared'
                 PROVE  /\ fetching'[q].file = temp'[fetching'[q].actual]
                        /\ \A s \in Fetchers : Writes(fetching'[s]) /\ fetching'[s].actual = fetching'[q].actual => s = q
                        /\ parts'[fetching'[q].file] = 1 .. fetching'[q].next - 1
                        /\ fetching'[q].stage = "rename" => parts'[fetching'[q].file] = Whole
      BY DEF LoneWriters
    <3>1. /\ Writes(fetching[q]) /\ fetching[q].actual \notin shared /\ q # p
          /\ fetching'[q] = fetching[q] /\ fetching[q].actual \in Blobs
      BY <2>2, <2>3, <1>1, <1>4 DEF GoodCalls, GoodCall
    <3>2. fetching[q].actual # d
      BY <3>1, <1>1, <1>2 DEF LoneWriters, d
    <3>3. \A s \in Fetchers : Writes(fetching'[s]) => Writes(fetching[s]) /\ fetching'[s] = fetching[s]
      BY <2>2, <2>3
    <3> QED BY <3>1, <3>2, <3>3, <2>2, <1>1, <1>4 DEF LoneWriters
  <2>12. LoneReaders'
    BY <2>8, <1>1, <1>4 DEF LoneReaders, GoodCalls, GoodCall
  <2>13. OnlyOverlapsTear'
    <3>1. d \notin shared => parts[temp[d]] = Whole
      BY <1>1, <1>2 DEF LoneWriters, d
    <3> QED BY <3>1, <2>2, <1>1, <1>3, <1>4 DEF OnlyOverlapsTear
  <2> QED BY <2>4, <2>5, <2>6, <2>7, <2>9, <2>10, <2>11, <2>12, <2>13 DEF FetchInv
<1> QED BY <1>5, <1>6

LEMMA FetchStutters == FetchInv /\ UNCHANGED fetchVars => FetchInv'
BY DEF fetchVars, FetchInv, FetchTypes, GoodCalls, NamesApart, WritersApart, ReadersApart,
       LoneWriters, LoneReaders, OnlyOverlapsTear, PinnedBytesMatch

LEMMA FetchNextKeeps == FetchInv /\ [FetchNext]_fetchVars => FetchInv'
<1> SUFFICES ASSUME FetchInv, [FetchNext]_fetchVars PROVE FetchInv'
  OBVIOUS
<1>1. CASE UNCHANGED fetchVars
  BY <1>1, FetchStutters
<1>2. ASSUME NEW p \in Fetchers, NEW d \in Blobs \cup {Absent}, Fetch(p, d) PROVE FetchInv'
  BY <1>2, FetchKeeps
<1>3. ASSUME NEW p \in Fetchers, NEW d \in Blobs, FetchRaw(p, d) PROVE FetchInv'
  BY <1>3, FetchRawKeeps
<1>4. ASSUME NEW p \in Fetchers, ReadFromCache(p) PROVE FetchInv'
  BY <1>4, ReadFromCacheKeeps
<1>5. ASSUME NEW p \in Fetchers, OpenTemp(p) PROVE FetchInv'
  BY <1>5, OpenTempKeeps
<1>6. ASSUME NEW p \in Fetchers, WriteTemp(p) PROVE FetchInv'
  BY <1>6, WriteTempKeeps
<1>7. ASSUME NEW p \in Fetchers, RenameTemp(p) PROVE FetchInv'
  BY <1>7, RenameTempKeeps
<1>8. ASSUME NEW p \in Fetchers, CacheFails(p) PROVE FetchInv'
  BY <1>8, CacheFailsKeeps
<1>9. ASSUME NEW p \in Fetchers, FetchFails(p) \/ FetcherDies(p) PROVE FetchInv'
  BY <1>9, GivesUpKeeps
<1> QED BY <1>1, <1>2, <1>3, <1>4, <1>5, <1>6, <1>7, <1>8, <1>9 DEF FetchNext

LEMMA FetchInvariant == FetchSpec => []FetchInv
BY FetchInitInv, FetchNextKeeps, PTL DEF FetchSpec

(***************************************************************************)
(* An entry of the fetcher's cache lacks a part of its artifact only where *)
(* two fetchers once wrote its temp file together: no death, failure or    *)
(* reader in the middle of a rename is enough (write_to_cache).            *)
(***************************************************************************)
THEOREM EntriesAreTornByOverlaps == FetchSpec => []OnlyOverlapsTear
<1>1. FetchInv => OnlyOverlapsTear
  BY DEF FetchInv
<1> QED BY <1>1, FetchInvariant, PTL

(***************************************************************************)
(* A fetch that names a digest returns all the bytes of that digest, from  *)
(* the cache and from the source, but for such entries (fetch).            *)
(***************************************************************************)
THEOREM PinnedFetchesMatch == FetchSpec => []PinnedBytesMatch
<1>1. FetchInv => PinnedBytesMatch
  BY DEF FetchInv
<1> QED BY <1>1, FetchInvariant, PTL
=============================================================================
