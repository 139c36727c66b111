------------------------------ MODULE TrustStore ------------------------------
(***************************************************************************)
(* TrustStore of libs/compose-core/src/trust.rs: the trusted set in memory *)
(* and its files, and the cache of verifications with its time to live.    *)
(* A step is a critical section of one of the store's mutexes or an access *)
(* to a trust file.  Nothing reads those files, so one write is one step.  *)
(***************************************************************************)
EXTENDS Integers, FiniteSets

CONSTANTS
    Threads,
    Digests,
    Metadata,      \* what trust_digest records
    Backends,      \* the schemes of the registered backends
    Inputs,        \* the bytes and signature a caller presents
    Accepts,       \* the <<backend, digest, input>> a backend accepts
    Ttl,           \* cache_ttl, in ticks of the clock
    MaxClock,      \* bound on the clock
    Width,         \* the clock is an unsigned integer modulo Width
    SerialAdmin,   \* TRUE: trust and untrust of a digest never overlap
    Restarts,      \* TRUE: the process may be restarted
    FaultyDisk,    \* TRUE: a file may fail to be written or removed
    None

ASSUME TrustAssumption ==
    /\ Accepts \subseteq Backends \X Digests \X Inputs
    /\ None \notin Metadata
    /\ Ttl \in Nat /\ MaxClock \in Nat
    /\ Width \in Nat /\ Width > MaxClock + Ttl
    /\ SerialAdmin \in BOOLEAN /\ Restarts \in BOOLEAN /\ FaultyDisk \in BOOLEAN

VARIABLES
    clock,     \* what SharedClock reads; the system may set it back
    trusted,   \* digest -> metadata, or None
    file,      \* digest -> the trust file: metadata, "null", or None
    cached,    \* digest -> when it was verified and by which backend, or None
    verifier,  \* the thread that holds the mutex of the backends
    call,      \* thread -> the call it is in
    answer,    \* thread -> what its last verification returned
    excused    \* history: the digests whose file the disk or a restart left behind

vars == <<clock, trusted, file, cached, verifier, call, answer, excused>>

Idle == [stage |-> "idle", digest |-> None, text |-> None, backend |-> None, input |-> None]
Stages == {"idle", "trust_read", "trust_write", "untrust_look", "untrust_unlink",
           "verify_lock", "verify_check"}
Texts == Metadata \cup {"null"}

Init ==
    /\ clock = 0
    /\ trusted = [d \in Digests |-> None]
    /\ file = [d \in Digests |-> None]
    /\ cached = [d \in Digests |-> None]
    /\ verifier = None
    /\ call = [t \in Threads |-> Idle]
    /\ answer = [t \in Threads |-> None]
    /\ excused = {}

At(t, s) == call[t].stage = s
Goto(t, s) == call' = [call EXCEPT ![t].stage = s]
Return(t) == call' = [call EXCEPT ![t] = Idle]
Administered(d) == \E t \in Threads :
    /\ call[t].digest = d
    /\ call[t].stage \in {"trust_read", "trust_write", "untrust_look", "untrust_unlink"}

verification == <<cached, verifier, answer>>

Stored(d, x) == file' = [file EXCEPT ![d] = x] /\ excused' = excused \ {d}
Excused(d) == excused' = excused \cup {d} /\ UNCHANGED file

--------------------------- (* trust and untrust *) ---------------------------

TrustBegins(t, d, m) ==
    /\ At(t, "idle")
    /\ SerialAdmin => ~Administered(d)
    /\ trusted' = [trusted EXCEPT ![d] = m]
    /\ call' = [call EXCEPT ![t] = [Idle EXCEPT !.stage = "trust_read", !.digest = d]]
    /\ UNCHANGED <<clock, file, excused, verification>>

\* The map is read again for the file: what it holds now, or JSON's null.
TrustReads(t) ==
    /\ At(t, "trust_read")
    /\ call' = [call EXCEPT ![t].stage = "trust_write",
                            ![t].text = IF trusted[call[t].digest] = None THEN "null"
                                        ELSE trusted[call[t].digest]]
    /\ UNCHANGED <<clock, trusted, file, excused, verification>>

TrustWrites(t) ==
    /\ At(t, "trust_write")
    /\ Return(t)
    /\ \/ Stored(call[t].digest, call[t].text)
       \/ FaultyDisk /\ Excused(call[t].digest)
    /\ UNCHANGED <<clock, trusted, verification>>

UntrustBegins(t, d) ==
    /\ At(t, "idle")
    /\ SerialAdmin => ~Administered(d)
    /\ trusted' = [trusted EXCEPT ![d] = None]
    /\ call' = [call EXCEPT ![t] = [Idle EXCEPT !.stage = "untrust_look", !.digest = d]]
    /\ UNCHANGED <<clock, file, excused, verification>>

UntrustLooks(t) ==
    /\ At(t, "untrust_look")
    /\ \/ file[call[t].digest] = None /\ Return(t) /\ excused' = excused \ {call[t].digest}
       \/ file[call[t].digest] # None /\ Goto(t, "untrust_unlink") /\ UNCHANGED excused
    /\ UNCHANGED <<clock, trusted, file, verification>>

\* Variant: the file is left for the next trust_digest to overwrite.
UntrustKeepsFile(t) ==
    /\ At(t, "untrust_unlink")
    /\ Return(t)
    /\ UNCHANGED <<clock, trusted, file, excused, verification>>

UntrustUnlinks(t) ==
    /\ At(t, "untrust_unlink")
    /\ Return(t)
    /\ \/ Stored(call[t].digest, None)
       \/ FaultyDisk /\ Excused(call[t].digest)
    /\ UNCHANGED <<clock, trusted, verification>>

------------------------------ (* verification *) ------------------------------

\* Variant: the age of an entry from the future is taken to be zero.
AgeSaturates(d) == IF clock < cached[d].at THEN 0 ELSE clock - cached[d].at

Age(d) == (clock - cached[d].at) % Width

VerifyLooks(t, d, b, x) ==
    /\ At(t, "idle")
    /\ IF cached[d] # None /\ Age(d) < Ttl
       THEN /\ answer' = [answer EXCEPT ![t] =
                            [digest |-> d, backend |-> b, by |-> cached[d].by,
                             at |-> cached[d].at, now |-> clock]]
            /\ UNCHANGED call
       ELSE /\ call' = [call EXCEPT ![t] = [Idle EXCEPT !.stage = "verify_lock",
                                   !.digest = d, !.backend = b, !.input = x]]
            /\ answer' = [answer EXCEPT ![t] = None]
    /\ UNCHANGED <<clock, trusted, file, cached, verifier, excused>>

VerifyLocks(t) ==
    /\ At(t, "verify_lock")
    /\ verifier = None
    /\ verifier' = t
    /\ Goto(t, "verify_check")
    /\ UNCHANGED <<clock, trusted, file, cached, answer, excused>>

Caches(t) ==
    LET d == call[t].digest  b == call[t].backend IN
    /\ cached' = [cached EXCEPT ![d] = [at |-> clock, by |-> b]]
    /\ answer' = [answer EXCEPT ![t] = [digest |-> d, backend |-> b, by |-> b,
                                        at |-> clock, now |-> clock]]

\* Variant: the outcome is cached before it is looked at.
VerifyCachesFirst(t) ==
    LET k == call[t] IN
    /\ At(t, "verify_check")
    /\ \/ <<k.backend, k.digest, k.input>> \in Accepts /\ Caches(t)
       \/ /\ <<k.backend, k.digest, k.input>> \notin Accepts
          /\ cached' = [cached EXCEPT ![k.digest] = [at |-> clock, by |-> k.backend]]
          /\ UNCHANGED answer
    /\ verifier' = None
    /\ Return(t)
    /\ UNCHANGED <<clock, trusted, file, excused>>

\* The backend decides; only an acceptance is cached.
VerifyChecks(t) ==
    LET k == call[t] IN
    /\ At(t, "verify_check")
    /\ \/ <<k.backend, k.digest, k.input>> \in Accepts /\ Caches(t)
       \/ <<k.backend, k.digest, k.input>> \notin Accepts /\ UNCHANGED <<cached, answer>>
    /\ verifier' = None
    /\ Return(t)
    /\ UNCHANGED <<clock, trusted, file, excused>>

ClearCache ==
    /\ cached' = [d \in Digests |-> None]
    /\ UNCHANGED <<clock, trusted, file, verifier, call, answer, excused>>

----------------------------------------------------------------------------

\* The system clock advances, or is set back.
ClockMoves ==
    /\ clock' \in 0 .. MaxClock
    /\ clock' = clock + 1 \/ clock' < clock
    /\ UNCHANGED <<trusted, file, cached, verifier, call, answer, excused>>

\* A new process opens the directory with TrustStore::new.
Restart ==
    /\ Restarts
    /\ trusted' = [d \in Digests |-> None]
    /\ cached' = [d \in Digests |-> None]
    /\ verifier' = None
    /\ call' = [t \in Threads |-> Idle]
    /\ answer' = [t \in Threads |-> None]
    /\ excused' = {d \in Digests : file[d] # None}
    /\ UNCHANGED <<clock, file>>

Next ==
    \/ \E t \in Threads :
         \/ TrustReads(t) \/ TrustWrites(t) \/ UntrustLooks(t) \/ UntrustUnlinks(t)
         \/ VerifyLocks(t) \/ VerifyChecks(t)
         \/ \E d \in Digests :
              \/ UntrustBegins(t, d)
              \/ \E m \in Metadata : TrustBegins(t, d, m)
              \/ \E b \in Backends, x \in Inputs : VerifyLooks(t, d, b, x)
    \/ ClearCache \/ ClockMoves \/ Restart

Spec == Init /\ [][Next]_vars

----------------------------------------------------------------------------

Answers == [digest : Digests, backend : Backends, by : Backends,
            at : 0 .. MaxClock, now : 0 .. MaxClock]

\* The set in memory, the files and the verification cache hold what the code puts in
\* them: an entry that was removed is absent, not marked.
TypeOK ==
    /\ clock \in 0 .. MaxClock
    /\ trusted \in [Digests -> Metadata \cup {None}]
    /\ file \in [Digests -> Texts \cup {None}]
    /\ cached \in [Digests -> [at : 0 .. MaxClock, by : Backends] \cup {None}]
    /\ verifier \in Threads \cup {None}
    /\ call \in [Threads -> [stage : Stages, digest : Digests \cup {None},
                             text : Texts \cup {None}, backend : Backends \cup {None},
                             input : Inputs \cup {None}]]
    /\ answer \in [Threads -> Answers \cup {None}]
    /\ excused \subseteq Digests

\* However the clock is set back and however verifications and clear_cache race,
\* a hit is no older than the time to live and never from the future: the
\* unsigned subtraction of get_cached wraps, and a wrapped age counts as expired.
HitsAreFresh == \A t \in Threads : answer[t] # None =>
    /\ answer[t].at <= answer[t].now
    /\ answer[t].now = answer[t].at \/ answer[t].now < answer[t].at + Ttl

\* A digest is answered as verified only if some backend accepts it: a rejection
\* is never cached, whichever verifications race for the mutex.
VerifiedWasAccepted == \A t \in Threads : answer[t] # None =>
    \E x \in Inputs : <<answer[t].by, answer[t].digest, x>> \in Accepts

\* "Persist to disk" (trust.rs:195): the file of a digest that nobody is administering
\* says what the set in memory says, unless the disk refused the last change of it or
\* it was written by a process that has been restarted since.  That takes one trust or
\* untrust of a digest at a time (SerialAdmin): two that overlap break it.
FilesAgreeAtRest == \A d \in Digests :
    ~Administered(d) /\ d \notin excused => file[d] = trusted[d]
=============================================================================
