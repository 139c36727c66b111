---------------------------- MODULE Pkcs11Sessions ----------------------------
(***************************************************************************)
(* Sessions and cryptographic operations of libs/pkcs11-host-adapter.  All *)
(* guests share one AdapterContext; its mutex is held through every call   *)
(* of NativePkcs11, so a step is one call of a guest.  The layers are      *)
(* those of the code: C_... is what a native module does, an operator of a *)
(* handle h is a method of NativePkcs11, and an operator of a session s or *)
(* an operation object o is a method of the resource the guest holds.      *)
(* Calls that change nothing (queries, refusals) are left out.             *)
(***************************************************************************)
EXTENDS Naturals, FiniteSets

CONSTANTS
    Modules,      \* paths of native modules
    Lacking,      \* those that export C_..Init but not the single-part function
    Handles,      \* numbers of native sessions
    Sessions,     \* session resources
    Objects,      \* operation objects: encryptors, signers, searches, ...
    Kinds,        \* the kinds of operation the guests use
    MaxChunks,    \* bound on the chunks given to one object
    Nobody,       \* the owner of an operation that a single-part call left behind
    None

KindNames == {"encrypt", "decrypt", "sign", "verify", "digest", "search",
              "sign_recover", "verify_recover"}

ASSUME Pkcs11Assumption ==
    /\ MaxChunks \in Nat
    /\ Kinds \subseteq KindNames
    /\ Lacking \subseteq Modules
    /\ None \notin Modules \cup Handles \cup Sessions \cup Objects \cup KindNames
                     \cup {Nobody, "call", "abort"}
    /\ Nobody \notin Objects

Places == Handles \X Kinds

VARIABLES
    module,   \* the library that is loaded
    up,       \* TRUE: C_Initialize has succeeded on it
    open,     \* native session -> None, or the resource it was opened for
    ops,      \* native session, kind -> None, or the object that began the operation
    sess,     \* session resource -> what it holds
    obj,      \* operation object -> what it holds
    given,    \* history: object -> chunks its guest was told were accepted
    taken,    \* history: object -> chunks the module received for its operation
    again,    \* history: numbers issued while a resource still held them
    misused,  \* history: places where an object was called after its end or failure
    left,     \* history: places whose operation its owner left behind
    cut       \* history: place -> how a call of another object first ended its operation

issues == <<again, misused>>
vars == <<module, up, open, ops, sess, obj, given, taken, issues, left, cut>>

FreeSession == [stage |-> "free", handle |-> None]
LiveSessions == [stage : {"open", "closed", "taken"}, handle : Handles]
FreeObject == [stage |-> "free", kind |-> None, handle |-> None, used |-> "well"]
\* "active" and "ended" are the flag of the object; "silent" is one that was given a
\* chunk for which the module had nothing to put out.
LiveObjects == [stage : {"active", "ended"}, kind : Kinds, handle : Handles,
                used : {"well", "silent", "failed"}]

Init ==
    /\ module = None /\ up = FALSE /\ again = {} /\ misused = {} /\ left = {}
    /\ open = [h \in Handles |-> None]
    /\ ops = [p \in Places |-> None]
    /\ sess = [s \in Sessions |-> FreeSession]
    /\ obj = [o \in Objects |-> FreeObject]
    /\ given = [o \in Objects |-> 0]
    /\ taken = [o \in Objects |-> 0]
    /\ cut = [p \in Places |-> None]

\* History: an operation is left behind until it ends.
Leaves(P) == left' = {p \in left \cup P : ops'[p] # None}

--------------------------------- (* module *) ---------------------------------

\* All native sessions end; the resources keep their handle numbers.
AllSessionsEnd ==
    /\ open' = [h \in Handles |-> None]
    /\ ops' = [p \in Places |-> None]
    /\ sess' = [s \in Sessions |->
                  IF sess[s].stage = "open" THEN [sess[s] EXCEPT !.stage = "taken"] ELSE sess[s]]
    /\ Leaves({})
    /\ UNCHANGED <<obj, given, taken, issues, cut>>

\* Another path replaces the library, without C_Finalize on the old one.  Neither it
\* nor one that is initialized again knows the numbers that were issued before.
Initialize(m) ==
    /\ module # m \/ ~up
    /\ module' = m
    /\ up' \in BOOLEAN
    /\ AllSessionsEnd

Finalize ==
    /\ up
    /\ up' = FALSE
    /\ AllSessionsEnd
    /\ UNCHANGED module

CloseAllSessions ==
    /\ up
    /\ AllSessionsEnd
    /\ UNCHANGED <<module, up>>

-------------------------------- (* sessions *) --------------------------------

\* A module issues any number that is not the number of an open session.
MayIssue(h) == open[h] = None
IsHeld(h) == \/ \E s \in Sessions : sess[s].handle = h
             \/ \E o \in Objects : obj[o].handle = h

\* History: a number that nothing holds any more starts afresh.
Issues(h) ==
    /\ again' = IF IsHeld(h) THEN again \cup {h} ELSE again \ {h}
    /\ misused' = {p \in misused : p[1] # h}
    /\ cut' = [p \in Places |-> IF p[1] = h THEN None ELSE cut[p]]

OpenSession(s, h) ==
    /\ up
    /\ sess[s] = FreeSession
    /\ MayIssue(h)
    /\ open' = [open EXCEPT ![h] = s]
    /\ sess' = [sess EXCEPT ![s] = [stage |-> "open", handle |-> h]]
    /\ Issues(h)
    /\ UNCHANGED <<module, up, ops, obj, given, taken, left>>

\* C_CloseSession ends the operations of the session with it.
NativeClose(h) ==
    /\ open' = [open EXCEPT ![h] = None]
    /\ ops' = [p \in Places |-> IF p[1] = h THEN None ELSE ops[p]]

Known(h) == up /\ open[h] # None

\* SessionInner::close asks the module whether or not it was closed before.
Close(s) ==
    LET h == sess[s].handle IN
    /\ sess[s].stage # "free"
    /\ \/ /\ Known(h)
          /\ NativeClose(h)
          /\ sess' = [sess EXCEPT ![s].stage = "closed"]
       \/ /\ ~Known(h)
          /\ UNCHANGED <<open, ops, sess>>
    /\ Leaves({})
    /\ UNCHANGED <<module, up, obj, given, taken, issues, cut>>

\* Variant: a dropped session closes all sessions of its slot.
DropClosesAll(s) ==
    /\ sess[s].stage # "free"
    /\ open' = [h \in Handles |-> None]
    /\ ops' = [p \in Places |-> None]
    /\ sess' = [sess EXCEPT ![s] = FreeSession]
    /\ Leaves({})
    /\ UNCHANGED <<module, up, obj, given, taken, issues, cut>>

\* Drop closes once more, and ignores what the module says.
DropSession(s) ==
    LET h == sess[s].handle IN
    /\ sess[s].stage # "free"
    /\ (Known(h) /\ NativeClose(h)) \/ UNCHANGED <<open, ops>>
    /\ sess' = [sess EXCEPT ![s] = FreeSession]
    /\ Leaves({})
    /\ UNCHANGED <<module, up, obj, given, taken, issues, cut>>

---------------------------- (* the native module *) ----------------------------

Active(h, k) == Known(h) /\ ops[<<h, k>>] # None
NoEffect == UNCHANGED <<ops, taken>>

\* What became of a call: the module did it; it took the call for a question for a
\* length, and nobody noticed; the buffer was too small; any other error.
Results == {"done", "asked", "short", "error"}

C_Start(h, k, o) ==
    /\ Known(h) /\ k \in Kinds /\ ops[<<h, k>>] = None
    /\ ops' = [ops EXCEPT ![<<h, k>>] = o]
    /\ taken' = [taken EXCEPT ![o] = 0]

C_Finish(h, k) == ops' = [ops EXCEPT ![<<h, k>>] = None] /\ UNCHANGED taken

\* Any error but a short buffer ends the operation of the session, whoever began it.
C_Fail(h, k, r) ==
    /\ r = "error"
    /\ IF Active(h, k) THEN C_Finish(h, k) ELSE NoEffect

\* A question for a length is answered as long as there is an operation.
C_Ask(h, k, r) == NoEffect /\ r = (IF Active(h, k) THEN "asked" ELSE "error")

C_Take(h, k, r) ==
    /\ r = "done" /\ Active(h, k)
    /\ ops[<<h, k>>] # Nobody => taken[ops[<<h, k>>]] < MaxChunks
    /\ taken' = [o \in Objects |-> IF o = ops[<<h, k>>] THEN taken[o] + 1 ELSE taken[o]]
    /\ UNCHANGED ops

C_End(h, k, r) == r = "done" /\ Active(h, k) /\ C_Finish(h, k)

------------------------------ (* NativePkcs11 *) ------------------------------

EncryptInit(h, o) == C_Start(h, "encrypt", o)
DecryptInit(h, o) == C_Start(h, "decrypt", o)
SignInit(h, o) == C_Start(h, "sign", o)
VerifyInit(h, o) == C_Start(h, "verify", o)
DigestInit(h, o) == C_Start(h, "digest", o)
FindObjectsInit(h, o) == C_Start(h, "search", o)

\* A cipher is asked first how much it will put out.  Where that is nothing the
\* adapter passes no buffer, which the module takes for another question.
CipherUpdate(h, k, r) == C_Take(h, k, r) \/ C_Ask(h, k, r) \/ C_Fail(h, k, r)
EncryptUpdate(h, r) == CipherUpdate(h, "encrypt", r)
DecryptUpdate(h, r) == CipherUpdate(h, "decrypt", r)

\* Variant: a chunk may be sent again when the module has taken it.
SignUpdateResends(h, r) ==
    \/ /\ r = "done" /\ Active(h, "sign")
       /\ ops[<<h, "sign">>] # Nobody => taken[ops[<<h, "sign">>]] < MaxChunks
       /\ \E n \in {1, 2} : taken' = [o \in Objects |->
             IF o = ops[<<h, "sign">>] THEN taken[o] + n ELSE taken[o]]
       /\ UNCHANGED ops
    \/ C_Fail(h, "sign", r)
SignUpdate(h, r) == C_Take(h, "sign", r) \/ C_Fail(h, "sign", r)
VerifyUpdate(h, r) == C_Take(h, "verify", r) \/ C_Fail(h, "verify", r)
DigestUpdate(h, r) == C_Take(h, "digest", r) \/ C_Fail(h, "digest", r)
DigestKey(h, r) == C_Take(h, "digest", r) \/ C_Fail(h, "digest", r)

\* With room for no bytes the final of a cipher passes no buffer, and the module
\* answers with a length; with too little room it keeps the operation.
CipherFinal(h, k, r) ==
    \/ C_End(h, k, r) \/ C_Ask(h, k, r) \/ C_Fail(h, k, r)
    \/ r = "short" /\ Active(h, k) /\ NoEffect
EncryptFinal(h, r) == CipherFinal(h, "encrypt", r)
DecryptFinal(h, r) == CipherFinal(h, "decrypt", r)

\* Variant: the length of a signature is asked for and the signature is not.
SignFinalAsks(h, r) ==
    \/ r = "done" /\ Active(h, "sign") /\ NoEffect
    \/ C_Fail(h, "sign", r)
SignFinal(h, r) == C_End(h, "sign", r) \/ C_Fail(h, "sign", r)
VerifyFinal(h, r) == C_End(h, "verify", r) \/ C_Fail(h, "verify", r)
DigestFinal(h, r) == C_End(h, "digest", r) \/ C_Fail(h, "digest", r)
\* A failing search goes on.
FindObjects(h, r) == r = "error" /\ NoEffect
FindObjectsFinal(h, r) ==
    \/ C_End(h, "search", r)
    \/ r = "error" /\ ~Active(h, "search") /\ NoEffect

\* An abort is a question for a length, which ends nothing; for a verification it is
\* a final of no signature, which modules either fail or refuse.
EncryptAbort(h, r) == C_Ask(h, "encrypt", r)
DecryptAbort(h, r) == C_Ask(h, "decrypt", r)
SignAbort(h, r) == C_Ask(h, "sign", r)
DigestAbort(h, r) == C_Ask(h, "digest", r)
VerifyAbort(h, r) == C_Fail(h, "verify", r) \/ (r = "error" /\ NoEffect)

\* init and the single-part call, which ends the operation however it turns out,
\* come to nothing, also when init is refused: only where the second symbol is
\* missing the operation stays.
OneShot(h, k) ==
    /\ Known(h) /\ k \in Kinds /\ ops[<<h, k>>] = None
    /\ module \in Lacking
    /\ ops' = [ops EXCEPT ![<<h, k>>] = Nobody]
    /\ UNCHANGED taken
Encrypt(h) == OneShot(h, "encrypt")
Decrypt(h) == OneShot(h, "decrypt")
Sign(h) == OneShot(h, "sign")
Verify(h) == OneShot(h, "verify")
Digest(h) == OneShot(h, "digest")
SignRecover(h) == OneShot(h, "sign_recover")
VerifyRecover(h) == OneShot(h, "verify_recover")

---------------------------- (* session resources *) ----------------------------

FailsCall(o) == obj' = [obj EXCEPT ![o].used = "failed"]
ModuleStays == UNCHANGED <<module, up, open>>

Begins(s, o, k) ==
    /\ obj[o] = FreeObject /\ \A p \in Places : ops[p] # o
    /\ obj' = [obj EXCEPT ![o] = [stage |-> "active", kind |-> k,
                                  handle |-> sess[s].handle, used |-> "well"]]
    /\ given' = [given EXCEPT ![o] = 0]
    /\ UNCHANGED <<sess, issues, left, cut>> /\ ModuleStays

\* encrypt_init, ..., digest_init; the module refuses a second operation.
SessionBegins(s, o) ==
    LET h == sess[s].handle IN
    /\ sess[s].stage # "free"
    /\ \/ Begins(s, o, "encrypt") /\ EncryptInit(h, o)
       \/ Begins(s, o, "decrypt") /\ DecryptInit(h, o)
       \/ Begins(s, o, "sign") /\ SignInit(h, o)
       \/ Begins(s, o, "verify") /\ VerifyInit(h, o)
       \/ Begins(s, o, "digest") /\ DigestInit(h, o)

SessionSearches(s, o) ==
    /\ sess[s].stage # "free"
    /\ Begins(s, o, "search") /\ FindObjectsInit(sess[s].handle, o)

SessionOneShots(s) ==
    LET h == sess[s].handle IN
    /\ sess[s].stage # "free"
    /\ \/ Encrypt(h) \/ Decrypt(h) \/ Sign(h) \/ Verify(h) \/ Digest(h)
       \/ SignRecover(h) \/ VerifyRecover(h)
    /\ Leaves({p \in Places : ops'[p] = Nobody})
    /\ UNCHANGED <<sess, obj, given, issues, cut>> /\ ModuleStays

\* The key is a chunk for the digest of the session; an error ends that digest
\* behind the back of its object.
SessionDigestsKey(s) ==
    LET h == sess[s].handle
        o == ops[<<h, "digest">>] IN
    /\ sess[s].stage # "free" /\ "digest" \in Kinds /\ Active(h, "digest") /\ o \in Objects
    /\ \/ /\ DigestKey(h, "done") /\ given[o] < MaxChunks
          /\ given' = [given EXCEPT ![o] = @ + 1]
          /\ UNCHANGED obj
       \/ /\ DigestKey(h, "error")
          /\ IF obj[o].stage = "free" THEN UNCHANGED obj ELSE FailsCall(o)
          /\ UNCHANGED given
    /\ Leaves({})
    /\ UNCHANGED <<sess, issues, cut>> /\ ModuleStays

\* What a guest can do with a session.
Session(s) ==
    \/ Close(s) \/ DropSession(s)
    \/ \E o \in Objects : SessionBegins(s, o) \/ SessionSearches(s, o)
    \/ SessionOneShots(s) \/ SessionDigestsKey(s)

--------------------------- (* operation resources *) ---------------------------

HandleOf(o) == obj[o].handle
KindOf(o) == obj[o].kind
PlaceOf(o) == <<HandleOf(o), KindOf(o)>>

\* History: the guest calls an object after its end, or after a call of it has failed
\* and its operation with it.
Calls(o) ==
    /\ misused' = IF obj[o].stage # "active" \/ (obj[o].used = "failed" /\ KindOf(o) # "search")
                  THEN misused \cup {PlaceOf(o)} ELSE misused
    /\ UNCHANGED again

\* History: how an object first ended the operation of another one.
Cuts(o, how) == cut' = [p \in Places |->
    IF cut[p] = None /\ ops'[p] # ops[p] /\ ops[p] \in Objects \ {o} THEN how ELSE cut[p]]

\* History: the operation that o has even now.
Behind(o) == {p \in {PlaceOf(o)} : ops'[p] = o}

\* The flag is cleared when the call succeeds.
Clears(o, r) ==
    CASE r \in {"done", "asked"} -> obj' = [obj EXCEPT ![o].stage = "ended"]
      [] r = "error" -> FailsCall(o)
      [] r = "short" -> UNCHANGED obj

Updates(o, r) ==
    /\ Calls(o) /\ Cuts(o, "call") /\ Leaves({})
    /\ \/ r = "error" /\ FailsCall(o) /\ UNCHANGED given
       \/ /\ r # "error" /\ given[o] < MaxChunks
          /\ given' = [given EXCEPT ![o] = @ + 1]
          /\ obj' = [obj EXCEPT ![o].used = IF r = "asked" /\ @ = "well" THEN "silent" ELSE @]
Finishes(o, r) ==
    /\ Calls(o) /\ Cuts(o, "call") /\ Leaves(IF r = "asked" THEN Behind(o) ELSE {})
    /\ Clears(o, r)
    /\ UNCHANGED given
Aborts(o, r) ==
    /\ Cuts(o, "abort") /\ Leaves(IF r = "asked" THEN Behind(o) ELSE {})
    /\ Clears(o, r)
    /\ UNCHANGED <<given, issues>>

\* An object whose flag is set aborts its operation when it is dropped.
Drops(o) ==
    /\ obj[o].stage = "active"
    /\ Cuts(o, "abort") /\ Leaves(Behind(o))
    /\ obj' = [obj EXCEPT ![o] = FreeObject]
    /\ UNCHANGED <<given, issues>>

RestStays == UNCHANGED sess /\ ModuleStays

Encryptor(o) ==
    LET h == HandleOf(o) IN
    /\ KindOf(o) = "encrypt"
    /\ \E r \in Results :
         \/ EncryptUpdate(h, r) /\ Updates(o, r)
         \/ EncryptFinal(h, r) /\ Finishes(o, r)
         \/ EncryptAbort(h, r) /\ (Aborts(o, r) \/ Drops(o))
    /\ RestStays

Decryptor(o) ==
    LET h == HandleOf(o) IN
    /\ KindOf(o) = "decrypt"
    /\ \E r \in Results :
         \/ DecryptUpdate(h, r) /\ Updates(o, r)
         \/ DecryptFinal(h, r) /\ Finishes(o, r)
         \/ DecryptAbort(h, r) /\ (Aborts(o, r) \/ Drops(o))
    /\ RestStays

Signer(o) ==
    LET h == HandleOf(o) IN
    /\ KindOf(o) = "sign"
    /\ \E r \in Results :
         \/ SignUpdate(h, r) /\ Updates(o, r)
         \/ SignFinal(h, r) /\ Finishes(o, r)
         \/ SignAbort(h, r) /\ (Aborts(o, r) \/ Drops(o))
    /\ RestStays

Verifier(o) ==
    LET h == HandleOf(o) IN
    /\ KindOf(o) = "verify"
    /\ \E r \in Results :
         \/ VerifyUpdate(h, r) /\ Updates(o, r)
         \/ VerifyFinal(h, r) /\ Finishes(o, r)
         \/ VerifyAbort(h, r) /\ (Aborts(o, r) \/ Drops(o))
    /\ RestStays

Digester(o) ==
    LET h == HandleOf(o) IN
    /\ KindOf(o) = "digest"
    /\ \E r \in Results :
         \/ DigestUpdate(h, r) /\ Updates(o, r)
         \/ DigestFinal(h, r) /\ Finishes(o, r)
         \/ DigestAbort(h, r) /\ (Aborts(o, r) \/ Drops(o))
    /\ RestStays

\* Variant: finish goes to the module even when the search is finished, and a guest
\* may well call it once more.
SearchAgain(o) ==
    LET h == HandleOf(o) IN
    /\ KindOf(o) = "search"
    /\ \E r \in Results : FindObjectsFinal(h, r) /\ Clears(o, r)
    /\ Cuts(o, "call") /\ Leaves({})
    /\ UNCHANGED <<given, issues>> /\ RestStays

\* finish does nothing when the search is finished; a drop finishes.
Search(o) ==
    LET h == HandleOf(o) IN
    /\ KindOf(o) = "search"
    /\ \E r \in Results :
         \/ /\ FindObjects(h, r) /\ FailsCall(o)
            /\ Calls(o) /\ Cuts(o, "call") /\ Leaves({})
            /\ UNCHANGED given
         \/ obj[o].stage = "active" /\ FindObjectsFinal(h, r) /\ (Finishes(o, r) \/ Drops(o))
    /\ RestStays

\* An object whose flag is cleared leaves the module alone.
DropCleared(o) ==
    /\ obj[o].stage = "ended"
    /\ obj' = [obj EXCEPT ![o] = FreeObject]
    /\ NoEffect /\ Cuts(o, "call") /\ Leaves({})
    /\ UNCHANGED <<given, issues>> /\ RestStays

-----------------------------------------------------------------------------

SlotManager ==
    \/ \E m \in Modules : Initialize(m)
    \/ Finalize \/ CloseAllSessions
    \/ \E s \in Sessions, h \in Handles : OpenSession(s, h)

Next ==
    \/ SlotManager
    \/ \E s \in Sessions : Session(s)
    \/ \E o \in Objects :
         \/ Encryptor(o) \/ Decryptor(o) \/ Signer(o) \/ Verifier(o) \/ Digester(o)
         \/ Search(o) \/ DropCleared(o)

Spec == Init /\ [][Next]_vars

-----------------------------------------------------------------------------

\* Without a number that is issued while somebody still holds it, a session that its
\* guest has not closed, and that was not ended for everyone, is still the native
\* session that was opened for it: not its second close and drop, nor those of any
\* other guest, nor finalize, close-all or another library take it away.
OwnSession == \A s \in Sessions :
    sess[s].stage = "open" /\ sess[s].handle \notin again => open[sess[s].handle] = s

\* Whatever guests do, and whatever numbers a module issues: the one way to leave an
\* operation without an active object, which refuses every later one of its kind in
\* the session, is that its own object is dropped half way, aborted or ended by a
\* final of no bytes, or a single-part call whose second function is missing.
\* Finals that are answered, failing calls, keys, closes and reloads leave none.
OperationsHaveOwners == \A p \in Places : ops[p] # None =>
    p \in left \/ (ops[p] \in Objects /\ obj[ops[p]].stage = "active")

\* Where nobody called an object after its end or failure, and no operation was cut,
\* at the kind of the same session, and the number is no other guest's:
Undisturbed(p) == p[1] \notin again /\ p \notin misused /\ cut[p] = None

\* a final covers the chunks that its object was told were accepted, keys that the
\* session digests included, no chunk lost, none twice and none of another object,
\* unless a cipher was given a chunk for which there was nothing to put out;
ChunksArrive == \A o \in Objects :
    obj[o].stage = "ended" /\ obj[o].used = "well" /\ Undisturbed(PlaceOf(o)) =>
        given[o] = taken[o]

\* and the first operation to be ended by the object of another one is ended by a
\* verifier that is dropped or aborted after its own has failed: every other late
\* drop or abort, of any kind and after any failure, leaves the module alone.
NobodyElsesOperation == \A p \in Places :
    cut[p] # None /\ p[1] \notin again /\ p \notin misused => p[2] = "verify" /\ cut[p] = "abort"

\* "Automatic cleanup on drop" (libs/pkcs11-wit/API_COVERAGE.md:186): an operation does
\* not outlive its object.
DropsCleanUp == \A p \in Places : ops[p] \in Objects => obj[ops[p]].stage # "free"
=============================================================================
