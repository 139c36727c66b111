----------------------------- MODULE Pkcs11Proofs -----------------------------
(***************************************************************************)
(* Proofs about Pkcs11Sessions, for any number of modules, sessions,       *)
(* handles, objects and chunks, and for numbers that modules issue in any  *)
(* way: sessions stay those of their guests, and operations those of the   *)
(* objects that began them, but for the cases that the properties name.    *)
(***************************************************************************)
EXTENDS Pkcs11Sessions, TLAPS

SessionTypes ==
    /\ open \in [Handles -> Sessions \cup {None}]
    /\ sess \in [Sessions -> {FreeSession} \cup LiveSessions]
    /\ again \subseteq Handles

Held(s) == sess[s].stage # "free"

(***************************************************************************)
(* A number that was not issued while somebody held it has one holder, so  *)
(* that a second close cannot meet a session of somebody else.             *)
(***************************************************************************)
OneHolder == \A s, t \in Sessions :
    /\ Held(s) /\ Held(t) /\ sess[t].handle = sess[s].handle
    /\ sess[s].handle \notin again
    => t = s

SessionInv == SessionTypes /\ OneHolder /\ OwnSession

LEMMA FreeIsFree == FreeSession.stage = "free" /\ FreeObject.stage = "free"
BY DEF FreeSession, FreeObject

LEMMA HeldIsLive ==
    ASSUME SessionTypes, NEW s \in Sessions, Held(s)
    PROVE  sess[s] \in LiveSessions /\ sess[s].handle \in Handles
BY FreeIsFree DEF SessionTypes, Held, LiveSessions

LEMMA SessionInitInv == Init => SessionInv
BY FreeIsFree DEF Init, SessionInv, SessionTypes, OneHolder, OwnSession, Held

LEMMA SessionsStay == SessionInv /\ UNCHANGED <<open, sess, again>> => SessionInv'
BY DEF SessionInv, SessionTypes, OneHolder, OwnSession, Held

(***************************************************************************)
(* Initialize, Finalize and CloseAllSessions: no session stays open.       *)
(***************************************************************************)
LEMMA AllEndKeeps == ASSUME SessionInv, AllSessionsEnd PROVE SessionInv'
<1> DEFINE ended(s) == [sess[s] EXCEPT !.stage = "taken"]
<1>1. SessionTypes /\ OneHolder
  BY DEF SessionInv
<1>2. /\ \A s \in Sessions : sess'[s] = IF sess[s].stage = "open" THEN ended(s) ELSE sess[s]
      /\ again' = again /\ open' = [h \in Handles |-> None]
      /\ sess' \in [Sessions -> {sess'[s] : s \in Sessions}]
  BY DEF AllSessionsEnd, issues
<1>3. \A s \in Sessions : sess[s].stage = "open" =>
          /\ ended(s) \in LiveSessions /\ ended(s).stage = "taken"
          /\ ended(s).handle = sess[s].handle
  BY <1>1, HeldIsLive DEF LiveSessions, Held
<1>4. \A s \in Sessions : /\ sess'[s] \in {FreeSession} \cup LiveSessions
                          /\ sess'[s].stage # "open"
                          /\ sess'[s].stage # "free" => Held(s) /\ sess'[s].handle = sess[s].handle
  <2> HIDE DEF ended
  <2> QED BY <1>1, <1>2, <1>3 DEF SessionTypes, Held
<1>5. SessionTypes'
  BY <1>1, <1>2, <1>4 DEF SessionTypes
<1>6. OneHolder' /\ OwnSession'
  BY <1>1, <1>2, <1>4 DEF OneHolder, OwnSession, Held
<1> QED BY <1>5, <1>6 DEF SessionInv

LEMMA OpenKeeps ==
    ASSUME SessionInv, NEW s \in Sessions, NEW h \in Handles, OpenSession(s, h)
    PROVE  SessionInv'
<1> DEFINE new == [stage |-> "open", handle |-> h]
<1>1. SessionTypes /\ OneHolder /\ OwnSession
  BY DEF SessionInv
<1>2. new \in LiveSessions /\ new.stage = "open" /\ new.handle = h
  BY DEF LiveSessions
<1>3. /\ sess' = [sess EXCEPT ![s] = new] /\ open' = [open EXCEPT ![h] = s]
      /\ again' = IF IsHeld(h) THEN again \cup {h} ELSE again \ {h}
  BY DEF OpenSession, Issues
<1> HIDE DEF new
<1>4. SessionTypes'
  BY <1>1, <1>2, <1>3 DEF SessionTypes
<1>5. /\ \A t \in Sessions : sess'[t] = IF t = s THEN new ELSE sess[t]
      /\ \A i \in Handles : open'[i] = IF i = h THEN s ELSE open[i]
  BY <1>1, <1>3 DEF SessionTypes
<1>6. /\ \A t \in Sessions : sess[t].handle = h => h \in again'
      /\ \A i \in Handles : i # h => (i \in again' <=> i \in again)
  BY <1>3 DEF IsHeld
<1>7. OneHolder'
  <2> SUFFICES ASSUME NEW t \in Sessions, NEW u \in Sessions,
                      sess'[t].stage # "free", sess'[u].stage # "free",
                      sess'[u].handle = sess'[t].handle, sess'[t].handle \notin again'
               PROVE  u = t
    BY DEF OneHolder, Held
  <2>1. t = s <=> u = s
    BY <1>2, <1>5, <1>6
  <2>2. CASE t # s
    <3>1. Held(t) /\ Held(u) /\ sess[u].handle = sess[t].handle /\ sess[t].handle \in Handles
      BY <1>1, <1>5, <2>1, <2>2, HeldIsLive DEF Held
    <3>2. sess[t].handle # h
      BY <1>5, <1>6, <2>2
    <3>3. sess[t].handle \notin again
      BY <1>5, <1>6, <2>2, <3>1, <3>2
    <3> QED BY <1>1, <3>1, <3>3 DEF OneHolder
  <2> QED BY <2>1, <2>2
<1>8. OwnSession'
  BY <1>1, <1>2, <1>5, <1>6, HeldIsLive DEF OwnSession, Held
<1> QED BY <1>4, <1>7, <1>8 DEF SessionInv

(***************************************************************************)
(* A close or a drop of a session, which ends the native session of its    *)
(* number where there is one, and leaves the resource closed or free.      *)
(***************************************************************************)
LEMMA LeftKeeps ==
    ASSUME SessionInv, NEW s \in Sessions, Held(s), NEW rest \in {FreeSession} \cup LiveSessions,
           rest.stage # "open", rest.stage # "free" => rest.handle = sess[s].handle,
           sess' = [sess EXCEPT ![s] = rest], again' = again,
           \/ open' = open
           \/ open' = [open EXCEPT ![sess[s].handle] = None]
    PROVE  SessionInv'
<1>1. SessionTypes /\ OneHolder /\ OwnSession
  BY DEF SessionInv
<1>2. sess[s].handle \in Handles
  BY <1>1, HeldIsLive
<1>3. SessionTypes'
  BY <1>1, <1>2 DEF SessionTypes
<1>4. \A t \in Sessions : sess'[t] = IF t = s THEN rest ELSE sess[t]
  BY <1>1 DEF SessionTypes
<1>5. \A i \in Handles : i # sess[s].handle => open'[i] = open[i]
  BY <1>1 DEF SessionTypes
<1>6. OneHolder'
  BY <1>1, <1>4 DEF OneHolder, Held
<1>7. OwnSession'
  <2> SUFFICES ASSUME NEW t \in Sessions, sess'[t].stage = "open", sess'[t].handle \notin again
               PROVE  open'[sess'[t].handle] = t
    BY DEF OwnSession
  <2>1. t # s /\ sess'[t] = sess[t] /\ Held(t)
    BY <1>4 DEF Held
  <2>2. sess[t].handle \in Handles /\ sess[t].handle # sess[s].handle
    BY <2>1, <1>1, HeldIsLive DEF OneHolder
  <2> QED BY <2>1, <2>2, <1>1, <1>5 DEF OwnSession
<1> QED BY <1>3, <1>6, <1>7 DEF SessionInv

LEMMA CloseKeeps == ASSUME SessionInv, NEW s \in Sessions, Close(s) PROVE SessionInv'
<1> DEFINE rest == [sess[s] EXCEPT !.stage = "closed"]
<1>1. Held(s) /\ SessionTypes /\ again' = again
  BY DEF Close, Held, SessionInv, issues
<1>2. rest \in LiveSessions /\ rest.stage = "closed" /\ rest.handle = sess[s].handle
  BY <1>1, HeldIsLive DEF LiveSessions
<1>3. CASE UNCHANGED <<open, sess>>
  BY <1>1, <1>3, SessionsStay
<1>4. CASE ~UNCHANGED <<open, sess>>
  <2>1. /\ sess' = [sess EXCEPT ![s] = rest]
        /\ open' = [open EXCEPT ![sess[s].handle] = None]
    BY <1>4 DEF Close, NativeClose
  <2> HIDE DEF rest
  <2>2. rest.stage # "open"
    BY <1>2
  <2> QED BY <2>1, <2>2, <1>1, <1>2, LeftKeeps
<1> QED BY <1>3, <1>4

LEMMA DropKeeps == ASSUME SessionInv, NEW s \in Sessions, DropSession(s) PROVE SessionInv'
<1>1. Held(s) /\ sess' = [sess EXCEPT ![s] = FreeSession] /\ again' = again
  BY DEF DropSession, Held, issues
<1>2. open' = open \/ open' = [open EXCEPT ![sess[s].handle] = None]
  BY DEF DropSession, NativeClose
<1> QED BY <1>1, <1>2, FreeIsFree, LeftKeeps

\* What operations do leaves the sessions alone.
LEMMA OperationsLeaveSessions ==
    ASSUME NEW o \in Objects,
           Encryptor(o) \/ Decryptor(o) \/ Signer(o) \/ Verifier(o) \/ Digester(o)
             \/ Search(o) \/ DropCleared(o)
    PROVE  UNCHANGED <<open, sess, again>>
<1>1. UNCHANGED <<open, sess>>
  BY DEF Encryptor, Decryptor, Signer, Verifier, Digester, Search, DropCleared, RestStays, ModuleStays
<1>2. again' = again
  BY DEF Encryptor, Decryptor, Signer, Verifier, Digester, Search, DropCleared,
         Updates, Finishes, Aborts, Drops, Calls, issues
<1> QED BY <1>1, <1>2

LEMMA BeginningsLeaveSessions ==
    ASSUME NEW s \in Sessions,
           \/ \E o \in Objects : SessionBegins(s, o) \/ SessionSearches(s, o)
           \/ SessionOneShots(s) \/ SessionDigestsKey(s)
    PROVE  UNCHANGED <<open, sess, again>>
BY DEF SessionBegins, SessionSearches, SessionOneShots, SessionDigestsKey, Begins, ModuleStays, issues

LEMMA SessionNextKeeps == SessionInv /\ [Next]_vars => SessionInv'
<1> SUFFICES ASSUME SessionInv, [Next]_vars PROVE SessionInv'
  OBVIOUS
<1>1. CASE UNCHANGED vars
  BY <1>1, SessionsStay DEF vars, issues
<1>2. CASE (\E m \in Modules : Initialize(m)) \/ Finalize \/ CloseAllSessions
  BY <1>2, AllEndKeeps DEF Initialize, Finalize, CloseAllSessions
<1>3. ASSUME NEW s \in Sessions, NEW h \in Handles, OpenSession(s, h) PROVE SessionInv'
  BY <1>3, OpenKeeps
<1>4. ASSUME NEW s \in Sessions, Session(s) PROVE SessionInv'
  BY <1>4, CloseKeeps, DropKeeps, BeginningsLeaveSessions, SessionsStay DEF Session
<1>5. ASSUME NEW o \in Objects,
             Encryptor(o) \/ Decryptor(o) \/ Signer(o) \/ Verifier(o) \/ Digester(o)
               \/ Search(o) \/ DropCleared(o)
      PROVE  SessionInv'
  BY <1>5, OperationsLeaveSessions, SessionsStay
<1> QED BY <1>1, <1>2, <1>3, <1>4, <1>5 DEF Next, SlotManager

(***************************************************************************)
(* A session that its guest has not closed is still the native session     *)
(* that was opened for it, unless its number was issued again while        *)
(* something held it: closing twice, dropping after a close, reloading the *)
(* module and ending all sessions take no other session from a guest       *)
(* (SessionInner).                                                         *)
(***************************************************************************)
THEOREM SessionsAreOwn == Spec => []OwnSession
<1>1. Init => SessionInv
  BY SessionInitInv
<1>2. SessionInv /\ [Next]_vars => SessionInv'
  BY SessionNextKeeps
<1>3. SessionInv => OwnSession
  BY DEF SessionInv
<1> QED BY <1>1, <1>2, <1>3, PTL DEF Spec

-----------------------------------------------------------------------------

OpsTypes ==
    /\ ops \in [Places -> Objects \cup {Nobody, None}]
    /\ obj \in [Objects -> {FreeObject} \cup LiveObjects]
    /\ given \in [Objects -> Nat] /\ taken \in [Objects -> Nat]
    /\ cut \in [Places -> {None, "call", "abort"}]

Place(c) == <<c.handle, c.kind>>

(***************************************************************************)
(* The operation at p is one of a session that the module has.  The object *)
(* that began it is there and active, unless it left the operation behind. *)
(***************************************************************************)
OwnedAt(p) == ops[p] # None =>
    /\ Known(p[1])
    /\ ops[p] \in Objects /\ obj[ops[p]].stage # "free" => Place(obj[ops[p]]) = p
    /\ p \in left \/ (ops[p] \in Objects /\ obj[ops[p]].stage = "active")
Owned == \A p \in Places : OwnedAt(p)

\* An object that is active still has the operation it began, unless a call of it has
\* failed, its session is gone or its place was disturbed.
Expects(c) == c.stage = "active" /\ (c.used # "failed" \/ c.kind = "search")
HasInHand(o) == Expects(obj[o]) /\ Known(obj[o].handle) /\ Undisturbed(Place(obj[o])) =>
    ops[Place(obj[o])] = o
InHand == \A o \in Objects : HasInHand(o)

\* What such an object was given has arrived.
Counts(c) == c.stage # "free" /\ c.used = "well"
IsInStep(o) == Counts(obj[o]) /\ Undisturbed(Place(obj[o])) => given[o] = taken[o]
InStep == \A o \in Objects : IsInStep(o)

CutAt(p) == cut[p] # None /\ p[1] \notin again /\ p \notin misused =>
    p[2] = "verify" /\ cut[p] = "abort"
Cutting == \A p \in Places : CutAt(p)

WellServed == OpsTypes /\ Owned /\ InHand /\ InStep /\ Cutting

OpsInv == SessionInv /\ WellServed

\* A place that the step leaves undisturbed.
Calm(p) == p[1] \notin again' /\ p \notin misused' /\ cut'[p] = None

LEMMA NoneIsNobody ==
    /\ None \notin Objects /\ None # Nobody /\ Nobody \notin Objects
    /\ None \notin KindNames /\ Kinds \subseteq KindNames /\ None \notin Handles
    /\ None \notin Sessions /\ None \notin {"call", "abort"}
BY Pkcs11Assumption

LEMMA OpsInit == Init => WellServed
<1> SUFFICES ASSUME Init PROVE WellServed
  OBVIOUS
<1>1. OpsTypes
  BY DEF Init, OpsTypes
<1>2. Owned /\ InHand /\ InStep /\ Cutting
  BY FreeIsFree DEF Init, Owned, OwnedAt, InHand, HasInHand, InStep, IsInStep, Expects, Counts,
                    Cutting, CutAt
<1> QED BY <1>1, <1>2 DEF WellServed

\* An object has a place when it is not free.
LEMMA LiveObject ==
    ASSUME OpsTypes, NEW o \in Objects
    PROVE  /\ obj[o].kind \in KindNames \/ obj[o].stage # "free" => obj[o] \in LiveObjects
           /\ obj[o] \in LiveObjects => obj[o].stage # "free" /\ Place(obj[o]) \in Places
BY NoneIsNobody DEF OpsTypes, FreeObject, LiveObjects, Place, Places

\* What an object whose operation is over becomes.
LEMMA StageEnds ==
    ASSUME NEW c \in LiveObjects, NEW d, d = [c EXCEPT !.stage = "ended"]
    PROVE  /\ d \in LiveObjects /\ d.stage = "ended" /\ Place(d) = Place(c)
           /\ d.used = c.used
BY DEF LiveObjects, Place

(***************************************************************************)
(* A step that is about one object o and one place q has to answer for o   *)
(* and q, and for what it does to the operation of another object at q.    *)
(***************************************************************************)
LEMMA OneObject ==
    ASSUME WellServed, OpsTypes', UNCHANGED <<up, open, again>>,
           NEW o \in Objects, NEW q \in Places,
           \A x \in Objects \ {o} : obj'[x] = obj[x] /\ given'[x] = given[x],
           \A x \in Objects \ {o} : taken'[x] # taken[x] => x = ops[q] /\ ~Calm(q),
           obj[o].stage # "free" => Place(obj[o]) = q,
           obj[o].stage = "free" => \A p \in Places : ops[p] # o,
           obj'[o].stage # "free" => Place(obj'[o]) = q,
           \A p \in Places \ {q} : /\ ops'[p] = ops[p] /\ cut'[p] = cut[p]
                                   /\ p \in misused' <=> p \in misused
                                   /\ p \in left /\ ops'[p] # None => p \in left',
           misused \subseteq misused', cut[q] # None => cut'[q] = cut[q],
           ops'[q] \in {ops[q], None, o},
           q \in left /\ ops'[q] # None => q \in left',
           ops[q] \in Objects \ {o} /\ ops'[q] # ops[q] => cut'[q] # None,
           cut'[q] # cut[q] => CutAt(q)',
           ops'[q] = o => Known(q[1]) /\ (obj'[o].stage = "active" \/ q \in left'),
           Expects(obj'[o]) /\ Known(q[1]) /\ Calm(q) => ops'[q] = o,
           Counts(obj'[o]) /\ Calm(q) => given'[o] = taken'[o]
    PROVE  WellServed'
<1>1. OpsTypes /\ Owned /\ InHand /\ InStep /\ Cutting
  BY DEF WellServed
<1>2. /\ \A h : Known(h)' <=> Known(h)
      /\ \A p \in Places : Calm(p) => Undisturbed(p)
  BY DEF Known, Undisturbed, Calm
<1>3. ASSUME NEW p \in Places PROVE OwnedAt(p)'
  <2> SUFFICES ASSUME ops'[p] # None
               PROVE  /\ Known(p[1])
                      /\ ops'[p] \in Objects /\ obj'[ops'[p]].stage # "free" =>
                           Place(obj'[ops'[p]]) = p
                      /\ p \in left' \/ (ops'[p] \in Objects /\ obj'[ops'[p]].stage = "active")
    BY <1>2 DEF OwnedAt, Place
  <2>1. CASE p = q /\ ops'[p] = o
    BY <2>1
  <2>2. CASE p # q /\ ops'[p] = o
    <3>1. ops[p] = o /\ OwnedAt(p)
      BY <1>1, <2>2 DEF Owned
    <3>2. FALSE \/ (Place(obj[o]) = q /\ Place(obj[o]) = p)
      BY <2>2, <3>1 DEF OwnedAt
    <3> QED BY <2>2, <3>2
  <2>3. CASE ops'[p] # o
    <3>1. ops'[p] = ops[p] /\ OwnedAt(p)
      BY <1>1, <2>3 DEF Owned
    <3>2. ops[p] \in Objects => obj'[ops[p]] = obj[ops[p]]
      BY <2>3, <3>1
    <3>3. p \in left => p \in left'
      BY <3>1
    <3> QED BY <3>1, <3>2, <3>3 DEF OwnedAt
  <2> QED BY <2>1, <2>2, <2>3
<1>4. ASSUME NEW x \in Objects PROVE HasInHand(x)'
  <2>1. CASE x = o
    <3> SUFFICES ASSUME Expects(obj'[o]), Known(obj'[o].handle), Calm(Place(obj'[o]))
                 PROVE  ops'[Place(obj'[o])] = o
      BY <2>1 DEF HasInHand, Known, Undisturbed, Calm
    <3>1. Place(obj'[o]) = q
      BY DEF Expects
    <3>2. q[1] = obj'[o].handle
      BY <3>1 DEF Place
    <3>3. Calm(q)
      BY <3>1
    <3> QED BY <3>1, <3>2, <3>3
  <2>2. CASE x # o
    <3> SUFFICES ASSUME Expects(obj[x]), Known(obj[x].handle), Calm(Place(obj[x]))
                 PROVE  ops'[Place(obj[x])] = x
      BY <2>2 DEF HasInHand, Known, Undisturbed, Calm
    <3> PICK p \in Places : p = Place(obj[x])
      BY <1>1, LiveObject DEF Expects
    <3>1. Calm(p)
      OBVIOUS
    <3>2. ops[p] = x
      BY <1>1, <1>2, <3>1 DEF InHand, HasInHand
    <3>3. p = q => cut'[p] = None
      BY <3>1 DEF Calm
    <3> QED BY <2>2, <3>2, <3>3
  <2> QED BY <2>1, <2>2
<1>5. ASSUME NEW x \in Objects PROVE IsInStep(x)'
  <2>1. CASE x = o
    <3> SUFFICES ASSUME Counts(obj'[o]), Calm(Place(obj'[o])) PROVE given'[o] = taken'[o]
      BY <2>1 DEF IsInStep, Undisturbed, Calm
    <3>1. Place(obj'[o]) = q
      BY DEF Counts
    <3>2. Calm(q)
      BY <3>1
    <3> QED BY <3>2
  <2>2. CASE x # o
    <3> SUFFICES ASSUME Counts(obj[x]), Calm(Place(obj[x])) PROVE given[x] = taken'[x]
      BY <2>2 DEF IsInStep, Undisturbed, Calm
    <3> PICK p \in Places : p = Place(obj[x])
      BY <1>1, LiveObject DEF Counts
    <3>1. Calm(p)
      OBVIOUS
    <3>2. given[x] = taken[x]
      BY <1>1, <1>2, <3>1 DEF InStep, IsInStep
    <3>3. ops[q] = x => p = q
      BY <1>1, NoneIsNobody DEF Owned, OwnedAt, Counts
    <3> QED BY <2>2, <3>1, <3>2, <3>3
  <2> QED BY <2>1, <2>2
<1>6. ASSUME NEW p \in Places PROVE CutAt(p)'
  <2>1. CASE cut'[p] = cut[p]
    <3>1. CutAt(p) /\ (p \in misused => p \in misused')
      BY <1>1 DEF Cutting
    <3> QED BY <2>1, <3>1 DEF CutAt
  <2>2. CASE cut'[p] # cut[p]
    BY <2>2
  <2> QED BY <2>1, <2>2
<1> QED BY <1>3, <1>4, <1>5, <1>6 DEF WellServed, Owned, InHand, InStep, Cutting

\* The module gives a chunk to whatever object has the operation at q.
Takes(q) ==
    /\ Known(q[1]) /\ ops[q] # None /\ ops' = ops
    /\ taken' = [x \in Objects |-> IF x = ops[q] THEN taken[x] + 1 ELSE taken[x]]

(***************************************************************************)
(* A call of an object.  An object that still expects its operation meets  *)
(* its own in the module, or no other one: what happens to the operation   *)
(* of somebody else happens at a place that is disturbed.                  *)
(***************************************************************************)
LEMMA ObjectCalls ==
    ASSUME WellServed, UNCHANGED <<up, open, again>>,
           NEW o \in Objects, NEW q \in Places, obj[o] \in LiveObjects, q = Place(obj[o]),
           NEW how \in {"call", "abort"}, Cuts(o, how),
           NEW P, Leaves(P),
           NEW c \in {FreeObject} \cup LiveObjects, obj' = [obj EXCEPT ![o] = c],
           c.stage # "free" => Place(c) = q,
           given' \in [Objects -> Nat], \A x \in Objects \ {o} : given'[x] = given[x],
           misused \subseteq misused', misused' \subseteq misused \cup {q},
           ops' = ops \/ ops' = [ops EXCEPT ![q] = None],
           ops' # ops => \/ Expects(obj[o]) \/ q \in misused'
                         \/ how = "abort" /\ q[2] = "verify",
           taken' = taken \/ (Takes(q) /\ (Expects(obj[o]) \/ q \in misused')),
           obj[o].stage = "active" /\ c.stage # "active" /\ ops'[q] = o => q \in P,
           Expects(c) => Expects(obj[o]) /\ ops' = ops,
           Counts(c) => /\ Counts(obj[o])
                        /\ \/ given'[o] = given[o] /\ taken' = taken
                           \/ /\ given'[o] = given[o] + 1 /\ Takes(q)
                              /\ Expects(obj[o]) \/ q \in misused'
    PROVE  WellServed'
<1>1. OpsTypes /\ Owned /\ InHand /\ InStep /\ Cutting
  BY DEF WellServed
<1>2. obj[o].stage # "free" /\ OwnedAt(q) /\ HasInHand(o) /\ IsInStep(o)
  BY <1>1, LiveObject DEF Owned, InHand, InStep
<1>3. q[1] = obj[o].handle
  BY DEF Place
<1>4. \A p \in Places : cut'[p] =
         IF cut[p] = None /\ ops'[p] # ops[p] /\ ops[p] \in Objects \ {o} THEN how ELSE cut[p]
  BY DEF Cuts
<1>5. \A p \in Places : ops'[p] = IF p = q THEN ops'[q] ELSE ops[p]
  BY <1>1 DEF OpsTypes
<1>6. ops'[q] \in {ops[q], None}
  BY <1>1 DEF OpsTypes
<1>7. Calm(q) => Undisturbed(q)
  BY <1>4 DEF Calm, Undisturbed
<1>8. Expects(obj[o]) /\ ops[q] # None /\ Undisturbed(q) => ops[q] = o
  BY <1>2, <1>3 DEF HasInHand, OwnedAt
<1>9. /\ \A p \in Places : p \in left /\ ops'[p] # None => p \in left'
      /\ ops'[q] # None /\ q \in P => q \in left'
  BY DEF Leaves
<1>10. OpsTypes'
  <2>1. ops' \in [Places -> Objects \cup {Nobody, None}] /\ obj' \in [Objects -> {FreeObject} \cup LiveObjects]
    BY <1>1 DEF OpsTypes
  <2>2. cut' \in [Places -> {None, "call", "abort"}]
    BY <1>1 DEF OpsTypes, Cuts
  <2>3. taken' \in [Objects -> Nat]
    BY <1>1 DEF OpsTypes, Takes
  <2> QED BY <2>1, <2>2, <2>3 DEF OpsTypes
<1>11. ASSUME NEW x \in Objects \ {o}
       PROVE  /\ obj'[x] = obj[x]
              /\ taken'[x] # taken[x] => x = ops[q] /\ ~Calm(q)
  <2>1. obj'[x] = obj[x]
    BY <1>1 DEF OpsTypes
  <2>2. ASSUME taken'[x] # taken[x] PROVE x = ops[q] /\ ~Calm(q)
    <3>1. Takes(q) /\ x = ops[q] /\ (Expects(obj[o]) \/ q \in misused')
      BY <2>2 DEF Takes
    <3> QED BY <3>1, <1>7, <1>8, NoneIsNobody DEF Calm
  <2> QED BY <2>1, <2>2
<1>12. obj'[o] = c
  BY <1>1 DEF OpsTypes
<1>13. ops[q] \in Objects \ {o} /\ ops'[q] # ops[q] => cut'[q] # None
  BY <1>4, NoneIsNobody
<1>14. ASSUME cut'[q] # cut[q] PROVE CutAt(q)'
  <2>1. cut[q] = None /\ ops'[q] # ops[q] /\ ops[q] \in Objects \ {o} /\ cut'[q] = how
    BY <1>4, <1>14
  <2>2. ops[q] # None /\ ops' # ops
    BY <2>1, NoneIsNobody
  <2>3. ASSUME q[1] \notin again, q \notin misused' PROVE q[2] = "verify" /\ how = "abort"
    <3>1. Undisturbed(q)
      BY <2>1, <2>3 DEF Undisturbed
    <3> QED BY <2>1, <2>2, <2>3, <3>1, <1>8
  <2> QED BY <2>1, <2>3 DEF CutAt
<1>15. ASSUME ops'[q] = o PROVE Known(q[1]) /\ (c.stage = "active" \/ q \in left')
  <2>1. ops[q] = o /\ o # None
    BY <1>6, <1>15, NoneIsNobody
  <2>2. Known(q[1]) /\ (q \in left \/ obj[o].stage = "active")
    BY <1>2, <2>1 DEF OwnedAt
  <2> QED BY <2>1, <2>2, <1>9, <1>15
<1>16. ASSUME Expects(c), Known(q[1]), Calm(q) PROVE ops'[q] = o
  BY <1>2, <1>3, <1>7, <1>16 DEF HasInHand
<1>17. ASSUME Counts(c), Calm(q) PROVE given'[o] = taken'[o]
  <2>1. given[o] = taken[o]
    BY <1>2, <1>7, <1>17 DEF IsInStep
  <2>2. CASE given'[o] = given[o] /\ taken' = taken
    BY <2>1, <2>2
  <2>3. CASE given'[o] = given[o] + 1 /\ Takes(q) /\ (Expects(obj[o]) \/ q \in misused')
    <3>1. ops[q] = o
      BY <2>3, <1>7, <1>8, <1>17 DEF Takes, Calm
    <3> QED BY <2>1, <2>3, <3>1 DEF Takes
  <2> QED BY <2>2, <2>3, <1>17
<1> HIDE DEF Calm
<1> QED BY <1>1, <1>2, <1>4, <1>5, <1>6, <1>9, <1>10, <1>11, <1>12, <1>13, <1>14, <1>15, <1>16,
           <1>17, OneObject

LEMMA Called ==
    ASSUME OpsTypes, NEW o \in Objects, obj[o].kind \in KindNames
    PROVE  /\ obj[o] \in LiveObjects
           /\ PlaceOf(o) = Place(obj[o]) /\ PlaceOf(o) \in Places
           /\ PlaceOf(o) = <<HandleOf(o), KindOf(o)>>
           /\ PlaceOf(o)[1] = HandleOf(o) /\ PlaceOf(o)[2] = KindOf(o)
BY LiveObject DEF PlaceOf, Place, HandleOf, KindOf

LEMMA CallsCount ==
    ASSUME NEW o \in Objects, Calls(o), obj[o].stage # "free"
    PROVE  /\ again' = again /\ misused \subseteq misused'
           /\ misused' \subseteq misused \cup {PlaceOf(o)}
           /\ Expects(obj[o]) \/ PlaceOf(o) \in misused'
BY DEF Calls, Expects, KindOf

LEMMA UpdateKeeps ==
    ASSUME WellServed, NEW o \in Objects, NEW k \in KindNames \ {"search"}, KindOf(o) = k,
           NEW r \in Results, RestStays, Updates(o, r),
           C_Take(HandleOf(o), k, r) \/ C_Ask(HandleOf(o), k, r) \/ C_Fail(HandleOf(o), k, r)
    PROVE  WellServed'
<1>1. OpsTypes /\ KindOf(o) \in KindNames
  BY DEF WellServed
<1>2. PICK q \in Places : q = PlaceOf(o)
  BY <1>1, Called DEF KindOf
<1>3. /\ obj[o] \in LiveObjects /\ q = Place(obj[o]) /\ obj[o].stage # "free"
      /\ q[1] = HandleOf(o) /\ q = <<HandleOf(o), k>>
  BY <1>1, <1>2, Called, LiveObject DEF KindOf
<1>4. /\ UNCHANGED <<up, open, again>>
      /\ misused \subseteq misused' /\ misused' \subseteq misused \cup {q}
      /\ Expects(obj[o]) \/ q \in misused'
      /\ Cuts(o, "call") /\ Leaves({})
  BY <1>2, <1>3, CallsCount DEF RestStays, ModuleStays, Updates
<1>5. PICK c : c = obj'[o]
  OBVIOUS
<1>6. PICK u : u = IF r = "error" THEN "failed"
                    ELSE IF r = "asked" /\ obj[o].used = "well" THEN "silent" ELSE obj[o].used
  OBVIOUS
<1>7. u \in {"well", "silent", "failed"}
  BY <1>3, <1>6 DEF LiveObjects
<1>8. c = [obj[o] EXCEPT !.used = u] /\ obj' = [obj EXCEPT ![o].used = u]
  BY <1>1, <1>5, <1>6 DEF Updates, FailsCall, OpsTypes
<1>9. /\ c \in LiveObjects /\ Place(c) = q /\ c.used = u
      /\ c.stage = obj[o].stage /\ c.kind = obj[o].kind /\ obj[o].kind = k
      /\ obj' = [obj EXCEPT ![o] = c]
  BY <1>3, <1>7, <1>8 DEF LiveObjects, Place, KindOf
<1>10. /\ given' \in [Objects -> Nat] /\ \A x \in Objects \ {o} : given'[x] = given[x]
       /\ r # "error" => given'[o] = given[o] + 1
  BY <1>1 DEF Updates, OpsTypes
<1>11. \/ r = "done" /\ ops' = ops /\ Takes(q)
       \/ r \in {"asked", "error"} /\ ops' = ops /\ taken' = taken
       \/ r = "error" /\ ops' = [ops EXCEPT ![q] = None] /\ taken' = taken
  BY <1>3 DEF C_Take, C_Ask, C_Fail, C_Finish, NoEffect, Takes, Active
<1>12. /\ ops' = ops \/ ops' = [ops EXCEPT ![q] = None]
       /\ taken' = taken \/ (Takes(q) /\ (Expects(obj[o]) \/ q \in misused'))
       /\ ops' # ops => Expects(obj[o]) \/ q \in misused'
  BY <1>4, <1>11
<1>13. Expects(c) => Expects(obj[o]) /\ ops' = ops
  BY <1>6, <1>9, <1>11 DEF Expects
<1>14. Counts(c) => /\ Counts(obj[o]) /\ given'[o] = given[o] + 1 /\ Takes(q)
                    /\ Expects(obj[o]) \/ q \in misused'
  BY <1>4, <1>6, <1>9, <1>10, <1>11 DEF Counts
<1>15. /\ c \in {FreeObject} \cup LiveObjects /\ c.stage # "free" => Place(c) = q
       /\ ~(obj[o].stage = "active" /\ c.stage # "active")
  BY <1>9
<1>16. PICK P : Leaves(P)
  BY <1>4
<1> QED BY <1>3, <1>4, <1>9, <1>10, <1>12, <1>13, <1>14, <1>15, <1>16, ObjectCalls

LEMMA FinishKeeps ==
    ASSUME WellServed, NEW o \in Objects, NEW k \in KindNames, KindOf(o) = k,
           NEW r \in Results, RestStays, Finishes(o, r),
           k = "search" => obj[o].stage = "active",
           \/ C_End(HandleOf(o), k, r)
           \/ k # "search" /\ (C_Ask(HandleOf(o), k, r) \/ C_Fail(HandleOf(o), k, r))
           \/ r \in {"short", "error"} /\ NoEffect
    PROVE  WellServed'
<1>1. OpsTypes /\ KindOf(o) \in KindNames
  BY DEF WellServed
<1>2. PICK q \in Places : q = PlaceOf(o)
  BY <1>1, Called DEF KindOf
<1>3. /\ obj[o] \in LiveObjects /\ q = Place(obj[o]) /\ obj[o].stage # "free"
      /\ q[1] = HandleOf(o) /\ q = <<HandleOf(o), k>>
  BY <1>1, <1>2, Called, LiveObject DEF KindOf
<1>4. /\ UNCHANGED <<up, open, again>>
      /\ misused \subseteq misused' /\ misused' \subseteq misused \cup {q}
      /\ Expects(obj[o]) \/ q \in misused'
      /\ Cuts(o, "call") /\ given' = given
  BY <1>2, <1>3, CallsCount DEF RestStays, ModuleStays, Finishes
<1>5. PICK c : c = obj'[o]
  OBVIOUS
<1>6. /\ c \in LiveObjects /\ obj' = [obj EXCEPT ![o] = c] /\ Place(c) = q
      /\ obj[o].kind = k
      /\ \/ r = "short" /\ c = obj[o]
         \/ r \in {"done", "asked"} /\ c.stage = "ended" /\ c.used = obj[o].used
         \/ r = "error" /\ c.used = "failed" /\ c.stage = obj[o].stage /\ c.kind = k
  <2>1. \/ c = obj[o] /\ r = "short" /\ obj' = obj
        \/ r = "error" /\ c = [obj[o] EXCEPT !.used = "failed"]
           /\ obj' = [obj EXCEPT ![o].used = "failed"]
        \/ r \in {"done", "asked"} /\ c = [obj[o] EXCEPT !.stage = "ended"]
           /\ obj' = [obj EXCEPT ![o].stage = "ended"]
    BY <1>1, <1>5 DEF Finishes, Clears, FailsCall, OpsTypes, Results
  <2>2. CASE c = obj[o] /\ r = "short" /\ obj' = obj
    BY <2>2, <1>1, <1>3 DEF OpsTypes, KindOf
  <2>3. CASE r = "error" /\ c = [obj[o] EXCEPT !.used = "failed"]
             /\ obj' = [obj EXCEPT ![o].used = "failed"]
    BY <2>3, <1>3 DEF LiveObjects, Place, KindOf
  <2>4. CASE r \in {"done", "asked"} /\ c = [obj[o] EXCEPT !.stage = "ended"]
             /\ obj' = [obj EXCEPT ![o].stage = "ended"]
    BY <2>4, <1>3, StageEnds DEF KindOf
  <2> QED BY <2>1, <2>2, <2>3, <2>4
<1>7. /\ \/ ops' = ops
         \/ ops' = [ops EXCEPT ![q] = None] /\ (r = "done" \/ k # "search") /\ r \in {"done", "error"}
      /\ taken' = taken
      /\ r = "done" => ops' = [ops EXCEPT ![q] = None]
  BY <1>3 DEF C_End, C_Ask, C_Fail, C_Finish, NoEffect
<1>8. PICK P : Leaves(P) /\ (r = "asked" => P = Behind(o))
  BY DEF Finishes
<1>9. obj[o].stage = "active" /\ c.stage # "active" /\ ops'[q] = o => q \in P
  BY <1>1, <1>2, <1>6, <1>7, <1>8, NoneIsNobody DEF Behind, OpsTypes
<1>10. /\ Expects(c) => Expects(obj[o]) /\ ops' = ops
       /\ Counts(c) => Counts(obj[o])
  BY <1>3, <1>6, <1>7 DEF Expects, Counts
<1> QED BY <1>1, <1>3, <1>4, <1>6, <1>7, <1>8, <1>9, <1>10, ObjectCalls DEF OpsTypes

\* What an abort, explicit or by a drop, may do to the module.
EndsAt(q) == ops' = [ops EXCEPT ![q] = None] /\ taken' = taken

LEMMA AbortKeeps ==
    ASSUME WellServed, NEW o \in Objects, NEW k \in KindNames \ {"search"}, KindOf(o) = k,
           NEW r \in {"asked", "error"}, RestStays, Aborts(o, r),
           \/ NoEffect
           \/ k = "verify" /\ r = "error" /\ EndsAt(PlaceOf(o))
    PROVE  WellServed'
<1>1. OpsTypes /\ KindOf(o) \in KindNames
  BY DEF WellServed
<1>2. PICK q \in Places : q = PlaceOf(o)
  BY <1>1, Called DEF KindOf
<1>3. /\ obj[o] \in LiveObjects /\ q = Place(obj[o]) /\ obj[o].stage # "free"
      /\ q[2] = k /\ obj[o].kind = k
  BY <1>1, <1>2, Called, LiveObject DEF KindOf
<1>4. /\ UNCHANGED <<up, open, again>> /\ misused' = misused
      /\ Cuts(o, "abort") /\ given' = given
  BY DEF RestStays, ModuleStays, Aborts, issues
<1>5. PICK c : c = obj'[o]
  OBVIOUS
<1>6. /\ c \in LiveObjects /\ obj' = [obj EXCEPT ![o] = c] /\ Place(c) = q
      /\ \/ r = "asked" /\ c.stage = "ended" /\ c.used = obj[o].used
         \/ r = "error" /\ c.used = "failed" /\ c.stage = obj[o].stage /\ c.kind = k
  <2>1. CASE r = "asked"
    <3>1. c = [obj[o] EXCEPT !.stage = "ended"] /\ obj' = [obj EXCEPT ![o].stage = "ended"]
      BY <1>1, <1>5, <2>1 DEF Aborts, Clears, OpsTypes
    <3> QED BY <2>1, <3>1, <1>3, StageEnds
  <2>2. CASE r = "error"
    <3>1. c = [obj[o] EXCEPT !.used = "failed"] /\ obj' = [obj EXCEPT ![o].used = "failed"]
      BY <1>1, <1>5, <2>2 DEF Aborts, Clears, FailsCall, OpsTypes
    <3> QED BY <2>2, <3>1, <1>3 DEF LiveObjects, Place
  <2> QED BY <2>1, <2>2
<1>7. /\ ops' = ops \/ ops' = [ops EXCEPT ![q] = None]
      /\ ops' # ops => q[2] = "verify"
      /\ r = "asked" => ops' = ops
      /\ taken' = taken
  BY <1>2, <1>3 DEF NoEffect, EndsAt
<1>8. PICK P : Leaves(P) /\ (r = "asked" => P = Behind(o))
  BY DEF Aborts
<1>9. obj[o].stage = "active" /\ c.stage # "active" /\ ops'[q] = o => q \in P
  BY <1>2, <1>6, <1>8 DEF Behind
<1>10. /\ Expects(c) => Expects(obj[o]) /\ ops' = ops
       /\ Counts(c) => Counts(obj[o])
  BY <1>3, <1>6, <1>7 DEF Expects, Counts
<1> QED BY <1>1, <1>3, <1>4, <1>6, <1>7, <1>8, <1>9, <1>10, ObjectCalls DEF OpsTypes

\* A drop.  Only that of a verifier, or one that expects its operation, ends anything.
LEMMA DropsKeep ==
    ASSUME WellServed, NEW o \in Objects, KindOf(o) \in KindNames, RestStays, Drops(o),
           \/ NoEffect
           \/ EndsAt(PlaceOf(o)) /\ (KindOf(o) = "verify" \/ Expects(obj[o]))
    PROVE  WellServed'
<1>1. OpsTypes
  BY DEF WellServed
<1>2. PICK q \in Places : q = PlaceOf(o)
  BY <1>1, Called DEF KindOf
<1>3. /\ obj[o] \in LiveObjects /\ q = Place(obj[o])
      /\ q[2] = KindOf(o)
  BY <1>1, <1>2, Called DEF KindOf
<1>4. /\ UNCHANGED <<up, open, again>> /\ misused' = misused
      /\ Cuts(o, "abort") /\ given' = given /\ Leaves(Behind(o))
      /\ obj' = [obj EXCEPT ![o] = FreeObject]
  BY DEF RestStays, ModuleStays, Drops, issues
<1>5. /\ ops' = ops \/ ops' = [ops EXCEPT ![q] = None]
      /\ ops' # ops => Expects(obj[o]) \/ q[2] = "verify"
      /\ taken' = taken
  BY <1>2, <1>3 DEF NoEffect, EndsAt
<1>6. PICK P : Leaves(P) /\ P = Behind(o)
  BY <1>4
<1>7. ops'[q] = o => q \in P
  BY <1>2, <1>6 DEF Behind
<1>8. ~Expects(FreeObject) /\ ~Counts(FreeObject) /\ FreeObject.stage = "free"
  BY FreeIsFree DEF Expects, Counts
<1> QED BY <1>1, <1>3, <1>4, <1>5, <1>6, <1>7, <1>8, ObjectCalls DEF OpsTypes

\* next fails: the object stays as it was, but for having failed.
LEMMA NextKeeps ==
    ASSUME WellServed, NEW o \in Objects, KindOf(o) = "search", RestStays,
           NoEffect, FailsCall(o), Calls(o), Cuts(o, "call"), Leaves({}), given' = given
    PROVE  WellServed'
<1>1. OpsTypes /\ KindOf(o) \in KindNames
  BY DEF WellServed, KindNames
<1>2. PICK q \in Places : q = PlaceOf(o)
  BY <1>1, Called DEF KindOf
<1>3. /\ obj[o] \in LiveObjects /\ q = Place(obj[o]) /\ obj[o].stage # "free"
      /\ obj[o].kind = "search"
  BY <1>1, <1>2, Called, LiveObject DEF KindOf
<1>4. /\ UNCHANGED <<up, open, again>>
      /\ misused \subseteq misused' /\ misused' \subseteq misused \cup {q}
      /\ ops' = ops /\ taken' = taken
  BY <1>2, <1>3, CallsCount DEF RestStays, ModuleStays, NoEffect
<1>5. PICK c : c = [obj[o] EXCEPT !.used = "failed"]
  OBVIOUS
<1>6. /\ obj' = [obj EXCEPT ![o] = c] /\ c \in LiveObjects /\ Place(c) = q
      /\ c.stage = obj[o].stage /\ c.kind = "search" /\ c.used = "failed"
  BY <1>3, <1>5 DEF LiveObjects, Place, FailsCall
<1>7. (Expects(c) => Expects(obj[o])) /\ ~Counts(c)
  BY <1>3, <1>6 DEF Expects, Counts
<1>8. PICK P : Leaves(P)
  OBVIOUS
<1> QED BY <1>1, <1>3, <1>4, <1>6, <1>7, <1>8, ObjectCalls DEF OpsTypes

LEMMA ClearedKeeps ==
    ASSUME WellServed, NEW o \in Objects, DropCleared(o) PROVE WellServed'
<1>1. OpsTypes /\ obj[o].stage # "free" /\ obj[o] \in LiveObjects
  BY LiveObject, FreeIsFree DEF WellServed, OpsTypes, DropCleared
<1>2. PICK q \in Places : q = Place(obj[o])
  BY <1>1, LiveObject
<1>3. /\ UNCHANGED <<up, open, again>> /\ misused' = misused
      /\ Cuts(o, "call") /\ given' = given /\ Leaves({}) /\ ops' = ops /\ taken' = taken
      /\ obj' = [obj EXCEPT ![o] = FreeObject] /\ obj[o].stage # "active"
  BY DEF RestStays, ModuleStays, DropCleared, issues, NoEffect
<1>4. ~Expects(FreeObject) /\ ~Counts(FreeObject) /\ FreeObject.stage = "free"
  BY FreeIsFree DEF Expects, Counts
<1>5. PICK P : Leaves(P)
  BY <1>3
<1> QED BY <1>1, <1>2, <1>3, <1>4, <1>5, ObjectCalls DEF OpsTypes

LEMMA CipherKeeps ==
    ASSUME WellServed, NEW o \in Objects, Encryptor(o) \/ Decryptor(o) PROVE WellServed'
<1>1. PICK k \in {"encrypt", "decrypt"} :
         /\ KindOf(o) = k /\ RestStays
         /\ \E r \in Results :
              \/ CipherUpdate(HandleOf(o), k, r) /\ Updates(o, r)
              \/ CipherFinal(HandleOf(o), k, r) /\ Finishes(o, r)
              \/ C_Ask(HandleOf(o), k, r) /\ (Aborts(o, r) \/ Drops(o))
  BY DEF Encryptor, Decryptor, EncryptUpdate, DecryptUpdate, EncryptFinal, DecryptFinal,
         EncryptAbort, DecryptAbort
<1>2. k \in KindNames \ {"search"}
  BY <1>1 DEF KindNames
<1>3. PICK r \in Results :
         \/ CipherUpdate(HandleOf(o), k, r) /\ Updates(o, r)
         \/ CipherFinal(HandleOf(o), k, r) /\ Finishes(o, r)
         \/ C_Ask(HandleOf(o), k, r) /\ (Aborts(o, r) \/ Drops(o))
  BY <1>1
<1>4. CASE CipherUpdate(HandleOf(o), k, r) /\ Updates(o, r)
  BY <1>1, <1>2, <1>4, UpdateKeeps DEF CipherUpdate
<1>5. CASE CipherFinal(HandleOf(o), k, r) /\ Finishes(o, r)
  BY <1>1, <1>2, <1>5, FinishKeeps DEF CipherFinal
<1>6. CASE C_Ask(HandleOf(o), k, r) /\ (Aborts(o, r) \/ Drops(o))
  <2>1. r \in {"asked", "error"} /\ NoEffect
    BY <1>6 DEF C_Ask
  <2> QED BY <1>1, <1>2, <1>6, <2>1, AbortKeeps, DropsKeep
<1> QED BY <1>3, <1>4, <1>5, <1>6

LEMMA SignerKeeps ==
    ASSUME WellServed, NEW o \in Objects, Signer(o) \/ Digester(o) PROVE WellServed'
<1>1. PICK k \in {"sign", "digest"} :
         /\ KindOf(o) = k /\ RestStays
         /\ \E r \in Results :
              \/ (C_Take(HandleOf(o), k, r) \/ C_Fail(HandleOf(o), k, r)) /\ Updates(o, r)
              \/ (C_End(HandleOf(o), k, r) \/ C_Fail(HandleOf(o), k, r)) /\ Finishes(o, r)
              \/ C_Ask(HandleOf(o), k, r) /\ (Aborts(o, r) \/ Drops(o))
  BY DEF Signer, Digester, SignUpdate, DigestUpdate, SignFinal, DigestFinal, SignAbort, DigestAbort
<1>2. k \in KindNames \ {"search"}
  BY <1>1 DEF KindNames
<1>3. PICK r \in Results :
         \/ (C_Take(HandleOf(o), k, r) \/ C_Fail(HandleOf(o), k, r)) /\ Updates(o, r)
         \/ (C_End(HandleOf(o), k, r) \/ C_Fail(HandleOf(o), k, r)) /\ Finishes(o, r)
         \/ C_Ask(HandleOf(o), k, r) /\ (Aborts(o, r) \/ Drops(o))
  BY <1>1
<1>4. CASE (C_Take(HandleOf(o), k, r) \/ C_Fail(HandleOf(o), k, r)) /\ Updates(o, r)
  BY <1>1, <1>2, <1>4, UpdateKeeps
<1>5. CASE (C_End(HandleOf(o), k, r) \/ C_Fail(HandleOf(o), k, r)) /\ Finishes(o, r)
  BY <1>1, <1>2, <1>5, FinishKeeps
<1>6. CASE C_Ask(HandleOf(o), k, r) /\ (Aborts(o, r) \/ Drops(o))
  <2>1. r \in {"asked", "error"} /\ NoEffect
    BY <1>6 DEF C_Ask
  <2> QED BY <1>1, <1>2, <1>6, <2>1, AbortKeeps, DropsKeep
<1> QED BY <1>3, <1>4, <1>5, <1>6

LEMMA VerifierKeeps ==
    ASSUME WellServed, NEW o \in Objects, Verifier(o) PROVE WellServed'
<1> PICK k : k = "verify"
  OBVIOUS
<1>1. /\ KindOf(o) = k /\ RestStays /\ k \in KindNames \ {"search"}
      /\ PlaceOf(o) = <<HandleOf(o), k>>
  BY DEF Verifier, KindNames, PlaceOf
<1>2. PICK r \in Results :
         \/ VerifyUpdate(HandleOf(o), r) /\ Updates(o, r)
         \/ VerifyFinal(HandleOf(o), r) /\ Finishes(o, r)
         \/ VerifyAbort(HandleOf(o), r) /\ (Aborts(o, r) \/ Drops(o))
  BY DEF Verifier
<1>3. CASE VerifyUpdate(HandleOf(o), r) /\ Updates(o, r)
  BY <1>1, <1>3, UpdateKeeps DEF VerifyUpdate
<1>4. CASE VerifyFinal(HandleOf(o), r) /\ Finishes(o, r)
  BY <1>1, <1>4, FinishKeeps DEF VerifyFinal
<1>5. CASE VerifyAbort(HandleOf(o), r) /\ (Aborts(o, r) \/ Drops(o))
  <2>1. r = "error" /\ (NoEffect \/ EndsAt(PlaceOf(o)))
    BY <1>1, <1>5 DEF VerifyAbort, C_Fail, C_Finish, EndsAt
  <2> QED BY <1>1, <1>5, <2>1, AbortKeeps, DropsKeep
<1> QED BY <1>2, <1>3, <1>4, <1>5

LEMMA SearchKeeps ==
    ASSUME WellServed, NEW o \in Objects, Search(o) PROVE WellServed'
<1> PICK k : k = "search"
  OBVIOUS
<1>1. /\ KindOf(o) = k /\ RestStays /\ k \in KindNames /\ PlaceOf(o) = <<HandleOf(o), k>>
  BY DEF Search, KindNames, PlaceOf
<1>2. PICK r \in Results :
         \/ /\ FindObjects(HandleOf(o), r) /\ FailsCall(o)
            /\ Calls(o) /\ Cuts(o, "call") /\ Leaves({})
            /\ UNCHANGED given
         \/ /\ obj[o].stage = "active" /\ FindObjectsFinal(HandleOf(o), r)
            /\ Finishes(o, r) \/ Drops(o)
  BY DEF Search
<1>3. CASE FindObjects(HandleOf(o), r) /\ FailsCall(o) /\ Calls(o) /\ Cuts(o, "call") /\ Leaves({})
             /\ UNCHANGED given
  BY <1>1, <1>3, NextKeeps DEF FindObjects
<1>4. CASE obj[o].stage = "active" /\ FindObjectsFinal(HandleOf(o), r)
             /\ (Finishes(o, r) \/ Drops(o))
  <2>1. \/ C_End(HandleOf(o), k, r) /\ EndsAt(PlaceOf(o))
        \/ r \in {"short", "error"} /\ NoEffect
    BY <1>1, <1>4 DEF FindObjectsFinal, C_End, C_Finish, EndsAt
  <2>2. Expects(obj[o])
    BY <1>1, <1>4 DEF Expects, KindOf
  <2>3. CASE Finishes(o, r)
    BY <1>1, <1>4, <2>1, <2>3, FinishKeeps
  <2>4. CASE Drops(o)
    BY <1>1, <2>1, <2>2, <2>4, DropsKeep
  <2> QED BY <1>4, <2>3, <2>4
<1> QED BY <1>2, <1>3, <1>4

\* An object that is not free has a place.
LEMMA ItsPlace ==
    ASSUME OpsTypes, NEW o \in Objects, obj[o].stage # "free"
    PROVE  Place(obj[o]) \in Places /\ Place(obj[o])[1] = obj[o].handle
BY LiveObject DEF OpsTypes, Place

(***************************************************************************)
(* Operations that end with their sessions: no other one changes.          *)
(***************************************************************************)
LEMMA EndingsKeep ==
    ASSUME WellServed, UNCHANGED <<obj, given, taken, again, misused, cut>>, Leaves({}),
           ops' \in [Places -> Objects \cup {Nobody, None}],
           \A p \in Places : ops'[p] # None => ops'[p] = ops[p] /\ Known(p[1])',
           \A h \in Handles : Known(h)' =>
               Known(h) /\ \A p \in Places : p[1] = h => ops'[p] = ops[p]
    PROVE  WellServed'
<1>1. OpsTypes /\ Owned /\ InHand /\ InStep /\ Cutting
  BY DEF WellServed
<1>2. OpsTypes'
  BY <1>1 DEF OpsTypes
<1>3. Owned'
  BY <1>1 DEF Owned, OwnedAt, Leaves
<1>4. InHand'
  <2> SUFFICES ASSUME NEW o \in Objects, Expects(obj[o]), Known(obj[o].handle)',
                      Undisturbed(Place(obj[o]))
               PROVE  ops'[Place(obj[o])] = o
    BY DEF InHand, HasInHand, Known, Undisturbed
  <2>1. Place(obj[o]) \in Places /\ Place(obj[o])[1] = obj[o].handle
    BY <1>1, ItsPlace DEF Expects
  <2>2. obj[o].handle \in Handles
    BY <2>1 DEF Places
  <2>3. Known(obj[o].handle) /\ ops'[Place(obj[o])] = ops[Place(obj[o])]
    BY <2>1, <2>2
  <2> QED BY <1>1, <2>3 DEF InHand, HasInHand
<1>5. InStep' /\ Cutting'
  BY <1>1 DEF InStep, IsInStep, Undisturbed, Cutting, CutAt
<1> QED BY <1>2, <1>3, <1>4, <1>5 DEF WellServed

LEMMA AllEndKeepsOps ==
    ASSUME WellServed, AllSessionsEnd PROVE WellServed'
<1>1. /\ UNCHANGED <<obj, given, taken, again, misused, cut>> /\ Leaves({})
      /\ \A p \in Places : ops'[p] = None
      /\ ops' \in [Places -> Objects \cup {Nobody, None}]
      /\ \A h \in Handles : ~Known(h)'
  BY DEF AllSessionsEnd, issues, Known
<1> QED BY <1>1, EndingsKeep

LEMMA CloseKeepsOps ==
    ASSUME SessionInv, WellServed, NEW s \in Sessions, Close(s) \/ DropSession(s) PROVE WellServed'
<1>1. PICK h \in Handles : h = sess[s].handle
  BY HeldIsLive DEF SessionInv, Close, DropSession, Held
<1>2. /\ UNCHANGED <<obj, given, taken, again, misused, cut, up>> /\ Leaves({})
      /\ NativeClose(h) \/ UNCHANGED <<open, ops>>
  BY <1>1 DEF Close, DropSession, issues
<1>3. /\ open \in [Handles -> Sessions \cup {None}] /\ OpsTypes /\ Owned
  BY DEF SessionInv, SessionTypes, WellServed
<1>4. CASE UNCHANGED <<open, ops>>
  <2>1. \A i \in Handles : Known(i)' <=> Known(i)
    BY <1>2, <1>4 DEF Known
  <2>2. \A p \in Places : ops[p] # None => Known(p[1])'
    BY <1>2, <1>3, <1>4 DEF Owned, OwnedAt, Known
  <2> QED BY <1>2, <1>3, <1>4, <2>1, <2>2, EndingsKeep DEF OpsTypes
<1>5. CASE NativeClose(h)
  <2>1. /\ \A i \in Handles : open'[i] = IF i = h THEN None ELSE open[i]
        /\ \A p \in Places : ops'[p] = IF p[1] = h THEN None ELSE ops[p]
        /\ ops' \in [Places -> Objects \cup {Nobody, None}]
    BY <1>3, <1>5 DEF NativeClose, OpsTypes
  <2>2. \A i \in Handles : Known(i)' => Known(i) /\ i # h
    BY <1>2, <2>1 DEF Known
  <2>3. \A p \in Places : ops'[p] # None => ops'[p] = ops[p] /\ Known(p[1])'
    <3> SUFFICES ASSUME NEW p \in Places, ops'[p] # None PROVE ops'[p] = ops[p] /\ Known(p[1])'
      OBVIOUS
    <3>1. ops'[p] = ops[p] /\ p[1] # h /\ Known(p[1]) /\ p[1] \in Handles
      BY <1>3, <2>1 DEF Owned, OwnedAt, Places
    <3> QED BY <1>2, <2>1, <3>1 DEF Known
  <2> QED BY <1>2, <2>1, <2>2, <2>3, EndingsKeep
<1> QED BY <1>2, <1>4, <1>5

(***************************************************************************)
(* A number that is issued: its place is clean, or somebody holds it and   *)
(* it is issued again.                                                     *)
(***************************************************************************)
LEMMA OpenKeepsOps ==
    ASSUME SessionInv, WellServed, NEW s \in Sessions, NEW h \in Handles, OpenSession(s, h)
    PROVE  WellServed'
<1>1. OpsTypes /\ Owned /\ InHand /\ InStep /\ Cutting
  BY DEF WellServed
<1>2. /\ UNCHANGED <<up, ops, obj, given, taken, left>> /\ up
      /\ \A i \in Handles : open'[i] = IF i = h THEN s ELSE open[i]
      /\ \A i \in Handles : Known(i)' <=> Known(i) \/ i = h
  BY NoneIsNobody DEF OpenSession, SessionInv, SessionTypes, Known
<1>3. /\ IsHeld(h) => h \in again'
      /\ \A p \in Places : p[1] # h => /\ p[1] \in again' <=> p[1] \in again
                                       /\ p \in misused' <=> p \in misused
                                       /\ cut'[p] = cut[p]
      /\ \A p \in Places : p[1] = h => cut'[p] = None
  BY DEF OpenSession, Issues
<1>4. OpsTypes'
  BY <1>1, <1>2 DEF OpsTypes, OpenSession, Issues
<1>5. Owned'
  <2> SUFFICES ASSUME NEW p \in Places, ops[p] # None PROVE Known(p[1])'
    BY <1>1, <1>2 DEF Owned, OwnedAt
  <2> QED BY <1>1, <1>2 DEF Owned, OwnedAt, Places
<1>6. ASSUME NEW o \in Objects, obj[o].stage # "free", Calm(Place(obj[o]))
      PROVE  obj[o].handle # h /\ Undisturbed(Place(obj[o]))
  <2>1. Place(obj[o]) \in Places /\ Place(obj[o])[1] = obj[o].handle
    BY <1>1, <1>6, ItsPlace
  <2>2. obj[o].handle # h
    BY <1>3, <1>6, <2>1 DEF IsHeld, Calm
  <2> QED BY <1>3, <1>6, <2>1, <2>2 DEF Calm, Undisturbed
<1>7. InHand'
  <2> SUFFICES ASSUME NEW o \in Objects, Expects(obj[o]), Known(obj[o].handle)',
                      Calm(Place(obj[o]))
               PROVE  ops[Place(obj[o])] = o
    BY <1>2 DEF InHand, HasInHand, Known, Undisturbed, Calm
  <2>1. obj[o].handle # h /\ obj[o].handle \in Handles /\ Undisturbed(Place(obj[o]))
    BY <1>1, <1>6, ItsPlace DEF Expects, Places
  <2> QED BY <1>1, <1>2, <2>1 DEF InHand, HasInHand
<1>8. InStep'
  <2> SUFFICES ASSUME NEW o \in Objects, Counts(obj[o]), Calm(Place(obj[o]))
               PROVE  given[o] = taken[o]
    BY <1>2 DEF InStep, IsInStep, Undisturbed, Calm
  <2> QED BY <1>1, <1>6 DEF InStep, IsInStep, Counts
<1>9. Cutting'
  BY <1>1, <1>3 DEF Cutting, CutAt
<1> QED BY <1>4, <1>5, <1>7, <1>8, <1>9 DEF WellServed

LEMMA BeginKeeps ==
    ASSUME WellServed, NEW s \in Sessions, NEW o \in Objects, NEW k \in KindNames,
           sess[s].handle \in Handles, Begins(s, o, k), C_Start(sess[s].handle, k, o)
    PROVE  WellServed'
<1>1. PICK h \in Handles : h = sess[s].handle
  OBVIOUS
<1>2. PICK q \in Places : q = <<h, k>> /\ q[1] = h
  BY <1>1 DEF C_Start, Places
<1>3. PICK c : c = [stage |-> "active", kind |-> k, handle |-> h, used |-> "well"]
  OBVIOUS
<1>4. /\ UNCHANGED <<up, open, again, misused, left, cut>>
      /\ obj[o].stage = "free" /\ \A p \in Places : ops[p] # o
      /\ obj' = [obj EXCEPT ![o] = c] /\ given' = [given EXCEPT ![o] = 0]
      /\ ops' = [ops EXCEPT ![q] = o] /\ taken' = [taken EXCEPT ![o] = 0]
      /\ ops[q] = None /\ Known(q[1])
  BY <1>1, <1>2, <1>3, FreeIsFree DEF Begins, C_Start, issues, ModuleStays
<1>5. c \in LiveObjects /\ c.stage = "active" /\ Place(c) = q
  BY <1>1, <1>2, <1>3 DEF LiveObjects, Place, Places
<1>6. OpsTypes
  BY DEF WellServed
<1>7. OpsTypes'
  BY <1>4, <1>5, <1>6 DEF OpsTypes
<1>8. /\ obj'[o] = c /\ ops'[q] = o /\ given'[o] = 0 /\ taken'[o] = 0
      /\ \A x \in Objects \ {o} : obj'[x] = obj[x] /\ given'[x] = given[x] /\ taken'[x] = taken[x]
      /\ \A p \in Places \ {q} : ops'[p] = ops[p]
  BY <1>4, <1>6 DEF OpsTypes
<1> QED BY <1>4, <1>5, <1>7, <1>8, NoneIsNobody, OneObject

LEMMA OneShotKeeps ==
    ASSUME WellServed, NEW h \in Handles, NEW k \in Kinds, OneShot(h, k),
           Leaves({p \in Places : ops'[p] = Nobody}),
           UNCHANGED <<up, open, again, misused, obj, given, cut>>
    PROVE  WellServed'
<1>1. OpsTypes /\ Owned /\ InHand /\ InStep /\ Cutting
  BY DEF WellServed
<1> PICK q : q = <<h, k>>
  OBVIOUS
<1>2. q \in Places /\ q[1] = h
  BY DEF Places
<1>3. /\ \A p \in Places : ops'[p] = IF p = q THEN Nobody ELSE ops[p]
      /\ ops[q] = None /\ Known(h) /\ taken' = taken
      /\ ops' \in [Places -> Objects \cup {Nobody, None}]
  BY <1>1, <1>2 DEF OneShot, OpsTypes
<1>4. OpsTypes'
  BY <1>1, <1>3 DEF OpsTypes
<1>5. Owned'
  <2> SUFFICES ASSUME NEW p \in Places, ops'[p] # None PROVE OwnedAt(p)'
    BY DEF Owned, OwnedAt
  <2>1. CASE p = q
    BY <1>2, <1>3, <2>1, NoneIsNobody DEF OwnedAt, Leaves, Known
  <2>2. CASE p # q
    BY <1>1, <1>3, <2>2 DEF Owned, OwnedAt, Leaves, Known
  <2> QED BY <2>1, <2>2
<1>6. InHand'
  <2> SUFFICES ASSUME NEW o \in Objects, Expects(obj[o]), Known(obj[o].handle),
                      Undisturbed(Place(obj[o]))
               PROVE  ops'[Place(obj[o])] = o
    BY DEF InHand, HasInHand, Known, Undisturbed
  <2>1. ops[Place(obj[o])] = o /\ Place(obj[o]) \in Places
    BY <1>1, ItsPlace DEF InHand, HasInHand, Expects
  <2> QED BY <1>3, <2>1, NoneIsNobody
<1>7. InStep' /\ Cutting'
  BY <1>1, <1>3 DEF InStep, IsInStep, Undisturbed, Cutting, CutAt
<1> QED BY <1>4, <1>5, <1>6, <1>7 DEF WellServed

LEMMA DigestKeyKeeps ==
    ASSUME WellServed, NEW s \in Sessions, SessionDigestsKey(s), sess[s].handle \in Handles
    PROVE  WellServed'
<1>1. OpsTypes /\ Owned /\ InHand /\ InStep /\ Cutting
  BY DEF WellServed
<1>2. PICK h \in Handles : h = sess[s].handle
  OBVIOUS
<1>3. PICK q \in Places : q = <<h, "digest">> /\ q[1] = h /\ q[2] = "digest"
  BY <1>2 DEF SessionDigestsKey, Places
<1>4. PICK o \in Objects : o = ops[q]
  BY <1>2, <1>3 DEF SessionDigestsKey
<1>5. /\ UNCHANGED <<up, open, again, misused, cut>> /\ Leaves({})
      /\ Known(h) /\ o # None
  BY <1>2, <1>4, NoneIsNobody DEF SessionDigestsKey, issues, ModuleStays, Active
<1>6. obj[o].stage # "free" => Place(obj[o]) = q /\ obj[o].kind = "digest"
  BY <1>1, <1>3, <1>4, NoneIsNobody DEF Owned, OwnedAt, Place
<1>7. \/ /\ C_Take(h, "digest", "done") /\ obj' = obj
         /\ given' = [given EXCEPT ![o] = given[o] + 1]
      \/ /\ C_Fail(h, "digest", "error") /\ given' = given
         /\ IF obj[o].stage = "free" THEN obj' = obj ELSE FailsCall(o)
  <2>1. ops[<<h, "digest">>] = o
    BY <1>3, <1>4
  <2> QED BY <1>2, <2>1 DEF SessionDigestsKey, DigestKey, C_Take, C_Fail
<1>8. CASE C_Take(h, "digest", "done") /\ obj' = obj
             /\ given' = [given EXCEPT ![o] = given[o] + 1]
  <2>1. /\ ops' = ops /\ obj' = obj
        /\ taken' = [x \in Objects |-> IF x = o THEN taken[x] + 1 ELSE taken[x]]
        /\ given' = [given EXCEPT ![o] = given[o] + 1]
    BY <1>3, <1>4, <1>8 DEF C_Take
  <2>2. OpsTypes'
    BY <1>1, <1>5, <2>1 DEF OpsTypes
  <2>3. Owned' /\ InHand' /\ Cutting'
    BY <1>1, <1>5, <2>1 DEF Owned, OwnedAt, InHand, HasInHand, Cutting, CutAt, Undisturbed, Known, Leaves
  <2>4. InStep'
    BY <1>1, <1>5, <2>1 DEF InStep, IsInStep, Undisturbed, OpsTypes
  <2> QED BY <2>2, <2>3, <2>4 DEF WellServed
<1>9. CASE C_Fail(h, "digest", "error") /\ given' = given
             /\ IF obj[o].stage = "free" THEN obj' = obj ELSE FailsCall(o)
  <2>1. /\ ops' = [ops EXCEPT ![q] = None] /\ taken' = taken /\ given' = given
        /\ IF obj[o].stage = "free" THEN obj' = obj ELSE FailsCall(o)
    BY <1>3, <1>4, <1>5, <1>9 DEF C_Fail, C_Finish, Active
  <2>2. /\ obj' \in [Objects -> {FreeObject} \cup LiveObjects]
        /\ \A x \in Objects \ {o} : obj'[x] = obj[x]
        /\ obj'[o].stage = obj[o].stage /\ obj'[o].kind = obj[o].kind
        /\ obj'[o].handle = obj[o].handle
        /\ obj[o].stage # "free" => obj'[o].used = "failed"
    <3>1. CASE obj[o].stage = "free"
      BY <1>1, <2>1, <3>1 DEF OpsTypes
    <3>2. CASE obj[o].stage # "free"
      <4>1. obj[o] \in LiveObjects /\ obj' = [obj EXCEPT ![o] = [obj[o] EXCEPT !.used = "failed"]]
        BY <1>1, <2>1, <3>2, LiveObject DEF FailsCall
      <4> QED BY <1>1, <4>1, <3>2 DEF OpsTypes, LiveObjects
    <3> QED BY <3>1, <3>2
  <2>3. OpsTypes'
    BY <1>1, <1>5, <2>1, <2>2 DEF OpsTypes
  <2>4. \A p \in Places : ops'[p] = IF p = q THEN None ELSE ops[p]
    BY <1>1, <2>1 DEF OpsTypes
  <2>5. Owned'
    <3> SUFFICES ASSUME NEW p \in Places, ops'[p] # None PROVE OwnedAt(p)'
      BY DEF Owned, OwnedAt
    <3>1. p # q /\ ops'[p] = ops[p] /\ OwnedAt(p)
      BY <1>1, <2>4 DEF Owned
    <3>2. ops[p] \in Objects =>
             obj'[ops[p]].stage = obj[ops[p]].stage /\ Place(obj'[ops[p]]) = Place(obj[ops[p]])
      BY <2>2 DEF Place
    <3> QED BY <1>5, <3>1, <3>2 DEF OwnedAt, Known, Leaves
  <2>6. ASSUME NEW x \in Objects PROVE HasInHand(x)'
    <3> SUFFICES ASSUME Expects(obj'[x]), Known(obj'[x].handle), Calm(Place(obj'[x]))
                 PROVE  ops'[Place(obj'[x])] = x
      BY <1>5 DEF HasInHand, Known, Undisturbed, Calm
    <3>1. x # o
      BY <1>6, <2>2 DEF Expects
    <3>2. obj'[x] = obj[x] /\ Undisturbed(Place(obj[x])) /\ Place(obj[x]) \in Places
      BY <1>1, <1>5, <2>2, <3>1, ItsPlace DEF Calm, Undisturbed, Expects
    <3>3. ops[Place(obj[x])] = x
      BY <1>1, <3>2 DEF InHand, HasInHand
    <3> QED BY <1>4, <2>4, <3>1, <3>2, <3>3
  <2>7. ASSUME NEW x \in Objects PROVE IsInStep(x)'
    <3> SUFFICES ASSUME Counts(obj'[x]), Calm(Place(obj'[x])) PROVE given[x] = taken[x]
      BY <2>1 DEF IsInStep, Undisturbed, Calm
    <3>1. x # o
      BY <2>2 DEF Counts
    <3>2. obj'[x] = obj[x] /\ Undisturbed(Place(obj[x]))
      BY <1>5, <2>2, <3>1 DEF Calm, Undisturbed
    <3> QED BY <1>1, <3>2 DEF InStep, IsInStep
  <2>8. Cutting'
    BY <1>1, <1>5 DEF Cutting, CutAt
  <2> QED BY <2>3, <2>5, <2>6, <2>7, <2>8 DEF WellServed, InHand, InStep
<1> QED BY <1>7, <1>8, <1>9

LEMMA SessionKeepsOps ==
    ASSUME OpsInv, NEW s \in Sessions, Session(s) PROVE WellServed'
<1>1. SessionInv /\ WellServed
  BY DEF OpsInv
<1>2. sess[s].stage # "free" => sess[s].handle \in Handles
  BY <1>1, HeldIsLive DEF SessionInv, Held
<1>3. CASE Close(s) \/ DropSession(s)
  BY <1>1, <1>3, CloseKeepsOps
<1>4. ASSUME NEW o \in Objects, SessionBegins(s, o) \/ SessionSearches(s, o) PROVE WellServed'
  <2>1. sess[s].handle \in Handles
    BY <1>2, <1>4 DEF SessionBegins, SessionSearches
  <2>2. PICK k \in KindNames : Begins(s, o, k) /\ C_Start(sess[s].handle, k, o)
    BY <1>4 DEF SessionBegins, SessionSearches, EncryptInit, DecryptInit, SignInit, VerifyInit,
                DigestInit, FindObjectsInit, KindNames
  <2> QED BY <1>1, <2>1, <2>2, BeginKeeps
<1>5. CASE SessionOneShots(s)
  <2>1. PICK h \in Handles : h = sess[s].handle
    BY <1>2, <1>5 DEF SessionOneShots
  <2>2. PICK k \in Kinds : OneShot(h, k)
    <3>1. \E k \in KindNames : OneShot(h, k)
      BY <1>5, <2>1 DEF SessionOneShots, Encrypt, Decrypt, Sign, Verify, Digest, SignRecover,
                        VerifyRecover, KindNames
    <3> QED BY <3>1 DEF OneShot
  <2>3. /\ UNCHANGED <<up, open, again, misused, obj, given, cut>>
        /\ Leaves({p \in Places : ops'[p] = Nobody})
    BY <1>5 DEF SessionOneShots, ModuleStays, issues
  <2> QED BY <1>1, <2>2, <2>3, OneShotKeeps
<1>6. CASE SessionDigestsKey(s)
  BY <1>1, <1>2, <1>6, DigestKeyKeeps DEF SessionDigestsKey
<1> QED BY <1>3, <1>4, <1>5, <1>6 DEF Session

LEMMA OpsNextKeeps == OpsInv /\ [Next]_vars => OpsInv'
<1> SUFFICES ASSUME OpsInv, [Next]_vars PROVE WellServed'
  BY SessionNextKeeps DEF OpsInv
<1>1. SessionInv /\ WellServed
  BY DEF OpsInv
<1>2. CASE UNCHANGED vars
  BY <1>1, <1>2 DEF vars, issues, WellServed, OpsTypes, Owned, OwnedAt, InHand, HasInHand,
                    InStep, IsInStep, Cutting, CutAt, Known, Undisturbed
<1>3. CASE (\E m \in Modules : Initialize(m)) \/ Finalize \/ CloseAllSessions
  BY <1>1, <1>3, AllEndKeepsOps DEF Initialize, Finalize, CloseAllSessions
<1>4. ASSUME NEW s \in Sessions, NEW h \in Handles, OpenSession(s, h) PROVE WellServed'
  BY <1>1, <1>4, OpenKeepsOps
<1>5. ASSUME NEW s \in Sessions, Session(s) PROVE WellServed'
  BY <1>5, SessionKeepsOps
<1>6. ASSUME NEW o \in Objects,
             Encryptor(o) \/ Decryptor(o) \/ Signer(o) \/ Verifier(o) \/ Digester(o)
               \/ Search(o) \/ DropCleared(o)
      PROVE  WellServed'
  BY <1>1, <1>6, CipherKeeps, SignerKeeps, VerifierKeeps, SearchKeeps, ClearedKeeps
<1> QED BY <1>2, <1>3, <1>4, <1>5, <1>6 DEF Next, SlotManager

LEMMA OpsInvariant == Spec => []OpsInv
<1>1. Init => OpsInv
  BY SessionInitInv, OpsInit DEF OpsInv
<1>2. OpsInv /\ [Next]_vars => OpsInv'
  BY OpsNextKeeps
<1> QED BY <1>1, <1>2, PTL DEF Spec

(***************************************************************************)
(* An operation that the module holds has an active object of its own, or  *)
(* was left by its owner: by a drop half way, an abort, a final with room  *)
(* for no bytes, or a single-part call without its second function         *)
(* (encryptor::drop and its kin, NativePkcs11::encrypt).  Finals that end  *)
(* or fail, closes and reloads leave none.                                 *)
(***************************************************************************)
THEOREM OperationsAreOwned == Spec => []OperationsHaveOwners
<1>1. OpsInv => OperationsHaveOwners
  BY DEF OpsInv, WellServed, Owned, OwnedAt, OperationsHaveOwners
<1> QED BY <1>1, OpsInvariant, PTL

(***************************************************************************)
(* A final covers the chunks its own object was given, no more and no      *)
(* fewer, keys that the session digests included (encryptor::update,       *)
(* digester::digest-key), at a place that nobody disturbed and where no    *)
(* cipher was given a chunk for which there was nothing to put out.        *)
(***************************************************************************)
THEOREM NoChunkIsLost == Spec => []ChunksArrive
<1>1. OpsInv => ChunksArrive
  <2> SUFFICES ASSUME OpsInv, NEW o \in Objects, obj[o].stage = "ended", obj[o].used = "well",
                      Undisturbed(PlaceOf(o))
               PROVE  given[o] = taken[o]
    BY DEF ChunksArrive
  <2>1. PlaceOf(o) = Place(obj[o])
    BY DEF PlaceOf, Place, HandleOf, KindOf
  <2> QED BY <2>1 DEF OpsInv, WellServed, InStep, IsInStep, Counts
<1> QED BY <1>1, OpsInvariant, PTL

(***************************************************************************)
(* At a place where nobody called an object after its end or failure, and  *)
(* whose number is no other guest's, the first operation that is ended by  *)
(* the object of another one is ended by a verifier that is dropped or     *)
(* aborted after its own has failed (verifier::drop); late drops and       *)
(* aborts of every other kind end nothing of others.                       *)
(***************************************************************************)
THEOREM NothingIsCut == Spec => []NobodyElsesOperation
<1>1. OpsInv => NobodyElsesOperation
  BY DEF OpsInv, WellServed, Cutting, CutAt, NobodyElsesOperation
<1> QED BY <1>1, OpsInvariant, PTL
===============================================================================
