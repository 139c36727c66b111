------------------------------ MODULE Pkcs11Tokens ------------------------------
(***************************************************************************)
(* Logins and token objects of libs/pkcs11-host-adapter: what the guests,  *)
(* and the secret backend of the host, share when they use one token.  A   *)
(* login holds for the application, not for a session; an object resource  *)
(* is a pair of numbers, of a session and of an object, that the module    *)
(* may have given to somebody else since.  As in Pkcs11Sessions a step is  *)
(* one call, made under the mutex of AdapterContext.                       *)
(***************************************************************************)
EXTENDS Naturals, FiniteSets

CONSTANTS
    Guests,     \* each holds one session resource at a time
    Handles,    \* numbers of native sessions
    Numbers,    \* numbers of native objects; 0 is none of them
    Resources,  \* object resources
    Labels,     \* labels of objects
    Host,       \* the secret backend of the host, which opens sessions too
    None

ASSUME TokensAssumption ==
    /\ Numbers \subseteq Nat \ {0}
    /\ Host \notin Guests /\ None \notin Guests \cup Handles \cup Numbers \cup {Host}

VARIABLES
    open,     \* native session -> None, or who opened it
    issued,   \* native session numbers issued so far
    user,     \* who is logged in to the token: "nobody", "user" or "so"
    objects,  \* object number -> None, or what the token keeps under it
    sess,     \* guest -> None, or the native session number in its session resource
    res,      \* object resource -> None, or what it holds
    touched,  \* history: [by, of]: a guest reached an object of another guest
    careless  \* history: a number was issued again, bound, or used in another session

vars == <<open, issued, user, objects, sess, res, touched, careless>>
tokenVars == <<open, issued, user, objects>>
resourceVars == <<sess, res, touched, careless>>

Users == {"user", "so"}
\* A session object lives as long as the session it was made in, and a private one is
\* there only for the user.
Things == [maker : Guests \cup {Host}, label : Labels, session : Handles \cup {None},
           private : BOOLEAN]
\* fresh: the session of the resource has not been ended since it was made.
Held == [owner : Guests, session : Handles, number : Numbers \cup {0}, fresh : BOOLEAN]

ASSUME NoneAssumption == None \notin Things /\ None \notin Held

Init ==
    /\ open = [h \in Handles |-> None] /\ issued = {} /\ user = "nobody"
    /\ objects \in [Numbers -> {None} \cup [maker : {Host}, label : Labels, session : {None},
                                            private : BOOLEAN]]
    /\ sess = [g \in Guests |-> None]
    /\ res = [o \in Resources |-> None]
    /\ touched = {} /\ careless = FALSE

---------------------------- (* the native module *) ----------------------------

C_OpenSession(h, who) ==
    /\ open[h] = None
    /\ open' = [open EXCEPT ![h] = who]
    /\ issued' = issued \cup {h}
    /\ UNCHANGED <<user, objects>>

\* Sessions end, their objects with them, and the login with the last of them.
C_End(hs) ==
    /\ open' = [h \in Handles |-> IF h \in hs THEN None ELSE open[h]]
    /\ user' = IF \A h \in Handles : open'[h] = None THEN "nobody" ELSE user
    /\ objects' = [n \in Numbers |->
          IF objects[n] # None /\ objects[n].session \in hs THEN None ELSE objects[n]]
    /\ UNCHANGED issued

Known(h) == open[h] # None

\* There is one login, and a login while somebody is logged in is refused.
C_Login(h, u) ==
    /\ Known(h) /\ user = "nobody"
    /\ user' = u
    /\ UNCHANGED <<open, issued, objects>>

C_Logout(h) ==
    /\ Known(h) /\ user # "nobody"
    /\ user' = "nobody"
    /\ UNCHANGED <<open, issued, objects>>

\* A token with open sessions is not reset.
C_InitToken ==
    /\ \A h \in Handles : ~Known(h)
    /\ objects' = [n \in Numbers |-> None]
    /\ UNCHANGED <<open, issued, user>>

Visible(n) == objects[n] # None /\ (objects[n].private => user = "user")
Reached(h, n) == Known(h) /\ n \in Numbers /\ Visible(n)

C_CreateObject(h, n, thing) ==
    /\ Known(h) /\ objects[n] = None
    /\ thing.private => user = "user"
    /\ objects' = [objects EXCEPT ![n] = thing]
    /\ UNCHANGED <<open, issued, user>>

C_DestroyObject(h, n) ==
    /\ Reached(h, n)
    /\ objects' = [objects EXCEPT ![n] = None]
    /\ UNCHANGED <<open, issued, user>>

------------------------------ (* NativePkcs11 *) ------------------------------
\* Each method checks that the module is initialized, makes one native call (get_attributes
\* makes two, under one lock) and passes its error on, which changes nothing.

Login(h, u) == C_Login(h, u)
LoginVendor(h, u) == C_Login(h, u)
Logout(h) == C_Logout(h)
InitToken == C_InitToken
CloseAllSessions == C_End({h \in Handles : Known(h)})
CreateObject(h, n, thing) == C_CreateObject(h, n, thing)
CopyObject(h, source, n, thing) == Reached(h, source) /\ C_CreateObject(h, n, thing)
DestroyObject(h, n) == C_DestroyObject(h, n)
SetAttributes(h, n) == Reached(h, n) /\ UNCHANGED tokenVars
GetAttributes(h, n) == Reached(h, n) /\ UNCHANGED tokenVars
GetObjectSize(h, n) == Reached(h, n) /\ UNCHANGED tokenVars

---------------------------- (* session resources *) ----------------------------

\* Resources made in an ended session are no longer fresh.
Expires == res' = [o \in Resources |->
    IF res[o] # None /\ res[o].fresh /\ open'[res[o].session] # open[res[o].session]
    THEN [res[o] EXCEPT !.fresh = FALSE] ELSE res[o]]

OpenSession(g, h) ==
    /\ sess[g] = None
    /\ C_OpenSession(h, g)
    /\ sess' = [sess EXCEPT ![g] = h]
    /\ careless' = (careless \/ h \in issued)
    /\ UNCHANGED <<res, touched>>

Close(g) ==
    /\ sess[g] # None /\ Known(sess[g])
    /\ C_End({sess[g]})
    /\ Expires
    /\ UNCHANGED <<sess, touched, careless>>

\* Variant: the drop of a session leaves it to its guest to have closed it.
DropLeaves(g) ==
    /\ sess[g] # None
    /\ sess' = [sess EXCEPT ![g] = None]
    /\ UNCHANGED <<tokenVars, res, touched, careless>>

\* Drop closes; where the session is gone already that comes to nothing.
DropSession(g) ==
    /\ sess[g] # None
    /\ IF Known(sess[g]) THEN C_End({sess[g]}) ELSE UNCHANGED tokenVars
    /\ Expires
    /\ sess' = [sess EXCEPT ![g] = None]
    /\ UNCHANGED <<touched, careless>>

SessionLogin(g) ==
    /\ sess[g] # None
    /\ \/ \E u \in Users : Login(sess[g], u) \/ LoginVendor(sess[g], u)
       \/ Logout(sess[g])
    /\ UNCHANGED resourceVars

\* Everybody's sessions.
EndForAll ==
    /\ \/ CloseAllSessions /\ \E h \in Handles : Known(h)
       \/ InitToken
    /\ Expires
    /\ UNCHANGED <<sess, touched, careless>>

\* The resource keeps the session it was made in.
Holds(g, o, n) ==
    /\ res[o] = None
    /\ res' = [res EXCEPT ![o] = [owner |-> g, session |-> sess[g], number |-> n, fresh |-> TRUE]]

Made(g) == {t \in Things : t.maker = g /\ t.session \in {None, sess[g]}}

SessionCreates(g, o) ==
    /\ sess[g] # None
    /\ \E n \in Numbers, t \in Made(g) : CreateObject(sess[g], n, t) /\ Holds(g, o, n)
    /\ UNCHANGED <<sess, touched, careless>>

\* Binding takes any number, and asks the module nothing.
BindObject(g, o) ==
    /\ sess[g] # None
    /\ \E n \in Numbers : Holds(g, o, n)
    /\ careless' = TRUE
    /\ UNCHANGED <<tokenVars, sess, touched>>

---------------------------- (* object resources *) ----------------------------

Touches(g, n) == touched' =
    IF objects[n].maker = g THEN touched ELSE touched \cup {[by |-> g, of |-> objects[n].maker]}

\* The source is looked up in the session that copies, whichever it was made in.
SessionCopies(g, source, o) ==
    LET r == res[source] IN
    /\ sess[g] # None /\ r # None /\ r.owner = g
    /\ \E n \in Numbers, t \in Made(g) : CopyObject(sess[g], r.number, n, t) /\ Holds(g, o, n)
    /\ Touches(g, r.number)
    /\ careless' = (careless \/ ~r.fresh \/ r.session # sess[g])
    /\ UNCHANGED sess

ObjectReads(o) ==
    LET r == res[o] IN
    /\ r # None
    /\ SetAttributes(r.session, r.number) \/ GetAttributes(r.session, r.number)
       \/ GetObjectSize(r.session, r.number)
    /\ Touches(r.owner, r.number)
    /\ UNCHANGED <<sess, res, careless>>

\* Variant: the resource keeps the number of the object it has destroyed.
DestroyKeepsNumber(o) ==
    LET r == res[o] IN
    /\ r # None
    /\ r.number # 0 /\ DestroyObject(r.session, r.number)
    /\ Touches(r.owner, r.number)
    /\ UNCHANGED <<res, sess, careless>>

\* A resource whose object is destroyed holds 0, and does not ask again.
ObjectDestroys(o) ==
    LET r == res[o] IN
    /\ r # None
    /\ r.number # 0 /\ DestroyObject(r.session, r.number)
    /\ Touches(r.owner, r.number)
    /\ res' = [res EXCEPT ![o].number = 0]
    /\ UNCHANGED <<sess, careless>>

\* Dropping an object resource leaves the object where it is.
DropObject(o) ==
    /\ res[o] # None
    /\ res' = [res EXCEPT ![o] = None]
    /\ UNCHANGED <<tokenVars, sess, touched, careless>>

-----------------------------------------------------------------------------

GuestNext ==
    \/ EndForAll
    \/ \E g \in Guests :
         \/ \E h \in Handles : OpenSession(g, h)
         \/ Close(g) \/ DropSession(g) \/ SessionLogin(g)
         \/ \E o \in Resources : SessionCreates(g, o) \/ BindObject(g, o)
         \/ \E o, source \in Resources : SessionCopies(g, source, o)
    \/ \E o \in Resources : ObjectReads(o) \/ ObjectDestroys(o) \/ DropObject(o)

GuestSpec == Init /\ [][GuestNext]_vars

-----------------------------------------------------------------------------

\* A login holds for all sessions of the application (lib.rs:1219), and nobody logs out
\* for a guest that leaves.  Still the login does not outlive the resources: while
\* somebody is logged in, a guest holds an open session.
NoLoginWithoutGuest == user # "nobody" /\ (\A h \in Handles : open[h] # Host) =>
    \E g \in Guests : sess[g] # None /\ open[sess[g]] # None

\* As long as no number of a session is issued again, no number is bound and nothing is
\* copied in another session than its own, no guest reaches an object of another one, in
\* spite of object numbers that are issued again: a resource that outlives its session is
\* refused by it, and one that outlives its object holds no number.
OwnObjectsOnly == ~careless => touched = {}
=============================================================================
