-------------------------- MODULE Pkcs11TokensProofs --------------------------
(***************************************************************************)
(* Proofs about Pkcs11Tokens, Pkcs11Backend and ProviderRegistry, for any  *)
(* number of guests, sessions, objects and providers: what a login and a   *)
(* session of the backend outlive, whose objects a guest reaches, and what *)
(* the id of a provider stands for.                                        *)
(***************************************************************************)
EXTENDS Pkcs11Backend, ProviderRegistry, TLAPS

SessionTypes ==
    /\ open \in [Handles -> Guests \cup {Host, None}]
    /\ sess \in [Guests -> Handles \cup {None}]

\* A session of a guest is the one in its session resource.
InResource == \A h \in Handles : open[h] \in Guests => sess[open[h]] = h

\* Somebody is logged in only while there is a session.
LoginHasSession == user # "nobody" => \E h \in Handles : open[h] # None

LoginInv == SessionTypes /\ InResource /\ LoginHasSession

LEMMA NoneIsNoGuest ==
    /\ Host \notin Guests /\ None \notin Guests /\ None # Host /\ None \notin Handles
    /\ 0 \notin Numbers /\ None \notin Numbers
BY TokensAssumption

\* The end of some sessions: those that stay are what they were.
LEMMA EndLeaves ==
    ASSUME SessionTypes, NEW hs, C_End(hs)
    PROVE  /\ open' \in [Handles -> Guests \cup {Host, None}]
           /\ \A h \in Handles : open'[h] = IF h \in hs THEN None ELSE open[h]
           /\ LoginHasSession => LoginHasSession'
BY DEF SessionTypes, C_End, LoginHasSession

\* What a guest does with objects leaves sessions and logins alone.
LEMMA ObjectsLeaveSessions ==
    ASSUME NEW o \in Resources,
           \/ \E g \in Guests : SessionCreates(g, o) \/ BindObject(g, o)
           \/ \E g \in Guests, source \in Resources : SessionCopies(g, source, o)
           \/ ObjectReads(o) \/ ObjectDestroys(o) \/ DropObject(o)
    PROVE  UNCHANGED <<open, issued, user, sess>>
<1>1. ASSUME NEW g \in Guests, SessionCreates(g, o) PROVE UNCHANGED <<open, issued, user, sess>>
  BY <1>1 DEF SessionCreates, CreateObject, C_CreateObject
<1>2. ASSUME NEW g \in Guests, BindObject(g, o) PROVE UNCHANGED <<open, issued, user, sess>>
  BY <1>2 DEF BindObject, tokenVars
<1>3. ASSUME NEW g \in Guests, NEW source \in Resources, SessionCopies(g, source, o)
      PROVE  UNCHANGED <<open, issued, user, sess>>
  BY <1>3 DEF SessionCopies, CopyObject, C_CreateObject
<1>4. CASE ObjectReads(o)
  BY <1>4 DEF ObjectReads, SetAttributes, GetAttributes, GetObjectSize, tokenVars
<1>5. CASE ObjectDestroys(o)
  BY <1>5 DEF ObjectDestroys, DestroyObject, C_DestroyObject
<1>6. CASE DropObject(o)
  BY <1>6 DEF DropObject, tokenVars
<1> QED BY <1>1, <1>2, <1>3, <1>4, <1>5, <1>6

\* And so does what a login or a logout does, but for the login.
LEMMA LoginStep ==
    ASSUME NEW g \in Guests, SessionLogin(g)
    PROVE  /\ sess[g] # None /\ Known(sess[g])
           /\ UNCHANGED <<open, issued, objects, sess, res, touched, careless>>
BY DEF SessionLogin, Login, LoginVendor, Logout, C_Login, C_Logout, resourceVars

(***************************************************************************)
(* A step of a guest keeps the login of a session, and opens no session    *)
(* for the host.                                                           *)
(***************************************************************************)
LEMMA GuestKeepsLogins ==
    ASSUME LoginInv, GuestNext
    PROVE  LoginInv' /\ \A h \in Handles : open'[h] = Host => open[h] = Host
<1>1. SessionTypes /\ InResource /\ LoginHasSession
  BY DEF LoginInv
<1>2. CASE UNCHANGED <<open, user, sess>>
  BY <1>1, <1>2 DEF LoginInv, SessionTypes, InResource, LoginHasSession
<1>3. CASE EndForAll
  <2>1. sess' = sess /\ (C_End({h \in Handles : Known(h)}) \/ UNCHANGED <<open, user>>)
    BY <1>3 DEF EndForAll, CloseAllSessions, InitToken, C_InitToken
  <2>2. CASE C_End({h \in Handles : Known(h)})
    BY <1>1, <2>1, <2>2, EndLeaves, NoneIsNoGuest DEF LoginInv, SessionTypes, InResource
  <2> QED BY <1>2, <2>1, <2>2
<1>4. ASSUME NEW g \in Guests, NEW i \in Handles, OpenSession(g, i)
      PROVE  LoginInv' /\ \A h \in Handles : open'[h] = Host => open[h] = Host
  <2>1. /\ open' = [open EXCEPT ![i] = g] /\ sess' = [sess EXCEPT ![g] = i]
        /\ sess[g] = None /\ user' = user
    BY <1>4 DEF OpenSession, C_OpenSession
  <2>2. /\ \A h \in Handles : open'[h] = IF h = i THEN g ELSE open[h]
        /\ \A x \in Guests : sess'[x] = IF x = g THEN i ELSE sess[x]
    BY <1>1, <2>1 DEF SessionTypes
  <2>3. SessionTypes'
    BY <1>1, <2>1 DEF SessionTypes
  <2>4. InResource'
    BY <1>1, <2>1, <2>2, NoneIsNoGuest DEF InResource
  <2>5. LoginHasSession'
    BY <2>2, NoneIsNoGuest DEF LoginHasSession
  <2> QED BY <2>2, <2>3, <2>4, <2>5, NoneIsNoGuest DEF LoginInv
<1>5. ASSUME NEW g \in Guests, Close(g)
      PROVE  LoginInv' /\ \A h \in Handles : open'[h] = Host => open[h] = Host
  <2>1. C_End({sess[g]}) /\ sess' = sess
    BY <1>5 DEF Close
  <2> QED BY <1>1, <2>1, EndLeaves, NoneIsNoGuest DEF LoginInv, SessionTypes, InResource
<1>6. ASSUME NEW g \in Guests, DropSession(g)
      PROVE  LoginInv' /\ \A h \in Handles : open'[h] = Host => open[h] = Host
  <2>1. sess' = [sess EXCEPT ![g] = None] /\ sess[g] \in Handles
    BY <1>1, <1>6 DEF DropSession, SessionTypes
  <2>2. \A h \in Handles : open[h] = g => h = sess[g] /\ Known(sess[g])
    BY <1>1, NoneIsNoGuest DEF InResource, Known
  <2>3. \/ C_End({sess[g]})
        \/ ~Known(sess[g]) /\ UNCHANGED <<open, user>>
    BY <1>6 DEF DropSession, tokenVars
  <2>4. /\ open' \in [Handles -> Guests \cup {Host, None}] /\ LoginHasSession'
        /\ \A h \in Handles : open'[h] # None => open'[h] = open[h] /\ open[h] # g
    BY <1>1, <2>1, <2>2, <2>3, EndLeaves DEF SessionTypes, LoginHasSession
  <2>5. \A x \in Guests : x # g => sess'[x] = sess[x]
    BY <1>1, <2>1 DEF SessionTypes
  <2>6. InResource'
    BY <1>1, <2>4, <2>5, NoneIsNoGuest DEF InResource
  <2>7. SessionTypes'
    BY <1>1, <2>1, <2>4 DEF SessionTypes
  <2> QED BY <2>4, <2>6, <2>7, NoneIsNoGuest DEF LoginInv
<1>7. ASSUME NEW g \in Guests, SessionLogin(g)
      PROVE  LoginInv' /\ \A h \in Handles : open'[h] = Host => open[h] = Host
  <2>1. sess[g] \in Handles /\ open[sess[g]] # None /\ UNCHANGED <<open, sess>>
    BY <1>1, <1>7, LoginStep DEF SessionTypes, Known
  <2> QED BY <1>1, <2>1 DEF LoginInv, SessionTypes, InResource, LoginHasSession
<1> QED BY <1>2, <1>3, <1>4, <1>5, <1>6, <1>7, ObjectsLeaveSessions DEF GuestNext

-----------------------------------------------------------------------------

BeforeOpen == {"idle", "slot", "open"}

CallTypes ==
    /\ call \in [stage : Stages, label : Labels \cup {None}, session : Handles \cup {None},
                 found : Numbers \cup {None}]
    /\ call.stage \notin BeforeOpen => call.session \in Handles

\* The only session of the host, but for those that errors left, is that of the call
\* being served.
OneHostSession == \A h \in Handles : open[h] = Host =>
    h \in leaked \/ (call.session = h /\ call.stage \notin BeforeOpen)

SharedInv == LoginInv /\ CallTypes /\ OneHostSession

\* The calls the backend makes leave the resources alone.
BackendSteps ==
    \/ ListSecrets \/ \E l \in Labels : Resolve(l)
    \/ SlotInfo \/ BackendOpens \/ BackendLogsIn \/ BackendSearches \/ BackendReads
    \/ BackendCloses \/ BackendFails \/ TokenChanges \/ TokenPulled

LEMMA BackendStep == BackendNext => BackendSteps /\ UNCHANGED <<sess, touched>>
BY DEF BackendNext, BackendSteps

LEMMA CallTypesStay == ASSUME CallTypes, BackendSteps PROVE CallTypes'
<1>1. Nothing \in [stage : Stages, label : Labels \cup {None}, session : Handles \cup {None},
                   found : Numbers \cup {None}]
  BY DEF Nothing, Stages
<1>2. ASSUME NEW l \in Labels, Resolve(l) PROVE CallTypes'
  BY <1>2 DEF CallTypes, Resolve, Nothing, Stages, BeforeOpen
<1>3. CASE ListSecrets
  BY <1>3 DEF CallTypes, ListSecrets, Nothing, Stages, BeforeOpen
<1>4. CASE SlotInfo \/ BackendLogsIn \/ BackendReads
  BY <1>4 DEF CallTypes, SlotInfo, BackendLogsIn, BackendReads, At, Go, Stages,
                BeforeOpen
<1>5. CASE BackendOpens
  BY <1>5 DEF CallTypes, BackendOpens, Stages, BeforeOpen
<1>6. CASE BackendSearches
  BY <1>6 DEF CallTypes, BackendSearches, At, Go, Stages, BeforeOpen
<1>7. CASE BackendCloses \/ BackendFails
  BY <1>1, <1>7 DEF CallTypes, BackendCloses, BackendFails, Answer, Nothing, BeforeOpen
<1>8. CASE TokenChanges \/ TokenPulled
  BY <1>8 DEF CallTypes, TokenChanges, TokenPulled, backendVars
<1> QED BY <1>2, <1>3, <1>4, <1>5, <1>6, <1>7, <1>8 DEF BackendSteps

(***************************************************************************)
(* What a step of the backend does to the sessions and the login: nothing; *)
(* it opens a session, logs it in, closes it, or the token is pulled.      *)
(***************************************************************************)
LEMMA BackendSessions ==
    ASSUME CallTypes, BackendSteps
    PROVE  \/ UNCHANGED <<open, user>>
           \/ At("open") /\ \E h \in Handles : C_OpenSession(h, Host)
           \/ At("login") /\ Login(call.session, "user")
           \/ At("close") /\ C_End({call.session})
           \/ C_End(Handles)
BY DEF BackendSteps, ListSecrets, Resolve, SlotInfo, BackendOpens, BackendLogsIn, BackendSearches,
       BackendReads, BackendCloses, CloseSession, BackendFails, TokenChanges, TokenPulled,
       GetAttributes, tokenVars

LEMMA BackendKeepsLogins == ASSUME LoginInv, CallTypes, BackendNext PROVE LoginInv'
<1>1. SessionTypes /\ InResource /\ LoginHasSession
  BY DEF LoginInv
<1>2. BackendSteps /\ sess' = sess
  BY BackendStep
<1>3. CASE UNCHANGED <<open, user>>
  BY <1>1, <1>2, <1>3 DEF LoginInv, SessionTypes, InResource, LoginHasSession
<1>4. ASSUME NEW h \in Handles, C_OpenSession(h, Host) PROVE LoginInv'
  <2>1. open' = [open EXCEPT ![h] = Host] /\ user' = user
    BY <1>4 DEF C_OpenSession
  <2>2. \A i \in Handles : open'[i] = IF i = h THEN Host ELSE open[i]
    BY <1>1, <2>1 DEF SessionTypes
  <2>3. SessionTypes'
    BY <1>1, <1>2, <2>1 DEF SessionTypes
  <2>4. InResource' /\ LoginHasSession'
    BY <1>1, <1>2, <2>2, NoneIsNoGuest DEF InResource, LoginHasSession
  <2> QED BY <2>3, <2>4 DEF LoginInv
<1>5. CASE At("login") /\ Login(call.session, "user")
  <2>1. call.session \in Handles /\ open[call.session] # None /\ open' = open
    BY <1>5 DEF Login, C_Login, Known, CallTypes, At, BeforeOpen
  <2> QED BY <1>1, <1>2, <2>1 DEF LoginInv, SessionTypes, InResource, LoginHasSession
<1>6. ASSUME NEW hs, C_End(hs) PROVE LoginInv'
  BY <1>1, <1>2, <1>6, EndLeaves, NoneIsNoGuest DEF LoginInv, SessionTypes, InResource
<1> QED BY <1>2, <1>3, <1>4, <1>5, <1>6, BackendSessions

LEMMA BackendKeepsHostSession ==
    ASSUME LoginInv, CallTypes, OneHostSession, BackendNext
    PROVE  OneHostSession'
<1> SUFFICES ASSUME NEW h \in Handles, open'[h] = Host
             PROVE  h \in leaked' \/ (call'.session = h /\ call'.stage \notin BeforeOpen)
  BY DEF OneHostSession
<1>1. BackendSteps
  BY BackendStep
<1>2. CASE ListSecrets \/ (\E l \in Labels : Resolve(l)) \/ SlotInfo
  BY <1>2 DEF ListSecrets, Resolve, SlotInfo, At, Proceeds, tokenVars, OneHostSession, BeforeOpen
<1>3. CASE BackendOpens
  <2>1. PICK i \in Handles : /\ C_OpenSession(i, Host) /\ leaked' = leaked \ {i}
                             /\ call' = [call EXCEPT !.session = i,
                                                     !.stage = IF pin THEN "login" ELSE "init"]
    BY <1>3 DEF BackendOpens
  <2>2. h = i \/ (open[h] = Host /\ h # i)
    BY <2>1 DEF C_OpenSession, LoginInv, SessionTypes
  <2>3. h = i \/ h \in leaked'
    BY <1>3, <2>1, <2>2 DEF BackendOpens, At, OneHostSession, BeforeOpen
  <2> QED BY <2>1, <2>3 DEF CallTypes, BeforeOpen
<1>4. CASE BackendLogsIn \/ BackendSearches \/ BackendReads
  <2>1. open' = open /\ leaked' = leaked
    BY <1>4 DEF BackendLogsIn, BackendSearches, BackendReads, Login, C_Login, GetAttributes,
                tokenVars, Proceeds
  <2>2. call'.session = call.session /\ call'.stage \notin BeforeOpen
    BY <1>4 DEF BackendLogsIn, BackendSearches, BackendReads, Go, CallTypes, BeforeOpen
  <2> QED BY <2>1, <2>2 DEF OneHostSession
<1>5. CASE BackendCloses
  <2>1. \/ C_End({call.session}) /\ leaked' = leaked
        \/ open' = open /\ leaked' = leaked \cup {call.session}
    BY <1>5 DEF BackendCloses, CloseSession, tokenVars
  <2>2. open'[h] = open[h] /\ (h = call.session => h \in leaked')
    BY <2>1, EndLeaves, NoneIsNoGuest DEF LoginInv
  <2> QED BY <2>1, <2>2 DEF OneHostSession
<1>6. CASE BackendFails
  BY <1>6 DEF BackendFails, OneHostSession, tokenVars
<1>7. CASE TokenChanges
  BY <1>7 DEF TokenChanges, OneHostSession
<1>8. CASE TokenPulled
  <2>1. open'[h] = None
    BY <1>8, EndLeaves DEF TokenPulled, LoginInv
  <2> QED BY <2>1, NoneIsNoGuest
<1> QED BY <1>1, <1>2, <1>3, <1>4, <1>5, <1>6, <1>7, <1>8 DEF BackendSteps

LEMMA SharedInvariant == SharedSpec => []SharedInv
<1>1. Init /\ BackendInit => SharedInv
  <2> SUFFICES ASSUME Init, BackendInit PROVE SharedInv
    OBVIOUS
  <2>1. LoginInv
    BY NoneIsNoGuest DEF Init, LoginInv, SessionTypes, InResource, LoginHasSession
  <2>2. CallTypes /\ OneHostSession
    BY NoneIsNoGuest DEF Init, BackendInit, CallTypes, OneHostSession, Nothing, Stages, BeforeOpen
  <2> QED BY <2>1, <2>2 DEF SharedInv
<1>2. SharedInv /\ [SharedNext]_<<vars, backendVars>> => SharedInv'
  <2> SUFFICES ASSUME SharedInv, [SharedNext]_<<vars, backendVars>> PROVE SharedInv'
    OBVIOUS
  <2>1. CASE UNCHANGED <<vars, backendVars>>
    BY <2>1 DEF vars, backendVars, SharedInv, LoginInv, SessionTypes, InResource,
                LoginHasSession, CallTypes, OneHostSession
  <2>2. CASE GuestNext /\ UNCHANGED backendVars
    BY <2>2, GuestKeepsLogins DEF SharedInv, backendVars, CallTypes, OneHostSession
  <2>3. CASE BackendNext
    BY <2>3, BackendKeepsLogins, BackendKeepsHostSession, CallTypesStay, BackendStep DEF SharedInv
  <2> QED BY <2>1, <2>2, <2>3 DEF SharedNext
<1> QED BY <1>1, <1>2, PTL DEF SharedSpec

(***************************************************************************)
(* Guests and the backend share the login of a token.  While somebody is   *)
(* logged in and the backend has no session, a guest holds one that is     *)
(* open, however guests leave, reset the token, close everybody's sessions *)
(* or pull it: the login does not wait for the guests that come later      *)
(* (SessionInner::drop).                                                   *)
(***************************************************************************)
THEOREM LoginsEnd == SharedSpec => []NoLoginWithoutGuest
<1>1. SharedInv => NoLoginWithoutGuest
  <2> SUFFICES ASSUME SharedInv, user # "nobody", \A h \in Handles : open[h] # Host
               PROVE  \E g \in Guests : sess[g] # None /\ open[sess[g]] # None
    BY DEF NoLoginWithoutGuest
  <2>1. PICK h \in Handles : open[h] \in Guests
    BY DEF SharedInv, LoginInv, SessionTypes, LoginHasSession
  <2>2. sess[open[h]] = h
    BY <2>1 DEF SharedInv, LoginInv, InResource
  <2> QED BY <2>1, <2>2, NoneIsNoGuest
<1> QED BY <1>1, SharedInvariant, PTL

(***************************************************************************)
(* When no call is being served, every session that the backend still has  *)
(* is that of a call that was answered with an error, or whose close was   *)
(* refused and the refusal ignored, and so is a login that no guest could  *)
(* have made, whatever the guests do with the token meanwhile (resolve,    *)
(* list_secrets).                                                          *)
(***************************************************************************)
THEOREM AnsweredCallsLeaveNothing == SharedSpec => []OnlyErrorsLeak
<1>1. SharedInv => OnlyErrorsLeak
  BY DEF SharedInv, LoginInv, SessionTypes, LoginHasSession, OneHostSession, BeforeOpen, At, OnlyErrorsLeak
<1> QED BY <1>1, SharedInvariant, PTL

-----------------------------------------------------------------------------

ObjectTypes == objects \in [Numbers -> {None} \cup Things]
ResourceTypes == res \in [Resources -> {None} \cup Held]

(***************************************************************************)
(* Until a guest is careless: every number in use was issued, so that no   *)
(* session that opens revives one of them;                                 *)
(***************************************************************************)
AllIssued ==
    /\ \A h \in Handles : open[h] # None => h \in issued
    /\ \A g \in Guests : sess[g] # None => sess[g] \in issued
    /\ \A o \in Resources : res[o] # None => res[o].session \in issued

\* a resource that can still reach an object of the token reaches one its guest made, in
\* that session or for good;
Reaches(o) == res[o] # None /\ Known(res[o].session) /\ res[o].number # 0
OwnThings == \A o \in Resources : Reaches(o) =>
    LET thing == objects[res[o].number] IN
    thing # None /\ thing.maker = res[o].owner /\ thing.session \in {None, res[o].session}

\* and no two resources reach the same object.
OneResource == \A o, p \in Resources :
    Reaches(o) /\ Reaches(p) /\ res[o].number = res[p].number => o = p

Apart == AllIssued /\ OwnThings /\ OneResource /\ touched = {}

OwnInv == LoginInv /\ ObjectTypes /\ ResourceTypes /\ (~careless => Apart)

LEMMA HeldParts ==
    ASSUME ResourceTypes, NEW o \in Resources, res[o] # None
    PROVE  /\ res[o] \in Held /\ res[o].session \in Handles /\ res[o].owner \in Guests
           /\ res[o].number \in Numbers \cup {0}
BY DEF ResourceTypes, Held

\* A resource that expires is otherwise what it was.
LEMMA ExpiresLeaves ==
    ASSUME ResourceTypes, Expires
    PROVE  /\ ResourceTypes'
           /\ \A o \in Resources :
                /\ res'[o] # None => res[o] # None
                /\ res'[o].session = res[o].session /\ res'[o].number = res[o].number
                /\ res'[o].owner = res[o].owner
<1> DEFINE expired(o) == [res[o] EXCEPT !.fresh = FALSE]
<1>1. \A o \in Resources : res[o] # None =>
          /\ expired(o) \in Held /\ expired(o).session = res[o].session
          /\ expired(o).number = res[o].number /\ expired(o).owner = res[o].owner
  BY HeldParts DEF Held
<1>2. \A o \in Resources :
          (res'[o] = expired(o) /\ res[o] # None) \/ res'[o] = res[o]
  BY DEF Expires
<1>3. res' = [o \in Resources |-> res'[o]]
  BY DEF Expires
<1> HIDE DEF expired
<1>4. ResourceTypes'
  BY <1>1, <1>2, <1>3 DEF ResourceTypes
<1> QED BY <1>1, <1>2, <1>4

(***************************************************************************)
(* Sessions that end take their objects with them, and no other.           *)
(***************************************************************************)
LEMMA EndKeepsApart ==
    ASSUME SessionTypes, ObjectTypes, ResourceTypes, Apart, NEW hs \in SUBSET Handles,
           C_End(hs), Expires, touched' = touched,
           \A g \in Guests : sess'[g] # None => sess'[g] = sess[g]
    PROVE  Apart'
<1>1. \A h \in Handles : open'[h] = IF h \in hs THEN None ELSE open[h]
  BY EndLeaves
<1>2. issued' = issued /\ \A n \in Numbers : objects'[n] =
          IF objects[n] # None /\ objects[n].session \in hs THEN None ELSE objects[n]
  BY DEF C_End
<1>3. \A o \in Resources :
          /\ res'[o] # None => res[o] # None
          /\ res'[o].session = res[o].session /\ res'[o].number = res[o].number
          /\ res'[o].owner = res[o].owner
  BY ExpiresLeaves
<1>4. AllIssued'
  BY <1>1, <1>2, <1>3 DEF Apart, AllIssued
<1>5. \A o \in Resources : Reaches(o)' => Reaches(o) /\ res[o].session \notin hs
  BY <1>1, <1>3, HeldParts DEF Reaches, Known
<1>6. OwnThings'
  <2> SUFFICES ASSUME NEW o \in Resources, Reaches(o)'
               PROVE  LET thing == objects'[res'[o].number] IN
                      /\ thing # None /\ thing.maker = res'[o].owner
                      /\ thing.session \in {None, res'[o].session}
    BY DEF OwnThings
  <2> DEFINE n == res[o].number
             thing == objects[n]
  <2>1. Reaches(o) /\ res[o].session \notin hs /\ n \in Numbers
    BY <1>5, HeldParts DEF Reaches
  <2>2. /\ thing # None /\ thing.maker = res[o].owner
        /\ thing.session \in {None, res[o].session}
    BY <2>1 DEF Apart, OwnThings
  <2>3. thing.session \notin hs
    BY <2>1, <2>2, NoneIsNoGuest
  <2>4. objects'[n] = thing
    BY <1>2, <2>1, <2>3
  <2> HIDE DEF thing, n
  <2> QED BY <1>3, <2>2, <2>4 DEF n
<1>7. OneResource'
  BY <1>3, <1>5 DEF Apart, OneResource
<1> QED BY <1>4, <1>6, <1>7 DEF Apart

(***************************************************************************)
(* A resource is made for an object that is new, in an open session.       *)
(***************************************************************************)
LEMMA MadeKeepsApart ==
    ASSUME LoginInv, ObjectTypes, ResourceTypes, Apart,
           NEW g \in Guests, NEW o \in Resources, NEW n \in Numbers, NEW thing \in Made(g),
           sess[g] # None, C_CreateObject(sess[g], n, thing), Holds(g, o, n),
           touched' = touched, sess' = sess
    PROVE  Apart'
<1> DEFINE new == [owner |-> g, session |-> sess[g], number |-> n, fresh |-> TRUE]
<1>1. /\ thing \in Things /\ thing # None /\ thing.maker = g
      /\ thing.session \in {None, sess[g]} /\ n # 0 /\ sess[g] \in issued
  BY NoneAssumption, NoneIsNoGuest DEF Made, Apart, AllIssued
<1>2. new.owner = g /\ new.session = sess[g] /\ new.number = n
  OBVIOUS
<1>3. /\ res' = [res EXCEPT ![o] = new] /\ res[o] = None
      /\ objects[n] = None /\ objects' = [objects EXCEPT ![n] = thing]
      /\ UNCHANGED <<open, issued, user>>
  BY DEF Holds, C_CreateObject
<1> HIDE DEF new
<1>4. /\ \A p \in Resources : res'[p] = IF p = o THEN new ELSE res[p]
      /\ \A i \in Numbers : objects'[i] = IF i = n THEN thing ELSE objects[i]
  BY <1>3 DEF ObjectTypes, ResourceTypes
<1>5. \A p \in Resources : p # o => (Reaches(p)' <=> Reaches(p))
  BY <1>3, <1>4 DEF Reaches, Known
<1>6. \A p \in Resources : Reaches(p) => res[p].number # n /\ res[p].number \in Numbers
  BY <1>3, HeldParts DEF Apart, OwnThings, Reaches
<1>7. AllIssued'
  BY <1>1, <1>2, <1>3, <1>4 DEF Apart, AllIssued
<1>8. OwnThings'
  BY <1>1, <1>2, <1>4, <1>5, <1>6 DEF Apart, OwnThings
<1>9. OneResource'
  BY <1>2, <1>4, <1>5, <1>6 DEF Apart, OneResource
<1> QED BY <1>7, <1>8, <1>9 DEF Apart

\* What a guest reaches through a resource that reaches something is its own.
LEMMA ReachedIsOwn ==
    ASSUME ResourceTypes, Apart, NEW o \in Resources, res[o] # None,
           Reached(res[o].session, res[o].number), Touches(res[o].owner, res[o].number)
    PROVE  Reaches(o) /\ touched' = touched
<1>1. Reaches(o)
  BY NoneIsNoGuest DEF Reached, Reaches
<1> QED BY <1>1 DEF Apart, OwnThings, Touches

LEMMA EndKeepsObjectTypes == ASSUME ObjectTypes, NEW hs, C_End(hs) PROVE ObjectTypes'
BY DEF ObjectTypes, C_End

LEMMA MadeKeepsTypes ==
    ASSUME LoginInv, ObjectTypes, ResourceTypes,
           NEW g \in Guests, NEW o \in Resources, NEW n \in Numbers, NEW thing \in Made(g),
           sess[g] # None, C_CreateObject(sess[g], n, thing), Holds(g, o, n)
    PROVE  ObjectTypes' /\ ResourceTypes'
<1>1. sess[g] \in Handles /\ thing \in Things
  BY DEF LoginInv, SessionTypes, Made
<1>2. [owner |-> g, session |-> sess[g], number |-> n, fresh |-> TRUE] \in Held
  BY <1>1 DEF Held
<1> QED BY <1>1, <1>2 DEF ObjectTypes, ResourceTypes, C_CreateObject, Holds

(***************************************************************************)
(* A session opens with a number that was issued before, which is          *)
(* careless, or that nobody has.                                           *)
(***************************************************************************)
LEMMA OpenKeepsApart ==
    ASSUME OwnInv, NEW g \in Guests, NEW h \in Handles, OpenSession(g, h), ~careless'
    PROVE  Apart'
<1>1. /\ h \notin issued /\ ~careless /\ issued' = issued \cup {h}
      /\ open' = [open EXCEPT ![h] = g] /\ sess' = [sess EXCEPT ![g] = h]
      /\ UNCHANGED <<objects, res, touched>>
  BY DEF OpenSession, C_OpenSession
<1>2. Apart /\ SessionTypes
  BY <1>1 DEF OwnInv, LoginInv
<1>3. /\ \A i \in Handles : open'[i] = IF i = h THEN g ELSE open[i]
      /\ \A x \in Guests : sess'[x] = IF x = g THEN h ELSE sess[x]
  BY <1>1, <1>2 DEF SessionTypes
<1>4. AllIssued'
  BY <1>1, <1>2, <1>3 DEF Apart, AllIssued
<1>5. \A o \in Resources : Reaches(o)' => Reaches(o)
  <2> SUFFICES ASSUME NEW o \in Resources, Reaches(o)' PROVE Reaches(o)
    OBVIOUS
  <2>1. res[o] # None /\ res[o].session \in Handles /\ res[o].session # h
    BY <1>1, <1>2, HeldParts DEF Reaches, OwnInv, Apart, AllIssued
  <2> QED BY <1>1, <1>3, <2>1 DEF Reaches, Known
<1>6. OwnThings' /\ OneResource'
  BY <1>1, <1>2, <1>5 DEF Apart, OwnThings, OneResource
<1> QED BY <1>1, <1>2, <1>4, <1>6 DEF Apart

LEMMA CopyKeeps ==
    ASSUME OwnInv, NEW g \in Guests, NEW o \in Resources, NEW source \in Resources,
           SessionCopies(g, source, o)
    PROVE  ObjectTypes' /\ ResourceTypes' /\ (~careless' => Apart')
<1>1. PICK n \in Numbers, thing \in Made(g) :
          /\ Reached(sess[g], res[source].number) /\ C_CreateObject(sess[g], n, thing)
          /\ Holds(g, o, n)
  BY DEF SessionCopies, CopyObject
<1>2. ASSUME ~careless' PROVE Apart'
  <2>1. /\ ~careless /\ res[source] # None /\ res[source].owner = g
        /\ res[source].session = sess[g] /\ sess[g] # None /\ sess' = sess
        /\ Touches(g, res[source].number)
    BY <1>2 DEF SessionCopies
  <2>2. Apart /\ LoginInv /\ ObjectTypes /\ ResourceTypes
    BY <2>1 DEF OwnInv
  <2>3. touched' = touched
    BY <1>1, <2>1, <2>2, ReachedIsOwn
  <2> QED BY <1>1, <2>1, <2>2, <2>3, MadeKeepsApart
<1> QED BY <1>1, <1>2, MadeKeepsTypes DEF OwnInv, SessionCopies

LEMMA CreateKeeps ==
    ASSUME OwnInv, NEW g \in Guests, NEW o \in Resources, SessionCreates(g, o)
    PROVE  ObjectTypes' /\ ResourceTypes' /\ (~careless' => Apart')
<1>1. PICK n \in Numbers, thing \in Made(g) : C_CreateObject(sess[g], n, thing) /\ Holds(g, o, n)
  BY DEF SessionCreates, CreateObject
<1>2. sess[g] # None /\ UNCHANGED <<sess, touched, careless>>
  BY DEF SessionCreates
<1> QED BY <1>1, <1>2, MadeKeepsTypes, MadeKeepsApart DEF OwnInv

(***************************************************************************)
(* Where an object is destroyed, no other resource reaches it.             *)
(***************************************************************************)
LEMMA DestroyKeeps ==
    ASSUME OwnInv, NEW o \in Resources, ObjectDestroys(o)
    PROVE  ObjectTypes' /\ ResourceTypes' /\ (~careless' => Apart')
<1> DEFINE n == res[o].number
           left == [res[o] EXCEPT !.number = 0]
<1>1. /\ res[o] # None /\ Reached(res[o].session, n) /\ Touches(res[o].owner, n)
      /\ res' = [res EXCEPT ![o] = left] /\ objects' = [objects EXCEPT ![n] = None]
      /\ UNCHANGED <<open, issued, user, sess, careless>>
  <2>1. res' = [res EXCEPT ![o] = left]
    BY DEF ObjectDestroys, OwnInv, ResourceTypes
  <2> QED BY <2>1 DEF ObjectDestroys, DestroyObject, C_DestroyObject
<1>2. left \in Held /\ left.number = 0 /\ left.session = res[o].session
  BY <1>1, HeldParts DEF OwnInv, Held
<1> HIDE DEF left
<1>3. ObjectTypes' /\ ResourceTypes'
  BY <1>1, <1>2 DEF OwnInv, ObjectTypes, ResourceTypes
<1>4. ASSUME ~careless PROVE Apart'
  <2>1. Apart /\ ResourceTypes /\ ObjectTypes
    BY <1>4 DEF OwnInv
  <2>2. Reaches(o) /\ touched' = touched
    BY <1>1, <2>1, ReachedIsOwn
  <2>3. /\ \A p \in Resources : res'[p] = IF p = o THEN left ELSE res[p]
        /\ \A i \in Numbers : i # n => objects'[i] = objects[i]
    BY <1>1, <2>1 DEF ObjectTypes, ResourceTypes
  <2>4. \A p \in Resources : Reaches(p)' => p # o /\ Reaches(p) /\ res[p].number # n
    BY <1>1, <1>2, <2>1, <2>2, <2>3 DEF Reaches, Known, Apart, OneResource
  <2>5. \A p \in Resources : Reaches(p) => res[p].number \in Numbers
    BY <2>1, HeldParts DEF Reaches
  <2>6. AllIssued'
    BY <1>1, <1>2, <2>1, <2>3 DEF Apart, AllIssued
  <2> HIDE DEF n
  <2>7. OwnThings' /\ OneResource'
    BY <2>1, <2>3, <2>4, <2>5 DEF Apart, OwnThings, OneResource
  <2> QED BY <2>1, <2>2, <2>6, <2>7 DEF Apart
<1> QED BY <1>1, <1>3, <1>4

LEMMA ReadKeeps ==
    ASSUME OwnInv, NEW o \in Resources, ObjectReads(o)
    PROVE  ObjectTypes' /\ ResourceTypes' /\ (~careless' => Apart')
<1>1. /\ res[o] # None /\ Reached(res[o].session, res[o].number)
      /\ Touches(res[o].owner, res[o].number)
      /\ UNCHANGED <<open, issued, user, objects, sess, res, careless>>
  BY DEF ObjectReads, SetAttributes, GetAttributes, GetObjectSize, tokenVars
<1>2. ~careless => Apart'
  BY <1>1, ReachedIsOwn DEF OwnInv, Apart, AllIssued, OwnThings, OneResource, Reaches, Known
<1> QED BY <1>1, <1>2 DEF OwnInv, ObjectTypes, ResourceTypes

\* A resource that is dropped, or bound, which is careless.
LEMMA OtherResourcesKeep ==
    ASSUME OwnInv, NEW o \in Resources,
           DropObject(o) \/ \E g \in Guests : BindObject(g, o)
    PROVE  ObjectTypes' /\ ResourceTypes' /\ (~careless' => Apart')
<1>1. CASE DropObject(o)
  <2>1. res' = [res EXCEPT ![o] = None] /\ UNCHANGED <<open, issued, objects, sess, touched, careless>>
    BY <1>1 DEF DropObject, tokenVars
  <2>2. /\ ObjectTypes' /\ ResourceTypes'
        /\ \A p \in Resources : res'[p] = IF p = o THEN None ELSE res[p]
    BY <2>1 DEF OwnInv, ObjectTypes, ResourceTypes
  <2>3. \A p \in Resources : Reaches(p)' => p # o /\ Reaches(p)
    BY <2>1, <2>2 DEF Reaches, Known
  <2>4. Apart => Apart'
    BY <2>1, <2>2, <2>3 DEF Apart, AllIssued, OwnThings, OneResource
  <2> QED BY <2>1, <2>2, <2>4 DEF OwnInv
<1>2. ASSUME NEW g \in Guests, BindObject(g, o)
      PROVE  ObjectTypes' /\ ResourceTypes' /\ (~careless' => Apart')
  <2>1. PICK n \in Numbers : Holds(g, o, n) /\ sess[g] # None
    BY <1>2 DEF BindObject
  <2>2. [owner |-> g, session |-> sess[g], number |-> n, fresh |-> TRUE] \in Held
    BY <2>1 DEF OwnInv, LoginInv, SessionTypes, Held
  <2>3. ResourceTypes'
    BY <2>1, <2>2 DEF OwnInv, ResourceTypes, Holds
  <2> QED BY <1>2, <2>3 DEF BindObject, tokenVars, OwnInv, ObjectTypes
<1> QED BY <1>1, <1>2

LEMMA EndsKeep ==
    ASSUME OwnInv, NEW hs \in SUBSET Handles, C_End(hs), Expires, UNCHANGED <<touched, careless>>,
           \A g \in Guests : sess'[g] # None => sess'[g] = sess[g]
    PROVE  ObjectTypes' /\ ResourceTypes' /\ (~careless' => Apart')
BY EndKeepsApart, EndKeepsObjectTypes, ExpiresLeaves DEF OwnInv, LoginInv

LEMMA NothingEnds ==
    ASSUME OwnInv, open' = open, issued' = issued, Expires, UNCHANGED <<touched, careless>>,
           \/ objects' = objects
           \/ objects' = [n \in Numbers |-> None] /\ \A h \in Handles : ~Known(h),
           \A g \in Guests : sess'[g] # None => sess'[g] = sess[g]
    PROVE  ObjectTypes' /\ ResourceTypes' /\ (~careless' => Apart')
<1>1. ObjectTypes'
  BY DEF OwnInv, ObjectTypes
<1>2. /\ ResourceTypes'
      /\ \A o \in Resources :
           /\ res'[o] # None => res[o] # None
           /\ res'[o].session = res[o].session /\ res'[o].number = res[o].number
           /\ res'[o].owner = res[o].owner
  BY ExpiresLeaves DEF OwnInv
<1>3. \A o \in Resources : Reaches(o)' => Reaches(o)
  BY <1>2 DEF Reaches, Known
<1>4. \A o \in Resources : Reaches(o) => Known(res[o].session) /\ res[o].session \in Handles
  BY HeldParts DEF OwnInv, Reaches
<1>5. ASSUME Apart PROVE Apart'
  <2>1. AllIssued'
    BY <1>2, <1>5 DEF Apart, AllIssued
  <2>2. OneResource'
    BY <1>2, <1>3, <1>5 DEF Apart, OneResource
  <2>3. OwnThings'
    BY <1>2, <1>3, <1>4, <1>5 DEF Apart, OwnThings
  <2> QED BY <1>5, <2>1, <2>2, <2>3 DEF Apart
<1> QED BY <1>1, <1>2, <1>5 DEF OwnInv

LEMMA OwnNextKeeps == OwnInv /\ [GuestNext]_vars => OwnInv'
<1> SUFFICES ASSUME OwnInv, [GuestNext]_vars PROVE OwnInv'
  OBVIOUS
<1>1. CASE UNCHANGED vars
  BY <1>1 DEF vars, OwnInv, LoginInv, SessionTypes, InResource, LoginHasSession, ObjectTypes,
              ResourceTypes, Apart, AllIssued, OwnThings, OneResource, Reaches, Known
<1>2. CASE GuestNext
  <2> SUFFICES ObjectTypes' /\ ResourceTypes' /\ (~careless' => Apart')
    BY <1>2, GuestKeepsLogins DEF OwnInv
  <2>1. CASE EndForAll
    <3>1. Expires /\ UNCHANGED <<sess, touched, careless>>
      BY <2>1 DEF EndForAll
    <3>2. \/ C_End({h \in Handles : Known(h)})
          \/ /\ open' = open /\ issued' = issued
             /\ objects' = [n \in Numbers |-> None] /\ \A h \in Handles : ~Known(h)
      BY <2>1 DEF EndForAll, CloseAllSessions, InitToken, C_InitToken
    <3> QED BY <3>1, <3>2, EndsKeep, NothingEnds
  <2>2. ASSUME NEW g \in Guests, NEW h \in Handles, OpenSession(g, h)
        PROVE  ObjectTypes' /\ ResourceTypes' /\ (~careless' => Apart')
    BY <2>2, OpenKeepsApart DEF OwnInv, ObjectTypes, ResourceTypes, OpenSession, C_OpenSession
  <2>3. ASSUME NEW g \in Guests, Close(g) \/ DropSession(g)
        PROVE  ObjectTypes' /\ ResourceTypes' /\ (~careless' => Apart')
    <3>1. /\ sess[g] # None /\ sess[g] \in Handles
          /\ Expires /\ UNCHANGED <<touched, careless>>
          /\ \A x \in Guests : sess'[x] # None => sess'[x] = sess[x]
      BY <2>3 DEF OwnInv, LoginInv, SessionTypes, Close, DropSession
    <3>2. C_End({sess[g]}) \/ UNCHANGED <<open, issued, objects>>
      BY <2>3 DEF Close, DropSession, tokenVars
    <3> QED BY <3>1, <3>2, EndsKeep, NothingEnds
  <2>4. ASSUME NEW g \in Guests, SessionLogin(g)
        PROVE  ObjectTypes' /\ ResourceTypes' /\ (~careless' => Apart')
    <3>1. issued' = issued
      BY <2>4 DEF SessionLogin, Login, LoginVendor, Logout, C_Login, C_Logout
    <3> QED BY <2>4, <3>1, LoginStep DEF OwnInv, ObjectTypes, ResourceTypes, Apart, AllIssued,
               OwnThings, OneResource, Reaches, Known
  <2> QED BY <1>2, <2>1, <2>2, <2>3, <2>4, CreateKeeps, CopyKeeps, DestroyKeeps, ReadKeeps,
             OtherResourcesKeep DEF GuestNext
<1> QED BY <1>1, <1>2

(***************************************************************************)
(* As long as the module issues no session number again, and guests bind   *)
(* no numbers, those a search found among them, and copy only in the       *)
(* session of the source, no call of a guest reaches an object of another  *)
(* one: neither objects that end with their session nor object numbers     *)
(* that are given again lead astray (ObjectInner).                         *)
(***************************************************************************)
THEOREM GuestsKeepApart == GuestSpec => []OwnObjectsOnly
<1>1. Init => OwnInv
  <2> SUFFICES ASSUME Init PROVE OwnInv
    OBVIOUS
  <2>1. LoginInv
    BY NoneIsNoGuest DEF Init, LoginInv, SessionTypes, InResource, LoginHasSession
  <2>2. ObjectTypes /\ ResourceTypes
    BY DEF Init, ObjectTypes, ResourceTypes, Things
  <2>3. Apart
    BY DEF Init, Apart, AllIssued, OwnThings, OneResource, Reaches
  <2> QED BY <2>1, <2>2, <2>3 DEF OwnInv
<1>2. OwnInv /\ [GuestNext]_vars => OwnInv'
  BY OwnNextKeeps
<1>3. OwnInv => OwnObjectsOnly
  BY DEF OwnInv, Apart, OwnObjectsOnly
<1> QED BY <1>1, <1>2, <1>3, PTL DEF GuestSpec

-----------------------------------------------------------------------------

\* The objects of the token are there for good, in no session.
TokenObjects ==
    /\ ObjectTypes
    /\ \A n \in Numbers : objects[n] # None => objects[n].session = None

LoggedIn == BeforeOpen \cup {"login"}

(***************************************************************************)
(* With a PIN, a call that has got past the login is logged in for as long *)
(* as its session lasts, so that its search sees what there is; what has   *)
(* not been there all along is missing, and a search that found nothing    *)
(* has found out as much.                                                  *)
(***************************************************************************)
SeesAll == pin /\ call.stage \notin LoggedIn /\ Known(call.session) => user = "user"
Noticed == call.stage # "idle" /\ call.label # None /\ ~HasLabel(objects, call.label) => missing
Searched == pin /\ call.stage \in {"final", "attributes", "close"} /\ call.label # None
              /\ call.found = None => missing

Searches == call.stage = "batch" => call.label = None

CallInv == SeesAll /\ Noticed /\ Searched /\ Searches /\ NotFoundIsTrue

BackendInv == SessionTypes /\ CallTypes /\ TokenObjects /\ CallInv

\* Ends of sessions leave the objects of the token.
LEMMA TokenObjectsStay ==
    ASSUME TokenObjects, NEW hs \in SUBSET Handles, C_End(hs)
    PROVE  TokenObjects' /\ \A l : HasLabel(objects, l) <=> HasLabel(objects', l)
<1>1. \A n \in Numbers : objects'[n] = objects[n]
  BY NoneIsNoGuest DEF TokenObjects, C_End
<1> QED BY <1>1, EndKeepsObjectTypes DEF TokenObjects, HasLabel

\* What a step of the backend leaves of objects and PIN: only another process changes them.
LEMMA BackendObjects ==
    ASSUME SessionTypes, CallTypes, TokenObjects, BackendNext
    PROVE  /\ SessionTypes' /\ TokenObjects' /\ pin' = pin
           /\ ~TokenChanges => \A l : HasLabel(objects, l) <=> HasLabel(objects', l)
<1>1. BackendSteps /\ sess' = sess
  BY BackendStep
<1>2. pin' = pin
  BY <1>1 DEF BackendSteps, ListSecrets, Resolve, SlotInfo, BackendOpens, BackendLogsIn,
              BackendSearches, BackendReads, BackendCloses, BackendFails, TokenChanges,
              TokenPulled, Proceeds, Answer, backendVars
<1>3. CASE TokenChanges
  <2>1. PICK n \in Numbers, t \in Things \cup {None} :
            /\ t # None => t.maker = Host /\ t.session = None
            /\ objects' = [objects EXCEPT ![n] = t]
    BY <1>3 DEF TokenChanges
  <2>2. ObjectTypes'
    BY <2>1 DEF TokenObjects, ObjectTypes
  <2>3. \A i \in Numbers : objects'[i] = IF i = n THEN t ELSE objects[i]
    BY <2>1 DEF TokenObjects, ObjectTypes
  <2>4. TokenObjects'
    BY <2>1, <2>2, <2>3 DEF TokenObjects
  <2> QED BY <1>1, <1>2, <1>3, <2>4 DEF TokenChanges, SessionTypes
<1>4. CASE ~TokenChanges
  <2>1. \/ UNCHANGED <<open, objects>>
        \/ At("open") /\ \E h \in Handles : C_OpenSession(h, Host)
        \/ At("close") /\ C_End({call.session})
        \/ C_End(Handles)
    BY <1>1, <1>4
       DEF BackendSteps, ListSecrets, Resolve, SlotInfo, BackendOpens, BackendLogsIn, Login,
           C_Login, BackendSearches, BackendReads, BackendCloses, CloseSession, BackendFails,
           TokenPulled, GetAttributes, tokenVars
  <2>2. CASE UNCHANGED <<open, objects>>
    BY <1>1, <1>2, <1>4, <2>2 DEF SessionTypes, TokenObjects, ObjectTypes
  <2>3. CASE \E h \in Handles : C_OpenSession(h, Host)
    BY <1>1, <1>2, <1>4, <2>3 DEF C_OpenSession, SessionTypes, TokenObjects, ObjectTypes
  <2>4. ASSUME NEW hs \in SUBSET Handles, C_End(hs)
        PROVE  SessionTypes' /\ TokenObjects' /\ \A l : HasLabel(objects, l) <=> HasLabel(objects', l)
    BY <1>1, <2>4, TokenObjectsStay, EndLeaves DEF SessionTypes
  <2>5. At("close") => {call.session} \in SUBSET Handles
    BY DEF At, CallTypes, BeforeOpen
  <2> QED BY <1>2, <1>4, <2>1, <2>2, <2>3, <2>4, <2>5
<1> QED BY <1>3, <1>4

LEMMA CallBegins ==
    ASSUME CallTypes, CallInv, ListSecrets \/ (\E l \in Labels : Resolve(l)) \/ SlotInfo
    PROVE  CallInv'
<1>1. CASE ListSecrets
  BY <1>1 DEF ListSecrets, Nothing, tokenVars, CallInv, SeesAll, Noticed, Searched, Searches,
              NotFoundIsTrue, LoggedIn, BeforeOpen, At
<1>2. ASSUME NEW l \in Labels, Resolve(l) PROVE CallInv'
  BY <1>2 DEF Resolve, Nothing, tokenVars, CallInv, SeesAll, Noticed, Searched, Searches,
              NotFoundIsTrue, LoggedIn, BeforeOpen, At
<1>3. ASSUME SlotInfo PROVE CallInv'
  BY <1>3 DEF SlotInfo, Go, CallTypes, Proceeds, tokenVars, CallInv, SeesAll, Noticed, Searched,
              Searches, NotFoundIsTrue, LoggedIn, BeforeOpen, At
<1> QED BY <1>1, <1>2, <1>3

LEMMA CallProceeds ==
    ASSUME CallTypes, CallInv, BackendOpens \/ BackendLogsIn \/ BackendReads
    PROVE  CallInv'
<1>1. CASE BackendOpens
  <2>1. /\ UNCHANGED <<objects, pin, last, missing>> /\ call.stage = "open"
        /\ call'.label = call.label /\ call'.stage = IF pin THEN "login" ELSE "init"
    BY <1>1 DEF BackendOpens, C_OpenSession, CallTypes, At
  <2> QED BY <2>1 DEF CallInv, SeesAll, Noticed, Searched, Searches, NotFoundIsTrue, LoggedIn, At,
                      HasLabel
<1>2. CASE BackendLogsIn
  <2>1. /\ objects' = objects /\ user' = "user" /\ Proceeds /\ call.stage = "login"
        /\ call'.label = call.label /\ call'.stage = "init"
    BY <1>2 DEF BackendLogsIn, Login, C_Login, Go, CallTypes, At
  <2> QED BY <2>1 DEF Proceeds, CallInv, SeesAll, Noticed, Searched, Searches, NotFoundIsTrue, At,
                      HasLabel
<1>3. CASE BackendReads
  <2>1. /\ UNCHANGED <<open, user, objects>> /\ Proceeds /\ call.stage = "attributes"
        /\ call'.label = call.label /\ call'.found = call.found
        /\ call'.session = call.session /\ call'.stage = "close"
    BY <1>3 DEF BackendReads, GetAttributes, tokenVars, Go, CallTypes, At
  <2> QED BY <2>1 DEF Proceeds, CallInv, SeesAll, Noticed, Searched, Searches, NotFoundIsTrue, At,
                      LoggedIn, BeforeOpen, Known, HasLabel
<1> QED BY <1>1, <1>2, <1>3

(***************************************************************************)
(* The search: logged in, it finds an object that has the label, where     *)
(* there is one.                                                           *)
(***************************************************************************)
LEMMA CallSearches == ASSUME CallTypes, CallInv, BackendSearches PROVE CallInv'
<1>1. UNCHANGED <<open, user, objects>> /\ Proceeds /\ Known(call.session)
  BY DEF BackendSearches, tokenVars
<1>2. /\ call'.label = call.label /\ call'.session = call.session
      /\ call.stage \in {"init", "find", "batch", "final"}
      /\ call'.stage \in {"find", "batch", "final", "close", "attributes"}
      /\ call'.stage = "batch" => call.label = None
  BY DEF BackendSearches, Go, CallTypes, At
<1>3. SeesAll' /\ Noticed' /\ Searches' /\ NotFoundIsTrue'
  BY <1>1, <1>2 DEF CallInv, SeesAll, Noticed, Searches, NotFoundIsTrue, Proceeds, LoggedIn,
                    BeforeOpen, Known, HasLabel, At
<1>4. Searched'
  <2> SUFFICES ASSUME pin, call'.stage \in {"final", "attributes", "close"}, call.label # None,
                      call'.found = None
               PROVE  missing
    BY <1>1, <1>2 DEF Searched, Proceeds
  <2>1. CASE At("find")
    <3>1. user = "user"
      BY <1>1, <2>1 DEF CallInv, SeesAll, LoggedIn, BeforeOpen, At
    <3>2. ~\E n \in Numbers : Visible(n) /\ objects[n].label = call.label
      <4> SUFFICES ASSUME \E n \in Numbers : Visible(n) /\ objects[n].label = call.label
                   PROVE  FALSE
        OBVIOUS
      <4>1. \E n \in Numbers : call' = [call EXCEPT !.stage = "final", !.found = n]
        BY <2>1 DEF BackendSearches, At
      <4>2. \E n \in Numbers : call'.found = n
        BY <4>1 DEF CallTypes
      <4> QED BY <4>2, NoneIsNoGuest
    <3>3. ~HasLabel(objects, call.label)
      BY <3>1, <3>2 DEF Visible, HasLabel
    <3> QED BY <2>1, <3>3 DEF CallInv, Noticed, At
  <2>2. CASE At("final")
    <3>1. call'.found = call.found
      BY <2>2 DEF BackendSearches, Go, CallTypes, At
    <3> QED BY <2>2, <3>1 DEF CallInv, Searched, At
  <2>3. CASE At("batch")
    BY <2>3 DEF CallInv, Searches, At
  <2>4. ~At("init")
    BY DEF BackendSearches, Go, CallTypes, At
  <2> QED BY <1>2, <2>1, <2>2, <2>3, <2>4 DEF At
<1> QED BY <1>3, <1>4 DEF CallInv

LEMMA CallEnds ==
    ASSUME CallInv, BackendCloses \/ BackendFails
    PROVE  CallInv'
<1>1. call' = Nothing /\ missing' = missing /\ pin' = pin
  BY DEF BackendCloses, BackendFails, Answer
<1>2. CASE BackendCloses
  BY <1>1, <1>2 DEF BackendCloses, Answer, Served, Nothing, CallInv, SeesAll, Noticed, Searched,
                    Searches, NotFoundIsTrue, LoggedIn, BeforeOpen, At
<1>3. CASE BackendFails
  BY <1>1, <1>3 DEF BackendFails, Answer, Nothing, CallInv, SeesAll, Noticed, Searched, Searches,
                    NotFoundIsTrue, LoggedIn, BeforeOpen, At
<1> QED BY <1>2, <1>3

LEMMA TokenKeepsCall ==
    ASSUME CallTypes, CallInv, SessionTypes,
           \/ TokenChanges
           \/ TokenPulled /\ \A l : HasLabel(objects, l) <=> HasLabel(objects', l)
    PROVE  CallInv'
<1>1. CASE TokenChanges
  <2>1. UNCHANGED <<open, user, pin, call, last>> /\
        missing' = (missing \/ (~At("idle") /\ ~HasLabel(objects', call.label)))
    BY <1>1 DEF TokenChanges
  <2> QED BY <2>1 DEF CallInv, SeesAll, Noticed, Searched, Searches, NotFoundIsTrue, Known, At
<1>2. CASE TokenPulled /\ \A l : HasLabel(objects, l) <=> HasLabel(objects', l)
  <2>1. UNCHANGED <<pin, call, last, missing>> /\ \A h \in Handles : ~Known(h)'
    BY <1>2, EndLeaves DEF TokenPulled, backendVars, Known
  <2>2. SeesAll'
    BY <2>1 DEF SeesAll, CallTypes, LoggedIn
  <2> QED BY <1>2, <2>1, <2>2 DEF CallInv, Noticed, Searched, Searches, NotFoundIsTrue, At
<1> QED BY <1>1, <1>2

(***************************************************************************)
(* A backend with a PIN that has the token to itself answers "not found"   *)
(* only where no object had the label at some time of the call, whatever   *)
(* calls fail, whatever other processes store or remove, and whenever the  *)
(* token is pulled: never because the object is private and the login has  *)
(* gone (resolve).                                                         *)
(***************************************************************************)
THEOREM NotFoundIsMissing == BackendSpec => []NotFoundIsTrue
<1>1. Init /\ BackendInit => BackendInv
  <2> SUFFICES ASSUME Init, BackendInit PROVE BackendInv
    OBVIOUS
  <2>1. SessionTypes
    BY DEF Init, SessionTypes
  <2>2. CallTypes
    BY DEF BackendInit, CallTypes, Nothing, Stages, BeforeOpen
  <2>3. TokenObjects
    BY DEF Init, TokenObjects, ObjectTypes, Things
  <2>4. CallInv
    BY DEF BackendInit, CallInv, SeesAll, Noticed, Searched, Searches, NotFoundIsTrue, Nothing,
           LoggedIn, BeforeOpen, At
  <2> QED BY <2>1, <2>2, <2>3, <2>4 DEF BackendInv
<1>2. BackendInv /\ [BackendNext]_<<vars, backendVars>> => BackendInv'
  <2> SUFFICES ASSUME BackendInv, [BackendNext]_<<vars, backendVars>> PROVE BackendInv'
    OBVIOUS
  <2>1. CASE UNCHANGED <<vars, backendVars>>
    BY <2>1 DEF vars, backendVars, BackendInv, SessionTypes, CallTypes, TokenObjects, ObjectTypes,
                CallInv, SeesAll, Noticed, Searched, Searches, NotFoundIsTrue, HasLabel, Known, At
  <2>2. CASE BackendNext
    <3>1. BackendSteps /\ SessionTypes' /\ TokenObjects' /\ CallTypes'
      BY <2>2, BackendStep, BackendObjects, CallTypesStay DEF BackendInv
    <3>2. CASE TokenPulled /\ ~TokenChanges
      BY <2>2, <3>1, <3>2, BackendObjects, TokenKeepsCall DEF BackendInv
    <3> QED BY <3>1, <3>2, CallBegins, CallProceeds, CallSearches, CallEnds, TokenKeepsCall
            DEF BackendSteps, BackendInv
  <2> QED BY <2>1, <2>2
<1>3. BackendInv => NotFoundIsTrue
  BY DEF BackendInv, CallInv
<1> QED BY <1>1, <1>2, <1>3, PTL DEF BackendSpec

-----------------------------------------------------------------------------

(***************************************************************************)
(* Every id that was given is below the next one, or is the last of all,   *)
(* and a registered provider has an id that was given to its name.         *)
(***************************************************************************)
RegistryInv ==
    /\ providers \in [Keys -> Records \cup {NoProvider}]
    /\ next_id \in 1 .. MaxId
    /\ names \subseteq [id : 1 .. MaxId, key : Keys]
    /\ \A a \in names : a.id <= next_id /\ (a.id = next_id => next_id = MaxId)
    /\ \A k \in Registered : [id |-> providers[k].id, key |-> k] \in names
    /\ IdsStandForOneName

LEMMA RegisteredIsRecord ==
    ASSUME RegistryInv, NEW k \in Registered
    PROVE  k \in Keys /\ providers[k] \in Records /\ providers[k].id \in 1 .. MaxId
BY DEF RegistryInv, Registered, Records

LEMMA RegisterKeeps ==
    ASSUME RegistryInv, NEW k \in Keys, NEW w \in Spellings, NEW p \in Paths, Register(k, w, p)
    PROVE  RegistryInv'
<1> DEFINE id == IF k \in Registered THEN providers[k].id ELSE next_id
           r == [id |-> id, name |-> <<k, w>>, module_path |-> p]
           n == [id |-> id, key |-> k]
<1>1. /\ providers \in [Keys -> Records \cup {NoProvider}]
      /\ next_id \in 1 .. MaxId
      /\ names \subseteq [id : 1 .. MaxId, key : Keys]
      /\ \A a \in names : a.id <= next_id /\ (a.id = next_id => next_id = MaxId)
      /\ \A j \in Registered : [id |-> providers[j].id, key |-> j] \in names
      /\ IdsStandForOneName
  BY DEF RegistryInv
<1>2. MaxId \in Nat \ {0}
  BY RegistryAssumption
<1>3. id \in 1 .. MaxId
  BY <1>1, RegisteredIsRecord
<1>4. k \in Registered => n \in names
  BY <1>1
<1>5. k \notin Registered => id = next_id
  OBVIOUS
<1>6. /\ providers' = [providers EXCEPT ![k] = r] /\ names' = names \cup {n}
      /\ next_id' = IF k \in Registered \/ next_id = MaxId THEN next_id ELSE next_id + 1
  BY DEF Register
<1> HIDE DEF id
<1>7. r \in Records /\ r.id = id /\ n.id = id /\ n.key = k /\ n \in [id : 1 .. MaxId, key : Keys]
  BY <1>3 DEF Records
<1>8. \A j \in Registered : j # k => [id |-> providers[j].id, key |-> j] \in names
  BY <1>1
<1> HIDE DEF r
<1>9. \A j \in Keys : providers'[j] = IF j = k THEN r ELSE providers[j]
  BY <1>1, <1>6
<1>10. providers' \in [Keys -> Records \cup {NoProvider}]
  BY <1>1, <1>6, <1>7
<1>11. next_id' \in 1 .. MaxId
  BY <1>1, <1>2, <1>6
<1>12. \A j \in Registered' : [id |-> providers'[j].id, key |-> j] \in names'
  <2> SUFFICES ASSUME NEW j \in Registered' PROVE [id |-> providers'[j].id, key |-> j] \in names'
    OBVIOUS
  <2>1. j \in Keys /\ providers'[j] # NoProvider
    BY DEF Registered
  <2>2. CASE j = k
    BY <2>1, <2>2, <1>6, <1>7, <1>9
  <2>3. CASE j # k
    BY <2>1, <2>3, <1>6, <1>8, <1>9 DEF Registered
  <2> QED BY <2>2, <2>3
<1> HIDE DEF n
<1>13. \A a \in names' : a.id <= next_id' /\ (a.id = next_id' => next_id' = MaxId)
  BY <1>1, <1>2, <1>3, <1>4, <1>5, <1>6, <1>7
<1>14. IdsStandForOneName'
  <2>1. k \notin Registered => \A a \in names : a.id = id => id = MaxId
    BY <1>1, <1>5
  <2> QED BY <2>1, <1>1, <1>2, <1>3, <1>4, <1>6, <1>7 DEF IdsStandForOneName
<1>15. names' \subseteq [id : 1 .. MaxId, key : Keys]
  BY <1>1, <1>6, <1>7
<1> QED BY <1>10, <1>11, <1>12, <1>13, <1>14, <1>15 DEF RegistryInv

LEMMA UnregisterKeeps == ASSUME RegistryInv, NEW k \in Keys, Unregister(k) PROVE RegistryInv'
<1>1. /\ providers \in [Keys -> Records \cup {NoProvider}]
      /\ \A j \in Registered : [id |-> providers[j].id, key |-> j] \in names
      /\ providers' = [providers EXCEPT ![k] = NoProvider] /\ UNCHANGED <<next_id, names>>
  BY DEF RegistryInv, Unregister
<1>2. providers' \in [Keys -> Records \cup {NoProvider}]
  BY <1>1
<1>3. \A j \in Registered' : j \in Registered /\ providers'[j] = providers[j]
  BY <1>1 DEF Registered
<1> QED BY <1>1, <1>2, <1>3 DEF RegistryInv, IdsStandForOneName

(***************************************************************************)
(* An id of the registry is never given to two names, but for the largest  *)
(* one, which goes to all that come after it (ProviderRegistryState).      *)
(***************************************************************************)
THEOREM IdsAreNames == RegistrySpec => []IdsStandForOneName
<1>1. RegistryInit => RegistryInv
  BY RegistryAssumption DEF RegistryInit, RegistryInv, Registered, IdsStandForOneName
<1>2. RegistryInv /\ [RegistryNext]_registryVars => RegistryInv'
  <2> SUFFICES ASSUME RegistryInv, [RegistryNext]_registryVars PROVE RegistryInv'
    OBVIOUS
  <2>1. CASE UNCHANGED registryVars
    BY <2>1 DEF registryVars, RegistryInv, Registered, IdsStandForOneName
  <2>2. CASE RegistryNext
    BY <2>2, RegisterKeeps, UnregisterKeeps DEF RegistryNext
  <2> QED BY <2>1, <2>2
<1>3. RegistryInv => IdsStandForOneName
  BY DEF RegistryInv
<1> QED BY <1>1, <1>2, <1>3, PTL DEF RegistrySpec
===============================================================================
