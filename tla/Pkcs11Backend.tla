------------------------------ MODULE Pkcs11Backend ------------------------------
(***************************************************************************)
(* The PKCS#11 secret backend of hosts/wasmtime: resolve and list_secrets  *)
(* as the calls they make of the adapter, one step each, any of which may  *)
(* fail.  The manager holds its lock on the backends throughout, so calls  *)
(* of the backend do not overlap; the token may change under it.  Session  *)
(* numbers are plain integers here, which nothing closes when they are     *)
(* dropped.                                                                *)
(***************************************************************************)
EXTENDS Pkcs11Tokens

CONSTANT Pin  \* the PINs a configuration may have: TRUE, one; FALSE, none

ASSUME PinAssumption == Pin \subseteq BOOLEAN

VARIABLES
    pin,     \* whether the configuration has a PIN
    call,    \* the call being served
    last,    \* the last answer: what for, and what
    missing, \* history: no object had the label at some time of the call
    leaked   \* history: sessions of calls that met an error, answered or ignored

backendVars == <<pin, call, last, missing, leaked>>

Stages == {"idle", "slot", "open", "login", "init", "find", "batch", "final", "attributes", "close"}
Nothing == [stage |-> "idle", label |-> None, session |-> None, found |-> None]
Answers == {"value", "not_found", "error", "list"}

HasLabel(os, l) == \E n \in Numbers : os[n] # None /\ os[n].label = l
At(stage) == call.stage = stage
Go(stage) == call' = [call EXCEPT !.stage = stage]

BackendInit ==
    /\ pin \in Pin
    /\ call = Nothing /\ last = [label |-> None, answer |-> "list"]
    /\ missing = FALSE /\ leaked = {}

\* A label, or None to list all.
Resolve(l) ==
    /\ At("idle")
    /\ call' = [Nothing EXCEPT !.stage = "slot", !.label = l]
    /\ missing' = ~HasLabel(objects, l)
    /\ UNCHANGED <<tokenVars, pin, last, leaked>>

ListSecrets ==
    /\ At("idle")
    /\ call' = [Nothing EXCEPT !.stage = "slot"]
    /\ missing' = FALSE
    /\ UNCHANGED <<tokenVars, pin, last, leaked>>

Answer(a) ==
    /\ call' = Nothing
    /\ last' = [label |-> call.label, answer |-> a]
    /\ UNCHANGED <<pin, missing>>

Proceeds == UNCHANGED <<pin, last, missing, leaked>>

\* The slot exists.
SlotInfo == At("slot") /\ Go("open") /\ UNCHANGED tokenVars /\ Proceeds

BackendOpens ==
    /\ At("open")
    /\ \E h \in Handles :
         /\ C_OpenSession(h, Host)
         /\ careless' = (careless \/ h \in issued)
         /\ leaked' = leaked \ {h}
         /\ call' = [call EXCEPT !.session = h, !.stage = IF pin THEN "login" ELSE "init"]
    /\ UNCHANGED <<pin, last, missing>>

\* Variant: an error of the login does not stop the call.
BackendLoginGoesOn ==
    /\ At("login")
    /\ Login(call.session, "user") \/ (user # "nobody" /\ UNCHANGED tokenVars) \/ UNCHANGED tokenVars
    /\ Go("init")
    /\ Proceeds

BackendLogsIn == At("login") /\ Login(call.session, "user") /\ Go("init") /\ Proceeds

\* For a secret one object is fetched, and all of them, in batches, for the list.
BackendSearches ==
    /\ \/ At("init") /\ Go(IF call.label = None THEN "batch" ELSE "find")
       \/ /\ At("find")
          /\ IF \E n \in Numbers : Visible(n) /\ objects[n].label = call.label
             THEN \E n \in Numbers :
                    /\ Visible(n) /\ objects[n].label = call.label
                    /\ call' = [call EXCEPT !.stage = "final", !.found = n]
             ELSE Go("final")
       \/ At("batch") /\ Go("final")
       \/ At("final") /\ Go(IF call.found = None THEN "close" ELSE "attributes")
    /\ Known(call.session)
    /\ UNCHANGED tokenVars /\ Proceeds

BackendReads ==
    /\ At("attributes")
    /\ GetAttributes(call.session, call.found)
    /\ Go("close")
    /\ Proceeds

Served == IF call.label = None THEN "list" ELSE IF call.found = None THEN "not_found" ELSE "value"
CloseSession ==
    \/ Known(call.session) /\ C_End({call.session}) /\ UNCHANGED leaked
    \/ UNCHANGED tokenVars /\ leaked' = leaked \cup {call.session}

\* Variant: a call that found nothing answers at once.
NotFoundLeaves ==
    /\ At("close")
    /\ IF call.found = None THEN UNCHANGED <<tokenVars, leaked>> ELSE CloseSession
    /\ Answer(Served)

\* An error of the close is ignored: the session may be gone already, or it stays, and
\* the login with it.
BackendCloses == At("close") /\ CloseSession /\ Answer(Served)

\* Any call before it may fail: the error is answered, and the session stays.
BackendFails ==
    /\ call.stage \in Stages \ {"idle", "close"}
    /\ Answer("error")
    /\ leaked' = leaked \cup ({call.session} \cap Handles)
    /\ UNCHANGED tokenVars

\* Another process stores or removes an object.
TokenChanges ==
    /\ \E n \in Numbers, t \in Things \cup {None} :
         /\ t # None => t.maker = Host /\ t.session = None
         /\ objects[n] = None \/ t = None
         /\ objects' = [objects EXCEPT ![n] = t]
    /\ missing' = (missing \/ (~At("idle") /\ ~HasLabel(objects', call.label)))
    /\ UNCHANGED <<open, issued, user, pin, call, last, leaked>>

\* The token is pulled, and with it go all sessions.
TokenPulled ==
    /\ C_End(Handles)
    /\ UNCHANGED backendVars

-----------------------------------------------------------------------------

BackendNext ==
    /\ \/ BackendOpens
       \/ /\ \/ ListSecrets \/ \E l \in Labels : Resolve(l)
             \/ SlotInfo \/ BackendLogsIn \/ BackendSearches \/ BackendReads
             \/ BackendCloses \/ BackendFails
             \/ TokenChanges \/ TokenPulled
          /\ UNCHANGED careless
    /\ Expires
    /\ UNCHANGED <<sess, touched>>

\* The backend alone with the token.
BackendSpec == Init /\ BackendInit /\ [][BackendNext]_<<vars, backendVars>>

\* Guests and the backend, each with an AdapterContext of its own, take turns.
SharedNext == (GuestNext /\ UNCHANGED backendVars) \/ BackendNext

SharedSpec == Init /\ BackendInit /\ [][SharedNext]_<<vars, backendVars>>

-----------------------------------------------------------------------------

\* Whatever the calls answer, and whatever guests do with the token meanwhile, the
\* session of a call is gone when it was answered, and with it the login, but for
\* the calls that were answered with an error (pkcs11_backend.rs:104), and those
\* whose close the module refused, which nobody is told (129, 141, 281).
OnlyErrorsLeak == At("idle") =>
    /\ \A h \in Handles : open[h] = Host => h \in leaked
    /\ user # "nobody" => \E h \in Handles :
          open[h] \in Guests \/ (open[h] = Host /\ h \in leaked)

\* With a PIN, "not found" means that the label was missing at some time of the call,
\* and never only that the object is private and the backend not logged in.
NotFoundIsTrue == pin /\ At("idle") /\ last.answer = "not_found" => missing
=============================================================================
