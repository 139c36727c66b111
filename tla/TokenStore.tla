------------------------------ MODULE TokenStore ------------------------------
(***************************************************************************)
(* What the secret manager promises its callers, without mutexes, backends *)
(* or time: a token is issued at most once, it is live from then until it  *)
(* is retired, retirement is final, and only a live token buys a value or  *)
(* the metadata of a secret.                                               *)
(***************************************************************************)
CONSTANTS Threads, Tokens

VARIABLES
    issued,   \* tokens some resolve has returned
    live,     \* those neither revoked nor cleaned up
    answer    \* thread -> what its last call returned

vars == <<issued, live, answer>>

Nothing == [kind |-> "nothing"]
Got(kind, tk) == [kind |-> kind, token |-> tk]
Refusals == {"InvalidBackend", "BackendRefuses", "InvalidToken", "Expired", "panic"}

Init ==
    /\ issued = {}
    /\ live = {}
    /\ answer = [t \in Threads |-> Nothing]

Ask(t) ==
    /\ answer' = [answer EXCEPT ![t] = Nothing]
    /\ UNCHANGED <<issued, live>>

Issue(t, tk) ==
    /\ tk \notin issued
    /\ issued' = issued \cup {tk}
    /\ live' = live \cup {tk}
    /\ answer' = [answer EXCEPT ![t] = Got("token", tk)]

Honour(t, tk) ==
    /\ tk \in live
    /\ \E k \in {"value", "metadata"} : answer' = [answer EXCEPT ![t] = Got(k, tk)]
    /\ UNCHANGED <<issued, live>>

Refuse(t) ==
    /\ \E e \in Refusals :
         answer' = [answer EXCEPT ![t] = [kind |-> "error", error |-> e]]
    /\ UNCHANGED <<issued, live>>

Retire ==
    /\ live' \in SUBSET live
    /\ UNCHANGED <<issued, answer>>

Next ==
    \/ \E t \in Threads :
         \/ Ask(t)
         \/ Refuse(t)
         \/ \E tk \in Tokens : Issue(t, tk) \/ Honour(t, tk)
    \/ Retire

Spec == Init /\ [][Next]_vars
=============================================================================
