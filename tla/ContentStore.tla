---------------------------- MODULE ContentStore ----------------------------
(***************************************************************************)
(* What BlobBackend (libs/compose-core/src/blobs.rs) promises its callers: *)
(* a set of stored blobs.  A put adds its blob before it answers ok; a get *)
(* takes effect at one instant, and answers ok only when the blob was      *)
(* stored then; a call that answers with an error of the disk has changed  *)
(* nothing.                                                                *)
(***************************************************************************)
CONSTANTS Clients, Digests

VARIABLES
    stored,   \* the blobs in the store
    getting,  \* client -> "idle", or what its get in progress will answer
    replied   \* client -> its last answer

vars == <<stored, getting, replied>>

Answers == {"none", "ok", "not_found", "io_error"}

Init ==
    /\ stored = {}
    /\ getting = [c \in Clients |-> "idle"]
    /\ replied = [c \in Clients |-> "none"]

Reply(c, a) == replied' = [replied EXCEPT ![c] = a]

Put(c, d) ==
    /\ getting[c] = "idle"
    /\ stored' = stored \cup {d}
    /\ Reply(c, "ok")
    /\ UNCHANGED getting

\* A put, a get or a delete is given up.
Fails(c) ==
    /\ Reply(c, "io_error")
    /\ getting' = [getting EXCEPT ![c] = "idle"]
    /\ UNCHANGED stored

LookUp(c, d) ==
    /\ getting[c] = "idle"
    /\ \/ d \in stored /\ getting' = [getting EXCEPT ![c] = "ok"] /\ Reply(c, "none")
       \/ d \notin stored /\ Reply(c, "not_found") /\ UNCHANGED getting
    /\ UNCHANGED stored

GetReturns(c) ==
    /\ getting[c] # "idle"
    /\ Reply(c, getting[c])
    /\ getting' = [getting EXCEPT ![c] = "idle"]
    /\ UNCHANGED stored

Delete(c, d) ==
    /\ getting[c] = "idle"
    /\ Reply(c, IF d \in stored THEN "ok" ELSE "not_found")
    /\ stored' = stored \ {d}
    /\ UNCHANGED getting

\* A client begins a call, or gives up on the one it is in.
Forget(c) ==
    /\ Reply(c, "none")
    /\ getting' = [getting EXCEPT ![c] = "idle"]
    /\ UNCHANGED stored

\* The process dies: every call in it is lost, no blob is.
Crash ==
    /\ getting' = [c \in Clients |-> "idle"]
    /\ replied' = [c \in Clients |-> "none"]
    /\ UNCHANGED stored

Next ==
    \/ Crash
    \/ \E c \in Clients :
         \/ GetReturns(c)
         \/ Fails(c)
         \/ Forget(c)
         \/ \E d \in Digests : Put(c, d) \/ LookUp(c, d) \/ Delete(c, d)

Spec == Init /\ [][Next]_vars
=============================================================================
