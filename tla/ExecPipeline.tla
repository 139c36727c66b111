---------------------------- MODULE ExecPipeline ----------------------------
(***************************************************************************)
(* ExecHandler::run_cli of hosts/wasmtime/src/exec.rs with the part of     *)
(* EmitHandler::compose (libs/compose-core/src/emit.rs) it calls: policy,  *)
(* composition and its cache, the trust gate, the result cache, the run    *)
(* and the audit log.  Several workers share the blob store (puts of one   *)
(* blob share its temp file), the two cache directories and the trust      *)
(* store; a step is one access to one of them.                             *)
(* The attributes of a plan are constant functions of the plan.            *)
(***************************************************************************)
EXTENDS Integers, Sequences, FiniteSets

CONSTANTS
    Workers,      \* threads and processes that call run_cli
    Plans,        \* plans, each a distinct plan file
    Components,   \* digests of the components plans name
    Digests,      \* components and composed artifacts
    Tenants,
    Caps,         \* capabilities
    Hosts,        \* builds and configurations of the host
    Args,         \* argument lists
    Resolve,      \* the capability dynlink:resolve
    Invoke,       \* the capability dynlink:invoke
    Runtime,      \* the plans with linkage = runtime
    Strict,       \* the plans with determinism = strict
    Drives,       \* the components that import compose:dynlink/linker
    Root,         \* plan -> its root component
    Parts,        \* plan -> all its components
    Bound,        \* plan -> the providers its bindings name
    Artifact,     \* plan -> what composing it yields
    Tenant,       \* plan -> its tenant
    Declares,     \* plan -> the capabilities it asks for
    Needs,        \* plan -> those it requires
    Allows,       \* host -> the capabilities its policy allows
    FaultyDisk,   \* TRUE: reads, writes and appends may fail
    Deletable,    \* the digests that some client may delete
    NoFile,       \* a cache file that does not exist
    Torn,         \* a file that was opened for writing and not written
    None          \* no plan, no result

ASSUME PlanAssumption ==
    /\ Components \subseteq Digests
    /\ Runtime \subseteq Plans /\ Strict \subseteq Plans
    /\ Drives \subseteq Components
    /\ Root \in [Plans -> Components]
    /\ Parts \in [Plans -> SUBSET Components]
    /\ Bound \in [Plans -> SUBSET Components]
    /\ Artifact \in [Plans -> Digests]
    /\ Tenant \in [Plans -> Tenants]
    /\ Declares \in [Plans -> SUBSET Caps]
    /\ Needs \in [Plans -> SUBSET Caps]
    /\ Allows \in [Hosts -> SUBSET Caps]
    /\ FaultyDisk \in BOOLEAN /\ Deletable \subseteq Digests

VARIABLES
    host,       \* the host build and configuration that is running
    blobs,      \* digest -> the blob's file: NoFile, Torn or "whole"
    temps,      \* digest -> the temp file of its puts, likewise
    trusted,    \* digests in the trust store's memory
    emitCache,  \* plan -> the file of its emit key: NoFile, Torn or "entry"
    execCache,  \* exec key -> its file: NoFile, Torn or a result
    call,       \* worker -> its current or last call
    audit,      \* worker -> outcomes its call has appended to the audit log
    lost,       \* history: the workers whose call could not append its record
    cut,        \* history: the digests of which overlapping puts were given up half way
    vouched     \* history: worker -> components trusted at some time in its call

vars == <<host, blobs, temps, trusted, emitCache, execCache, call, audit, lost, cut, vouched>>

Results == [plan : Plans, args : Args, host : Hosts, resolved : SUBSET Components]

ASSUME MarkAssumption ==
    /\ NoFile # Torn /\ {NoFile, Torn} \cap {"entry", "whole"} = {}
    /\ {NoFile, Torn, None} \cap Results = {}
    /\ None \notin Plans

Stages == {"idle", "compose", "parts", "put", "put_write", "put_rename", "emit_open",
           "emit_write", "root", "gate", "load", "lookup", "run", "guest", "resolve",
           "save_open", "save_write", "log", "log_failure", "ok", "error"}
Outcomes == {"success", "failure"}

\* Variant: the exec key is made of digests only.
KeyOfDigests(p) == [plan |-> None,
                    artifact |-> IF p \in Runtime THEN Root[p] ELSE Artifact[p],
                    resolved |-> IF p \in Runtime THEN Bound[p] ELSE {}]

\* The plan digest covers policy and tenant; neither the arguments nor anything
\* of the host is part of the key.
Key(p) == [plan |-> p,
           artifact |-> IF p \in Runtime THEN Root[p] ELSE Artifact[p],
           resolved |-> IF p \in Runtime THEN Bound[p] ELSE {}]
Keys == {Key(p) : p \in Plans}

\* subject is the digest that is put or resolved; file is where a put's open file is
\* by now: the temp file, the visible blob, or nowhere.
IdleCall == [stage |-> "idle", plan |-> None, args |-> None, resolved |-> {}, got |-> None,
             subject |-> None, file |-> "none"]

Init ==
    /\ host \in Hosts
    /\ blobs = [d \in Digests |-> IF d \in Components THEN "whole" ELSE NoFile]
    /\ temps = [d \in Digests |-> NoFile]
    /\ trusted = {}
    /\ emitCache = [p \in Plans |-> NoFile]
    /\ execCache = [k \in Keys |-> NoFile]
    /\ call = [w \in Workers |-> IdleCall]
    /\ audit = [w \in Workers |-> <<>>]
    /\ lost = {} /\ cut = {}
    /\ vouched = [w \in Workers |-> {}]

At(w, s) == call[w].stage = s
PlanOf(w) == call[w].plan
Goto(w, s) == call' = [call EXCEPT ![w].stage = s]
Fails(w) == call' = [call EXCEPT ![w].stage = "error", ![w].got = None]

files == <<blobs, temps>>
stores == <<host, files, trusted, emitCache, execCache>>
histories == <<audit, lost, cut, vouched>>

\* What has returns, and what get returns.
Present == {d \in Digests : blobs[d] # NoFile}
Stored == {d \in Digests : blobs[d] = "whole"}

----------------------------- (* entering run_cli *) -----------------------------

Resting(w) == call[w].stage \in {"idle", "ok", "error"}

\* enforce_policy, and for runtime linkage the two dynlink verbs.
Granted(p) ==
    /\ Needs[p] \subseteq Allows[host]
    /\ p \in Runtime => {Resolve, Invoke} \subseteq Declares[p] \cap Allows[host]

Starts(w, p, a, s) ==
    /\ call' = [call EXCEPT ![w] = [IdleCall EXCEPT !.stage = s, !.plan = p, !.args = a]]
    /\ audit' = [audit EXCEPT ![w] = <<>>]
    /\ lost' = lost \ {w}
    /\ vouched' = [vouched EXCEPT ![w] = trusted]
    /\ UNCHANGED cut

Begin(w, p, a) ==
    /\ Resting(w)
    /\ \/ /\ Granted(p)
          /\ Starts(w, p, a, IF p \in Runtime THEN "root" ELSE "compose")
       \/ /\ ~Granted(p)
          /\ Starts(w, p, a, "error")
    /\ UNCHANGED stores

------------------------------ (* blobs.put *) ------------------------------

\* Another client puts a blob.
PutBlob(w, d) ==
    /\ Resting(w)
    /\ call' = [call EXCEPT ![w] = [IdleCall EXCEPT !.stage = "put", !.subject = d]]
    /\ UNCHANGED <<stores, histories>>

\* Variant: compose drops the error of the put.
PutFailsUnseen(w) ==
    call' = [call EXCEPT ![w] = IF @.plan = None THEN IdleCall
                                ELSE [@ EXCEPT !.stage = "emit_open", !.subject = None, !.file = "none"]]

PutFails(w) ==
    call' = [call EXCEPT ![w] = IF @.plan = None THEN IdleCall
                                ELSE [@ EXCEPT !.stage = "error", !.subject = None, !.file = "none"]]

\* fs::write creates or truncates the temp file, which all puts of the digest share.
PutOpens(w) ==
    /\ At(w, "put")
    /\ \/ /\ temps' = [temps EXCEPT ![call[w].subject] = Torn]
          /\ call' = [call EXCEPT ![w].stage = "put_write", ![w].file = "temp"]
       \/ FaultyDisk /\ PutFails(w) /\ UNCHANGED temps
    /\ UNCHANGED <<host, blobs, trusted, emitCache, execCache, histories>>

Writing(w, d, f) == At(w, "put_write") /\ call[w].subject = d /\ call[w].file = f
Putting(w, d) == call[w].stage \in {"put_write", "put_rename"} /\ call[w].subject = d

\* Nobody else writes the torn file of a put that is given up, and it is the visible
\* blob, or another put is about to make it that.
Cuts(w) ==
    LET d == call[w].subject  f == call[w].file IN
    /\ ~\E x \in Workers \ {w} : Writing(x, d, f)
    /\ \/ f = "blob" /\ blobs[d] = Torn
       \/ f = "temp" /\ temps[d] = Torn /\ \E x \in Workers \ {w} : Putting(x, d)

\* All puts of a digest write the same bytes.
PutWrites(w) ==
    LET d == call[w].subject  f == call[w].file IN
    /\ At(w, "put_write")
    /\ \/ /\ temps' = IF f = "temp" THEN [temps EXCEPT ![d] = "whole"] ELSE temps
          /\ blobs' = IF f = "blob" THEN [blobs EXCEPT ![d] = "whole"] ELSE blobs
          /\ call' = [call EXCEPT ![w].stage = "put_rename", ![w].file = "none"]
          /\ UNCHANGED cut
       \/ /\ FaultyDisk
          /\ PutFails(w)
          /\ cut' = cut \cup (IF Cuts(w) THEN {d} ELSE {})
          /\ UNCHANGED files
    /\ UNCHANGED <<host, trusted, emitCache, execCache, audit, lost, vouched>>

\* What others have open stays open when the file's name changes or goes.
Moved(d, f, g) == [x \in Workers |->
    IF call[x].subject # d THEN call[x]
    ELSE IF call[x].file = "temp" THEN [call[x] EXCEPT !.file = f]
    ELSE IF call[x].file = "blob" THEN [call[x] EXCEPT !.file = g]
    ELSE call[x]]

\* The temp file becomes the blob, whoever wrote it last; another put of the digest
\* may have renamed it before.
PutRenames(w) ==
    LET d == call[w].subject IN
    /\ At(w, "put_rename")
    /\ \/ /\ temps[d] # NoFile
          /\ blobs' = [blobs EXCEPT ![d] = temps[d]]
          /\ temps' = [temps EXCEPT ![d] = NoFile]
          /\ call' = [Moved(d, "blob", "gone") EXCEPT ![w] =
                         IF PlanOf(w) = None THEN IdleCall
                         ELSE [@ EXCEPT !.stage = "emit_open", !.subject = None]]
       \/ (temps[d] = NoFile \/ FaultyDisk) /\ PutFails(w) /\ UNCHANGED files
    /\ UNCHANGED <<host, trusted, emitCache, execCache, histories>>

------------------------------- (* composition *) -------------------------------

\* A composed plan goes to the result cache, a guest that links for itself is run.
Composed(p) == IF p \in Runtime THEN "load" ELSE "lookup"

\* The plan is validated, which asks only whether the blobs are there, and the emit
\* cache looked up; an entry that is torn or cannot be read is no hit.
ComposeBegins(w) ==
    LET p == PlanOf(w) IN
    /\ At(w, "compose")
    /\ \/ /\ ~(Parts[p] \subseteq Present) \/ p \in Runtime \cap Strict
          /\ Fails(w)
       \/ /\ Parts[p] \subseteq Present /\ p \notin Runtime \cap Strict
          /\ \/ emitCache[p] = "entry" /\ Goto(w, Composed(p))
             \/ (emitCache[p] # "entry" \/ FaultyDisk) /\ Goto(w, "parts")
    /\ UNCHANGED <<stores, histories>>

\* compose_internal reads every component, and the artifact is put.
ComposeReads(w) ==
    LET p == PlanOf(w) IN
    /\ At(w, "parts")
    /\ \/ /\ Parts[p] \subseteq Stored
          /\ call' = [call EXCEPT ![w].stage = "put", ![w].subject = Artifact[p]]
       \/ /\ ~(Parts[p] \subseteq Stored) \/ FaultyDisk
          /\ Fails(w)
    /\ UNCHANGED <<stores, histories>>

\* fs::write truncates the file and then writes it.
EmitOpens(w) ==
    /\ At(w, "emit_open")
    /\ \/ /\ emitCache' = [emitCache EXCEPT ![PlanOf(w)] = Torn]
          /\ Goto(w, "emit_write")
       \/ /\ FaultyDisk
          /\ Fails(w)
          /\ UNCHANGED emitCache
    /\ UNCHANGED <<host, files, trusted, execCache, histories>>

EmitWrites(w) ==
    /\ At(w, "emit_write")
    /\ \/ /\ emitCache' = [emitCache EXCEPT ![PlanOf(w)] = "entry"]
          /\ Goto(w, Composed(PlanOf(w)))
       \/ /\ FaultyDisk
          /\ Fails(w)
          /\ UNCHANGED emitCache
    /\ UNCHANGED <<host, files, trusted, execCache, histories>>

----------------------------- (* runtime linkage *) -----------------------------

\* A root that imports the linker drives linking itself; any other has exactly
\* one endpoint binding.
RootLoads(w) ==
    LET p == PlanOf(w) IN
    /\ At(w, "root")
    /\ \/ /\ Root[p] \in Stored \cap Drives
          /\ Goto(w, IF Bound[p] = {} THEN "guest" ELSE "compose")
       \/ /\ Root[p] \in Stored \ Drives
          /\ Cardinality(Bound[p]) = 1
          /\ Goto(w, "gate")
       \/ /\ \/ Root[p] \notin Stored \/ FaultyDisk
             \/ Root[p] \notin Drives /\ Cardinality(Bound[p]) # 1
          /\ Fails(w)
    /\ UNCHANGED <<stores, histories>>

\* Variant: a provider whose result is cached is not checked again.
ProviderCheckedOnMiss(w) ==
    LET p == PlanOf(w) IN
    /\ At(w, "gate")
    /\ \/ /\ Bound[p] \subseteq trusted \/ execCache[Key(p)] \notin {NoFile, Torn}
          /\ Goto(w, "load")
       \/ /\ ~(Bound[p] \subseteq trusted)
          /\ Fails(w)
    /\ UNCHANGED <<stores, histories>>

ProviderChecked(w) ==
    LET p == PlanOf(w) IN
    /\ At(w, "gate")
    /\ \/ /\ Bound[p] \subseteq trusted
          /\ Goto(w, "load")
       \/ /\ ~(Bound[p] \subseteq trusted)
          /\ Fails(w)
    /\ UNCHANGED <<stores, histories>>

\* The guest asks for a component, by the plan's id or by digest, which is checked
\* and then loaded.  It gets an error where either fails, and goes on.
GuestAsks(w, c) ==
    /\ At(w, "guest")
    /\ PlanOf(w) \notin Strict
    /\ c \in trusted
    /\ call' = [call EXCEPT ![w].stage = "resolve", ![w].subject = c]
    /\ UNCHANGED <<stores, histories>>

GuestResolves(w) ==
    LET c == call[w].subject IN
    /\ At(w, "resolve")
    /\ \E got \in SUBSET ({c} \cap Stored) :
           call' = [call EXCEPT ![w].stage = "guest", ![w].subject = None,
                                ![w].resolved = @ \cup got]
    /\ UNCHANGED <<stores, histories>>

------------------------- (* load, look up, run, save *) -------------------------

\* The endpoint consumer is its own artifact.
Wanted(p) == IF p \in Runtime /\ Root[p] \notin Drives THEN {Root[p]} \cup Bound[p]
             ELSE {Artifact[p]}
Loaded(p) == IF p \notin Runtime THEN "run" ELSE IF Root[p] \in Drives THEN "guest" ELSE "lookup"

Loads(w) ==
    LET p == PlanOf(w) IN
    /\ At(w, "load")
    /\ \/ Wanted(p) \subseteq Stored /\ Goto(w, Loaded(p))
       \/ (~(Wanted(p) \subseteq Stored) \/ FaultyDisk) /\ Fails(w)
    /\ UNCHANGED <<stores, histories>>

\* A file that does not parse, or cannot be read, is a miss.
LooksUp(w) ==
    LET p == PlanOf(w) IN
    /\ At(w, "lookup")
    /\ \/ /\ execCache[Key(p)] \in {NoFile, Torn} \/ FaultyDisk
          /\ Goto(w, IF p \in Runtime THEN "run" ELSE "load")
       \/ /\ execCache[Key(p)] \notin {NoFile, Torn}
          /\ call' = [call EXCEPT ![w].stage = "log", ![w].got = execCache[Key(p)]]
    /\ UNCHANGED <<stores, histories>>

\* What the component answers is a function of the plan, its arguments, the
\* host and the providers linked.
Outcome(w) == [plan |-> PlanOf(w), args |-> call[w].args, host |-> host,
               resolved |-> IF At(w, "guest") THEN call[w].resolved
                            ELSE Key(PlanOf(w)).resolved]

Runs(w) ==
    /\ At(w, "run")
    /\ call' = [call EXCEPT ![w].stage = "save_open", ![w].got = Outcome(w)]
    /\ UNCHANGED <<stores, histories>>

\* The component does not load or traps: only the static path logs it.
RunTraps(w) ==
    /\ At(w, "run")
    /\ IF PlanOf(w) \in Runtime THEN Fails(w) ELSE Goto(w, "log_failure")
    /\ UNCHANGED <<stores, histories>>

\* The result of a guest that links for itself is not cached.
GuestEnds(w) ==
    /\ At(w, "guest")
    /\ call' = [call EXCEPT ![w].stage = "log", ![w].got = Outcome(w)]
    /\ UNCHANGED <<stores, histories>>

GuestTraps(w) ==
    /\ At(w, "guest")
    /\ Fails(w)
    /\ UNCHANGED <<stores, histories>>

\* Variant: the outcome is logged before the cache is written.
SaveLogsFirst(w) ==
    /\ At(w, "save_open")
    /\ audit' = [audit EXCEPT ![w] = Append(@, "success")]
    /\ Goto(w, "save_write")
    /\ UNCHANGED <<stores, lost, cut, vouched>>

SaveOpens(w) ==
    /\ At(w, "save_open")
    /\ \/ /\ execCache' = [execCache EXCEPT ![Key(PlanOf(w))] = Torn]
          /\ Goto(w, "save_write")
       \/ /\ FaultyDisk
          /\ Fails(w)
          /\ UNCHANGED execCache
    /\ UNCHANGED <<host, files, trusted, emitCache, histories>>

SaveWrites(w) ==
    /\ At(w, "save_write")
    /\ \/ /\ execCache' = [execCache EXCEPT ![Key(PlanOf(w))] = call[w].got]
          /\ Goto(w, "log")
       \/ /\ FaultyDisk
          /\ Fails(w)
          /\ UNCHANGED execCache
    /\ UNCHANGED <<host, files, trusted, emitCache, histories>>

\* The record is appended, or that fails and nobody looks at the error.
Appends(w, outcome) ==
    /\ \/ audit' = [audit EXCEPT ![w] = Append(@, outcome)] /\ UNCHANGED lost
       \/ FaultyDisk /\ lost' = lost \cup {w} /\ UNCHANGED audit
    /\ UNCHANGED <<stores, cut, vouched>>

Logs(w) == At(w, "log") /\ Goto(w, "ok") /\ Appends(w, "success")

LogsFailure(w) == At(w, "log_failure") /\ Fails(w) /\ Appends(w, "failure")

------------------------------ (* surroundings *) ------------------------------

TrustDigest(c) ==
    /\ c \notin trusted
    /\ trusted' = trusted \cup {c}
    /\ vouched' = [w \in Workers |-> vouched[w] \cup {c}]
    /\ UNCHANGED <<host, files, emitCache, execCache, call, audit, lost, cut>>

UntrustDigest(c) ==
    /\ c \in trusted
    /\ trusted' = trusted \ {c}
    /\ UNCHANGED <<host, files, emitCache, execCache, call, histories>>

DeleteBlob(d) ==
    /\ d \in Present \cap Deletable
    /\ blobs' = [blobs EXCEPT ![d] = NoFile]
    /\ call' = Moved(d, "temp", "gone")
    /\ UNCHANGED <<host, temps, trusted, emitCache, execCache, histories>>

\* The host process ends at any point and is started again, perhaps in another
\* build or configuration.  Blobs and caches are on disk; trust is in memory.
Restart ==
    /\ host' \in Hosts
    /\ trusted' = {}
    /\ call' = [w \in Workers |-> IdleCall]
    /\ audit' = [w \in Workers |-> <<>>]
    /\ lost' = {}
    /\ cut' = cut \cup {d \in Digests : blobs[d] = Torn}
    /\ vouched' = [w \in Workers |-> {}]
    /\ UNCHANGED <<files, emitCache, execCache>>

-----------------------------------------------------------------------------

WorkerStep(w) ==
    \/ PutOpens(w) \/ PutWrites(w) \/ PutRenames(w)
    \/ ComposeBegins(w) \/ ComposeReads(w) \/ EmitOpens(w) \/ EmitWrites(w)
    \/ RootLoads(w) \/ ProviderChecked(w) \/ GuestResolves(w)
    \/ Loads(w) \/ LooksUp(w) \/ Runs(w) \/ RunTraps(w)
    \/ GuestEnds(w) \/ GuestTraps(w)
    \/ SaveOpens(w) \/ SaveWrites(w) \/ Logs(w) \/ LogsFailure(w)

Next ==
    \/ \E w \in Workers :
         \/ WorkerStep(w)
         \/ \E p \in Plans, a \in Args : Begin(w, p, a)
         \/ \E c \in Components : GuestAsks(w, c)
         \/ \E d \in Digests : PutBlob(w, d)
    \/ \E c \in Components : TrustDigest(c) \/ UntrustDigest(c)
    \/ \E d \in Digests : DeleteBlob(d)
    \/ Restart

Spec == Init /\ [][Next]_vars

-----------------------------------------------------------------------------

Calls == [stage : Stages, plan : Plans \cup {None}, args : Args \cup {None},
          resolved : SUBSET Components, got : Results \cup {None},
          subject : Digests \cup {None}, file : {"none", "temp", "blob", "gone"}]

\* A file is absent, torn or whole, and a torn cache file is never taken for a result
\* by the call that reads it.
TypeOK ==
    /\ host \in Hosts
    /\ blobs \in [Digests -> {NoFile, Torn, "whole"}]
    /\ temps \in [Digests -> {NoFile, Torn, "whole"}]
    /\ trusted \subseteq Components
    /\ emitCache \in [Plans -> {NoFile, Torn, "entry"}]
    /\ execCache \in [Keys -> {NoFile, Torn} \cup Results]
    /\ call \in [Workers -> Calls]
    /\ audit \in [Workers -> Seq(Outcomes)]
    /\ lost \subseteq Workers /\ cut \subseteq Digests
    /\ vouched \in [Workers -> SUBSET Components]

Answered(w) == At(w, "ok")

\* However calls race, crash and share files, a call is answered with the output
\* of a run under its own tenant (compute_exec_key).
TenantIsolation == \A w \in Workers :
    Answered(w) => Tenant[call[w].got.plan] = Tenant[PlanOf(w)]

\* A provider that code was linked with, in this call or in the run whose cached
\* result it returns, was in the trust store at some moment of this very call:
\* withdrawing trust also withdraws what the cache remembers.
ProvidersVouched == \A w \in Workers :
    Answered(w) => call[w].got.resolved \subseteq vouched[w]

\* A call that answers ok has exactly one audit record, of a success, unless the log
\* refused it; one that answers with an error has none that claims success.
AuditTellsTheTruth == \A w \in Workers :
    /\ Answered(w) => audit[w] = IF w \in lost THEN <<>> ELSE <<"success">>
    /\ At(w, "error") => audit[w] \in {<<>>, <<"failure">>}

\* An entry of the emit cache names an artifact that get returns whole, or that a
\* client may have deleted, or that a put is writing at this moment: whatever fails or
\* crashes between the writes of compose, and however puts of the artifact overlap,
\* unless one that overlaps another is given up half way.
CachedArtifactIsStored == \A p \in Plans :
    emitCache[p] = "entry" =>
        \/ Artifact[p] \in Stored \cup Deletable \cup cut
        \/ \E w \in Workers : Writing(w, Artifact[p], "blob")

\* "Args and environment are passed to the root component"
\* (wit/sys-compose/exec.wit:41).
ArgsReachTheRoot == \A w \in Workers : Answered(w) => call[w].got.args = call[w].args
=============================================================================
