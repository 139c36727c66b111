------------------------------ MODULE EmitWiring ------------------------------
(***************************************************************************)
(* EmitHandler::compose_internal (libs/compose-core/src/emit.rs): how the  *)
(* components of a validated plan are put together.  The first way builds  *)
(* a graph (the wac tool does, or wac-graph): the root is the socket, the  *)
(* providers are plugs, wired by the NAMES of their exports.  Only the     *)
(* wiring of the root is modelled: the wac tool, where it is installed,    *)
(* also plugs plugs into each other (emit.rs:272-277).  A plan         *)
(* without explicit exports falls back to the second way, wasm-compose,    *)
(* which is told a provider for every import name.  The two tools may      *)
(* refuse what they are given, and always refuse to set an argument or an  *)
(* export twice.                                                           *)
(***************************************************************************)
EXTENDS Naturals, Sequences, SequencesExt

CONSTANTS
    Jobs,   \* plans with their components: loads, parts, root, bindings, exports
    Undone  \* no outcome yet

\* What a component is taken to be: the imports in their order, no name twice, and the
\* exports, each with its type.  The components that the bindings and the explicit
\* exports name are there (PlanValidation).
JobsAssumption == Undone \notin {"failed", "composed"} /\ \A j \in Jobs :
    /\ j.root \in DOMAIN j.parts /\ Undone \notin DOMAIN j.parts
    /\ j.parts[j.root].imports \in Seq(Range(j.parts[j.root].imports))
    /\ \A i, k \in DOMAIN j.parts[j.root].imports :
         j.parts[j.root].imports[i].name = j.parts[j.root].imports[k].name => i = k
    /\ j.bindings \in Seq(Range(j.bindings)) /\ j.exports \in Seq(Range(j.exports))
    /\ \A b \in Range(j.bindings) : b.provider \in DOMAIN j.parts
    /\ \A e \in Range(j.exports) : e.source \in DOMAIN j.parts
ASSUME JobsAssumption

VARIABLES
    job,      \* the plan being composed
    at,       \* the stage
    todo1,    \* the plugs or explicit exports still to be looked at
    wires,    \* the root's imports that are wired, to <<component, its export>>
    made,     \* the components that have an instance
    outer,    \* the exports of the result, to the component that serves them
    outcome   \* Undone, "failed" or "composed"

wiringVars == <<job, at, todo1, wires, made, outer, outcome>>

Root == job.parts[job.root]
Names(entries) == {e.name : e \in entries}
RootExports == [n \in Names(Root.exports) |-> job.root]
Nothing == [x \in {} |-> x]

EmitEnds(o) == at' = "end" /\ outcome' = o
GoesTo(stage) == at' = stage /\ UNCHANGED outcome
\* The graph's errors: without explicit exports there is another way.
GivesUp == IF job.exports = <<>> THEN GoesTo("wrap") ELSE EmitEnds("failed")

EmitInit ==
    /\ job \in Jobs
    /\ at = "load"
    /\ todo1 = <<>> /\ wires = Nothing /\ made = {} /\ outer = Nothing
    /\ outcome = Undone

----------------------------- (* the graph *) -----------------------------

\* The providers, in the order of the bindings, then the sources of explicit exports.
\* The root, and one that has had its turn, are passed over (WiresPlug).
Plugs == [i \in 1..Len(job.bindings) |-> job.bindings[i].provider]
         \o [i \in 1..Len(job.exports) |-> job.exports[i].source]

\* All components are read and validated, those not wired as well.
LoadsParts ==
    /\ at = "load"
    /\ \/ /\ ~job.loads
          /\ EmitEnds("failed")
          /\ UNCHANGED <<todo1, made, outer>>
       \/ /\ job.loads /\ job.bindings = <<>> /\ job.exports = <<>>
          /\ EmitEnds("composed")   \* the root as it is
          /\ outer' = RootExports
          /\ UNCHANGED <<todo1, made>>
       \/ /\ job.loads /\ (job.bindings # <<>> \/ job.exports # <<>>)
          /\ GoesTo("wire")
          /\ todo1' = Plugs
          /\ made' = {job.root}
          /\ UNCHANGED outer
    /\ UNCHANGED <<job, wires>>

Compatible(n, m) == n[1] = m[1]

\* The import an export of a plug is offered to: that of its name, or else the first of
\* a compatible version; 0 if there is none.
SocketFor(e) ==
    LET same == {i \in DOMAIN Root.imports : Root.imports[i].name = e.name}
        near == {i \in DOMAIN Root.imports : Compatible(e.name, Root.imports[i].name)}
    IN IF same # {} THEN Min(same) ELSE IF near # {} THEN Min(near) ELSE 0

Matches(p) ==
    {e \in job.parts[p].exports : SocketFor(e) # 0 /\ Root.imports[SocketFor(e)].type = e.type}
Supplied(p) == {SocketFor(e) : e \in Matches(p)}
SuppliedTwice(p) ==
    \/ Supplied(p) \cap DOMAIN wires # {}
    \/ \E e, f \in Matches(p) : e # f /\ SocketFor(e) = SocketFor(f)

\* A plug none of whose exports fits gets no instance.
WiresPlug ==
    /\ at = "wire" /\ todo1 # <<>>
    /\ LET p == Head(todo1) IN
       \/ /\ p \in made
          /\ UNCHANGED <<at, wires, made, outcome>>
       \/ /\ p \notin made /\ SuppliedTwice(p)
          /\ GivesUp
          /\ UNCHANGED <<wires, made>>
       \/ /\ p \notin made /\ ~SuppliedTwice(p)
          /\ wires' = [i \in Supplied(p) \cup DOMAIN wires |->
                         IF i \in Supplied(p)
                         THEN <<p, (CHOOSE e \in Matches(p) : SocketFor(e) = i).name>> ELSE wires[i]]
          /\ made' = IF Matches(p) = {} THEN made ELSE made \cup {p}
          /\ UNCHANGED <<at, outcome>>
    /\ todo1' = Tail(todo1)
    /\ UNCHANGED <<job, outer>>

\* The root's exports become the result's, unless there is nothing to compose.
ExportsSocket ==
    /\ at = "wire" /\ todo1 = <<>>
    /\ \/ made = {job.root} /\ job.exports = <<>> /\ GivesUp /\ UNCHANGED outer
       \/ (made # {job.root} \/ job.exports # <<>>) /\ GoesTo("explicit") /\ outer' = RootExports
    /\ todo1' = job.exports
    /\ UNCHANGED <<job, wires, made>>

\* A plug that supplies nothing is instantiated now.  An export of the root is there.
ExportsExplicitly ==
    /\ at = "explicit" /\ todo1 # <<>>
    /\ LET e == Head(todo1)
           there == e.interface \in Names(job.parts[e.source].exports)
           free == e.source = job.root \/ e.interface \notin DOMAIN outer
       IN \/ /\ ~(there /\ free)
             /\ EmitEnds("failed")
             /\ UNCHANGED <<made, outer>>
          \/ /\ there /\ free
             /\ made' = made \cup {e.source}
             /\ outer' = [n \in DOMAIN outer \cup {e.interface} |->
                             IF n = e.interface THEN e.source ELSE outer[n]]
             /\ UNCHANGED <<at, outcome>>
    /\ todo1' = Tail(todo1)
    /\ UNCHANGED <<job, wires>>

\* The wac tool is run for plans without explicit exports; it may be missing a file or
\* refuse its plugs.  If it does not, it wires them as above.
ToolFails ==
    /\ at = "wire" /\ job.exports = <<>>
    /\ GivesUp
    /\ UNCHANGED <<job, todo1, wires, made, outer>>

\* What is encoded is validated, and may be refused.
Encodes ==
    /\ at = "explicit" /\ todo1 = <<>>
    /\ EmitEnds("composed") \/ GivesUp
    /\ UNCHANGED <<job, todo1, wires, made, outer>>

----------------------------- (* the wrapper *) -----------------------------

\* Variant: a provider that is staged already gets no further import.
FirstImportOnly(i) == \A j \in 1..(i - 1) : job.bindings[j].provider # job.bindings[i].provider
Routed(i) == TRUE

\* One route for an import name, whoever imports it: the last binding counts.
RouteOf(n) ==
    LET about == {i \in DOMAIN job.bindings : job.bindings[i].import = n} IN
    IF about # {} /\ Routed(Max(about)) THEN job.bindings[Max(about)].provider ELSE Undone

\* wasm-compose takes the export of a type that fits.
Suitable(i) == {e \in job.parts[RouteOf(Root.imports[i].name)].exports : e.type = Root.imports[i].type}

Wraps ==
    /\ at = "wrap"
    /\ \/ EmitEnds("failed") /\ UNCHANGED <<wires, made, outer>>
       \/ /\ EmitEnds("composed")
          /\ LET wired == {i \in DOMAIN Root.imports : RouteOf(Root.imports[i].name) # Undone /\ Suitable(i) # {}} IN
             /\ wires' = [i \in wired |-> <<RouteOf(Root.imports[i].name), (CHOOSE e \in Suitable(i) : TRUE).name>>]
             /\ made' = {job.root} \cup {wires'[i][1] : i \in wired}
          /\ outer' = RootExports
    /\ UNCHANGED <<job, todo1>>

EmitNext ==
    \/ LoadsParts \/ ToolFails \/ WiresPlug \/ ExportsSocket \/ ExportsExplicitly \/ Encodes \/ Wraps

EmitSpec == EmitInit /\ [][EmitNext]_wiringVars

-----------------------------------------------------------------------------

\* Bindings that leave no doubt: no other one names the import, and the provider, a
\* component other than the root, has an export of that name and of its type.
Plain(b) ==
    /\ b.provider # job.root
    /\ \A c \in Range(job.bindings) : c.import = b.import => c = b
    /\ \E i \in Range(Root.imports), e \in job.parts[b.provider].exports :
         i.name = b.import /\ e.name = i.name /\ e.type = i.type

\* Whichever way a plan is composed, an import of the root that a plain binding is about
\* is wired to the provider the binding names, other providers and the sources of
\* explicit exports notwithstanding, and every wire joins what has one type.  The result
\* has the exports of the root and, from the component the plan names, each explicit
\* export, whether or not that component supplies the root with anything.
CompositionIsRight == outcome = "composed" =>
    /\ \A b \in Range(job.bindings) : Plain(b) =>
         \E i \in DOMAIN wires : Root.imports[i].name = b.import /\ wires[i][1] = b.provider
    /\ \A i \in DOMAIN wires : i \in DOMAIN Root.imports /\
         \E e \in job.parts[wires[i][1]].exports : e.name = wires[i][2] /\ e.type = Root.imports[i].type
    /\ \A n \in DOMAIN RootExports : outer[n] = job.root
    /\ \A e \in Range(job.exports) :
         e.interface \in DOMAIN outer /\ outer[e.interface] = e.source /\ e.source \in made
=============================================================================
