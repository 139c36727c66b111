---------------------------- MODULE PlanValidation ----------------------------
(***************************************************************************)
(* PlanValidator of libs/compose-core/src/plan.rs: the gate between a plan *)
(* and its composition.  validate runs its phases in order and stops at    *)
(* the first error; the graph phase is a recursive depth-first search from *)
(* the root, of which a step is one call of has_cycle or one return.       *)
(***************************************************************************)
EXTENDS Integers, Sequences, FiniteSets

CONSTANTS
    Ids,     \* component ids a plan may mention
    Plans,   \* the plans to validate
    None     \* a binding without consumer_id; no verdict yet

\* flaws: what the phases that look at one entry at a time would find.
Flaws == {"schema", "blobs", "names", "strict", "exports"}
PlanShapes == [components : SUBSET Ids, root : Ids,
               bindings : SUBSET ((Ids \cup {None}) \X Ids), flaws : SUBSET Flaws]

Verdicts == {"ok", "PlanInvalidSchema", "PlanMissingField", "EmitMissingBlob",
             "PlanInvalidGraph", "PlanCycleDetected"}

ASSUME PlanAssumption ==
    /\ IsFiniteSet(Ids)
    /\ Plans \subseteq PlanShapes
    /\ None \notin Ids \cup Verdicts

VARIABLES
    plan,      \* the plan under validation
    mode,      \* which entry point: validate or validate_structure
    phase,     \* the phase to run next
    visited,   \* has_cycle's visited
    recStack,  \* has_cycle's rec_stack
    stack,     \* the calls of has_cycle in progress, outermost first
    todo,      \* node -> the deps its call has still to look at
    verdict,   \* None, "ok" or the code of the error
    rank       \* history: node -> how many calls had returned before its own did

vars == <<plan, mode, phase, visited, recStack, stack, todo, verdict, rank>>

Phases == {"schema", "blobs", "root", "graph", "bindings", "linkage", "exports", "end"}

\* The providers of the bindings whose consumer is n.
Deps(n) == {b[2] : b \in {x \in plan.bindings : x[1] = n}}

Returned == visited \ recStack
Top == stack[Len(stack)]

Init ==
    /\ plan \in Plans
    /\ mode \in {"validate", "validate_structure"}
    /\ phase = "schema"
    /\ visited = {} /\ recStack = {} /\ stack = <<>>
    /\ todo = [n \in Ids |-> {}]
    /\ rank = [n \in Ids |-> 0]
    /\ verdict = None

search == <<visited, recStack, stack, todo, rank>>

Stop(v) == phase' = "end" /\ verdict' = v
Continue(next) == phase' = next /\ UNCHANGED verdict

--------------------------- (* phases of one look *) ---------------------------

CheckSchema ==
    /\ phase = "schema"
    /\ \/ /\ "schema" \in plan.flaws
          /\ \E v \in {"PlanInvalidSchema", "PlanMissingField"} : Stop(v)
       \/ plan.components = {} /\ Stop("PlanMissingField")
       \/ /\ "schema" \notin plan.flaws /\ plan.components # {}
          /\ Continue(IF mode = "validate" THEN "blobs" ELSE "root")
    /\ UNCHANGED <<plan, mode, search>>

CheckBlobs ==
    /\ phase = "blobs"
    /\ IF "blobs" \in plan.flaws THEN Stop("EmitMissingBlob") ELSE Continue("root")
    /\ UNCHANGED <<plan, mode, search>>

\* Whichever binding comes first is reported.
CheckBindings ==
    /\ phase = "bindings"
    /\ \/ /\ \E b \in plan.bindings : b[2] \notin plan.components
          /\ Stop("PlanInvalidGraph")
       \/ /\ "names" \in plan.flaws
          /\ Stop("PlanInvalidSchema")
       \/ /\ "names" \notin plan.flaws
          /\ \A b \in plan.bindings : b[2] \in plan.components
          /\ Continue("linkage")
    /\ UNCHANGED <<plan, mode, search>>

CheckLinkage ==
    /\ phase = "linkage"
    /\ IF "strict" \in plan.flaws THEN Stop("PlanInvalidGraph") ELSE Continue("exports")
    /\ UNCHANGED <<plan, mode, search>>

CheckExports ==
    /\ phase = "exports"
    /\ \/ "exports" \in plan.flaws /\ \E v \in {"PlanInvalidSchema", "PlanInvalidGraph"} : Stop(v)
       \/ "exports" \notin plan.flaws /\ Stop("ok")
    /\ UNCHANGED <<plan, mode, search>>

------------------------------ (* the graph phase *) ------------------------------

Enter(n) ==
    /\ visited' = visited \cup {n}
    /\ recStack' = recStack \cup {n}
    /\ stack' = Append(stack, n)
    /\ UNCHANGED rank

CheckRoot ==
    /\ phase = "root"
    /\ \/ /\ plan.root \notin plan.components
          /\ Stop("PlanInvalidGraph")
          /\ UNCHANGED search
       \/ /\ plan.root \in plan.components
          /\ Continue("graph")
          /\ Enter(plan.root)
          /\ todo' = [todo EXCEPT ![plan.root] = Deps(plan.root)]
    /\ UNCHANGED <<plan, mode>>

\* Variant: visited is looked at before rec_stack.
LooksAtVisitedFirst(d) ==
    /\ phase = "graph"
    /\ stack # <<>>
    /\ d \in todo[Top]
    /\ \/ /\ d \in visited
          /\ todo' = [todo EXCEPT ![Top] = @ \ {d}]
          /\ UNCHANGED <<visited, recStack, stack, rank>>
       \/ /\ d \notin visited
          /\ Enter(d)
          /\ todo' = [todo EXCEPT ![Top] = @ \ {d}, ![d] = Deps(d)]
    /\ UNCHANGED <<plan, mode, phase, verdict>>

\* Variant: a dep already visited is not taken off the list.
LooksAtAgain(d) ==
    /\ phase = "graph"
    /\ stack # <<>>
    /\ d \in todo[Top] \ visited
    /\ Enter(d)
    /\ todo' = [todo EXCEPT ![Top] = @ \ {d}, ![d] = Deps(d)]
    /\ UNCHANGED <<plan, mode, phase, verdict>>

\* has_cycle is called for a dep of the node on top of the stack.  The order of the
\* deps is that of the bindings, which a plan may list in any order.
LooksAt(d) ==
    /\ phase = "graph"
    /\ stack # <<>>
    /\ d \in todo[Top]
    /\ \/ /\ d \in recStack
          /\ Stop("PlanCycleDetected")
          /\ UNCHANGED search
       \/ /\ d \in visited \ recStack
          /\ todo' = [todo EXCEPT ![Top] = @ \ {d}]
          /\ UNCHANGED <<phase, verdict, visited, recStack, stack, rank>>
       \/ /\ d \notin visited
          /\ Enter(d)
          /\ todo' = [todo EXCEPT ![Top] = @ \ {d}, ![d] = Deps(d)]
          /\ UNCHANGED <<phase, verdict>>
    /\ UNCHANGED <<plan, mode>>

\* Variant: rec_stack keeps the node.
ReturnsOnStack ==
    /\ phase = "graph"
    /\ stack # <<>>
    /\ todo[Top] = {}
    /\ stack' = SubSeq(stack, 1, Len(stack) - 1)
    /\ rank' = [rank EXCEPT ![Top] = Cardinality(Returned)]
    /\ phase' = IF Len(stack) = 1 THEN "bindings" ELSE "graph"
    /\ UNCHANGED <<plan, mode, visited, recStack, todo, verdict>>

\* A call with no dep left takes its node off rec_stack; the outermost ends the phase.
Returns ==
    /\ phase = "graph"
    /\ stack # <<>>
    /\ todo[Top] = {}
    /\ recStack' = recStack \ {Top}
    /\ stack' = SubSeq(stack, 1, Len(stack) - 1)
    /\ rank' = [rank EXCEPT ![Top] = Cardinality(Returned)]
    /\ phase' = IF Len(stack) = 1 THEN "bindings" ELSE "graph"
    /\ UNCHANGED <<plan, mode, visited, todo, verdict>>

-----------------------------------------------------------------------------

Next ==
    \/ CheckSchema \/ CheckBlobs \/ CheckRoot
    \/ \E d \in Ids : LooksAt(d)
    \/ Returns
    \/ CheckBindings \/ CheckLinkage \/ CheckExports

Spec == Init /\ [][Next]_vars
FairSpec == Spec /\ WF_vars(Next)

-----------------------------------------------------------------------------

\* The search walks over component ids only: a binding without a consumer, which the
\* host satisfies, never enters it.
TypeOK ==
    /\ plan \in Plans
    /\ mode \in {"validate", "validate_structure"}
    /\ phase \in Phases
    /\ visited \subseteq Ids /\ recStack \subseteq Ids
    /\ stack \in Seq(Ids)
    /\ todo \in [Ids -> SUBSET Ids]
    /\ verdict \in Verdicts \cup {None}
    /\ rank \in [Ids -> Nat]

\* An accepted plan has an order in which its components can be instantiated: the
\* root is in it, every provider of a component in it comes strictly before, and
\* every provider of the plan is one of its components.  The search does not compute
\* that order; it is the one in which its calls return.
AcceptedCanBeOrdered == verdict = "ok" =>
    /\ plan.root \in Returned
    /\ \A n \in Returned : \A d \in Deps(n) : d \in Returned /\ rank[d] < rank[n]
    /\ \A b \in plan.bindings : b[2] \in plan.components

\* m is in every set that holds the deps of n and the deps of what it holds: bindings
\* lead from n to m.
Reaches(n, m) == \A S \in SUBSET Ids :
    Deps(n) \subseteq S /\ (\A x \in S : Deps(x) \subseteq S) => m \in S
RootOnCycle == \E n \in Ids : (n = plan.root \/ Reaches(plan.root, n)) /\ Reaches(n, n)

\* The search answers what the closure of the bindings says, in whatever order they
\* are listed: a plan is rejected for a cycle exactly when the root reaches one, and
\* a component that several others share is none.
CyclesAreFound ==
    /\ verdict = "PlanCycleDetected" => RootOnCycle
    /\ verdict = "ok" => ~RootOnCycle

\* Whatever the bindings are, the search comes to an end, and validate answers.
ValidationEnds == <>(phase = "end")
=============================================================================
