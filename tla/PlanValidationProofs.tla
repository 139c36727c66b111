------------------------- MODULE PlanValidationProofs -------------------------
(***************************************************************************)
(* Proofs about PlanValidation for any finite set of ids and any plans,    *)
(* and, in the second part, about EmitWiring for any jobs.                 *)
(***************************************************************************)
EXTENDS PlanValidation, EmitWiring, FiniteSetTheorems, SequenceTheorems, TLAPS

\* The stack holds the nodes of rec_stack, each once; where it can be empty.
StackInv ==
    /\ \A i, j \in 1 .. Len(stack) : stack[i] = stack[j] => i = j
    /\ \A i \in 1 .. Len(stack) : stack[i] \in recStack
    /\ \A n \in recStack : \E i \in 1 .. Len(stack) : stack[i] = n
    /\ recStack \subseteq visited
    /\ phase \in {"schema", "blobs", "root"} => stack = <<>> /\ visited = {}
    /\ phase \in {"bindings", "linkage", "exports"} \/ verdict = "ok" =>
         stack = <<>> /\ plan.root \in visited
    /\ phase = "graph" => stack # <<>> /\ plan.root \in visited
    /\ phase # "end" => verdict = None

\* A node that has returned comes after all its deps; a dep that a call in progress
\* has looked at has returned, or is the next call of the stack.
OrderInv ==
    /\ \A n \in Returned : \A d \in Deps(n) : d \in Returned /\ rank[d] < rank[n]
    /\ \A n \in Returned : rank[n] < Cardinality(Returned)
    /\ \A i \in 1 .. Len(stack) : \A d \in Deps(stack[i]) \ todo[stack[i]] :
         d \in Returned \/ (i < Len(stack) /\ d = stack[i + 1])

\* The providers of the bindings are components once that phase is over.
ProvidersInv == phase \in {"linkage", "exports"} \/ verdict = "ok" =>
    \A b \in plan.bindings : b[2] \in plan.components

IInv == TypeOK /\ StackInv /\ OrderInv /\ ProvidersInv

USE DEF Verdicts, Phases

LEMMA DepsType == TypeOK => \A n : Deps(n) \in SUBSET Ids
<1> SUFFICES ASSUME TypeOK, NEW n, NEW b \in plan.bindings PROVE b[2] \in Ids
  BY DEF Deps
<1>1. plan \in PlanShapes
  BY PlanAssumption DEF TypeOK
<1>2. b \in (Ids \cup {None}) \X Ids
  BY <1>1 DEF PlanShapes
<1> QED BY <1>2

LEMMA InitInv == Init => IInv
<1> SUFFICES ASSUME Init PROVE IInv
  OBVIOUS
<1> USE PlanAssumption
<1>1. TypeOK
  BY DEF Init, TypeOK
<1>2. stack = <<>> /\ Len(stack) = 0 /\ Returned = {} /\ recStack = {} /\ visited = {}
  BY DEF Init, Returned
<1>3. verdict = None /\ phase = "schema"
  BY DEF Init
<1>4. StackInv
  BY <1>2, <1>3 DEF StackInv
<1>5. OrderInv
  BY <1>2 DEF OrderInv
<1>6. ProvidersInv
  BY <1>3 DEF ProvidersInv
<1> QED BY <1>1, <1>4, <1>5, <1>6 DEF IInv

-----------------------------------------------------------------------------
(* The search.                                                             *)

\* Entering a node, or skipping one that has returned, disturbs nobody's deps.
LEMMA EnterStep ==
    ASSUME IInv, NEW d \in Ids, d \notin visited, Enter(d),
           NEW nextTodo \in [Ids -> SUBSET Ids], todo' = nextTodo,
           plan' = plan, verdict' = verdict, verdict = None, phase' = "graph",
           mode' = mode,
           nextTodo[d] = Deps(d),
           \A n \in recStack \ {Top} : nextTodo[n] = todo[n],
           stack # <<>> => nextTodo[Top] = todo[Top] \ {d},
           (phase = "root" /\ d = plan.root) \/ phase = "graph"
    PROVE  IInv'
<1> USE PlanAssumption DEF IInv
<1>1. /\ stack \in Seq(Ids) /\ Len(stack) \in Nat
      /\ stack' = Append(stack, d) /\ Len(stack') = Len(stack) + 1
      /\ stack'[Len(stack) + 1] = d
      /\ \A i \in 1 .. Len(stack) : stack'[i] = stack[i]
  BY DEF TypeOK, Enter
<1>2. visited' = visited \cup {d} /\ recStack' = recStack \cup {d} /\ rank' = rank
  BY DEF Enter
<1>3. Returned' = Returned /\ \A n : Deps(n)' = Deps(n)
  BY <1>2 DEF Returned, Deps, StackInv
<1>4. TypeOK'
  BY <1>1, <1>2 DEF TypeOK
<1>6. StackInv'
  BY <1>1, <1>2 DEF StackInv
<1>7. OrderInv'
  <2>1. ASSUME NEW i \in 1 .. Len(stack'), NEW e \in (Deps(stack[i]) \ todo[stack[i]])'
        PROVE  e \in Returned' \/ (i < Len(stack') /\ e = stack'[i + 1])
    <3>1. CASE i = Len(stack) + 1
      BY <1>1, <1>3, <2>1, <3>1
    <3>2. CASE i = Len(stack)
      <4>1. stack'[i] = Top /\ stack # <<>> /\ e \in Deps(Top) /\ e \notin todo[Top] \ {d}
        BY <1>1, <1>3, <2>1, <3>2 DEF Top
      <4>2. CASE e = d
        BY <1>1, <3>2, <4>2
      <4>3. CASE e # d
        <5>1. e \in Deps(stack[i]) \ todo[stack[i]]
          BY <4>1, <4>3, <3>2 DEF Top
        <5> QED BY <1>1, <1>3, <3>2, <5>1 DEF OrderInv
      <4> QED BY <4>2, <4>3
    <3>3. CASE i < Len(stack)
      <4>1. stack'[i] = stack[i] /\ stack'[i + 1] = stack[i + 1] /\ i \in 1 .. Len(stack)
        BY <1>1, <3>3
      <4>2. stack[i] \in recStack \ {Top}
        BY <1>1, <3>3, <4>1 DEF StackInv, Top
      <4>3. e \in Deps(stack[i]) \ todo[stack[i]]
        BY <1>3, <2>1, <4>1, <4>2
      <4> QED BY <1>1, <1>3, <4>1, <4>3 DEF OrderInv
    <3> QED BY <1>1, <3>1, <3>2, <3>3
  <2> QED BY <1>2, <1>3, <2>1 DEF OrderInv
<1>8. ProvidersInv'
  BY DEF ProvidersInv
<1> QED BY <1>4, <1>6, <1>7, <1>8

\* A step that leaves the search alone.
LEMMA QuietStep ==
    ASSUME IInv, UNCHANGED <<plan, mode, search>>,
           phase' \in Phases, verdict' \in Verdicts \cup {None},
           phase' \in {"schema", "blobs", "root"} => stack = <<>> /\ visited = {},
           phase' \in {"bindings", "linkage", "exports"} \/ verdict' = "ok" =>
             stack = <<>> /\ plan.root \in visited,
           phase' # "graph", phase' # "end" => verdict' = None,
           phase' \in {"linkage", "exports"} \/ verdict' = "ok" =>
             \A b \in plan.bindings : b[2] \in plan.components
    PROVE  IInv'
<1> USE DEF IInv, search
<1>1. TypeOK'
  BY DEF TypeOK
<1>2. StackInv'
  BY DEF StackInv
<1>3. Returned' = Returned /\ \A n : Deps(n)' = Deps(n)
  BY DEF Returned, Deps
<1>4. OrderInv'
  BY <1>3 DEF OrderInv
<1>5. ProvidersInv'
  BY DEF ProvidersInv
<1> QED BY <1>1, <1>2, <1>4, <1>5

LEMMA RootStep == IInv /\ CheckRoot => IInv'
<1> SUFFICES ASSUME IInv, CheckRoot PROVE IInv'
  OBVIOUS
<1> USE PlanAssumption DEF IInv
<1>1. CASE plan.root \notin plan.components
  <2>1. UNCHANGED <<plan, mode, search>> /\ phase' = "end" /\ verdict' = "PlanInvalidGraph"
    BY <1>1 DEF CheckRoot, Stop
  <2> QED BY <2>1, QuietStep
<1>2. CASE plan.root \in plan.components
  <2>1. phase = "root" /\ stack = <<>> /\ verdict = None /\ recStack = {}
    BY DEF CheckRoot, StackInv
  <2>2. plan.root \in Ids /\ plan.root \notin visited
    BY <2>1, PlanAssumption DEF TypeOK, PlanShapes, StackInv
  <2>3. todo' = [todo EXCEPT ![plan.root] = Deps(plan.root)]
    BY <1>2 DEF CheckRoot
  <2>4. todo' \in [Ids -> SUBSET Ids] /\ todo'[plan.root] = Deps(plan.root)
    BY <2>2, <2>3, DepsType DEF TypeOK
  <2>5. Enter(plan.root) /\ phase' = "graph" /\ UNCHANGED <<plan, mode, verdict>>
    BY <1>2, <2>1 DEF CheckRoot, Continue
  <2> HIDE DEF IInv
  <2> QED BY <2>1, <2>2, <2>4, <2>5, EnterStep
<1> QED BY <1>1, <1>2

LEMMA LooksAtStep == ASSUME IInv, NEW d \in Ids, LooksAt(d) PROVE IInv'
<1> USE PlanAssumption DEF IInv
<1>1. /\ phase = "graph" /\ stack # <<>> /\ verdict = None /\ d \in todo[Top]
      /\ stack \in Seq(Ids) /\ Len(stack) \in Nat \ {0}
      /\ Top \in Ids /\ Top \in recStack /\ UNCHANGED <<plan, mode>>
  <2>1. /\ phase = "graph" /\ stack # <<>> /\ d \in todo[Top] /\ stack \in Seq(Ids)
        /\ UNCHANGED <<plan, mode>>
    BY DEF LooksAt, TypeOK
  <2>2. Len(stack) \in Nat \ {0} /\ Top \in Ids
    BY <2>1 DEF Top
  <2>3. verdict = None /\ Top \in recStack
    BY <2>1, <2>2 DEF StackInv, Top
  <2> QED BY <2>1, <2>2, <2>3
<1>2. CASE d \in recStack
  <2>1. phase' = "end" /\ verdict' = "PlanCycleDetected" /\ UNCHANGED <<plan, mode, search>>
    BY <1>1, <1>2 DEF LooksAt, Stop, StackInv
  <2> HIDE DEF IInv
  <2> QED BY <2>1, QuietStep
<1>3. CASE d \in visited \ recStack
  <2>1. /\ UNCHANGED <<plan, mode, phase, verdict, visited, recStack, stack, rank>>
        /\ todo' = [todo EXCEPT ![Top] = @ \ {d}]
    BY <1>1, <1>3 DEF LooksAt
  <2>2. TypeOK' /\ StackInv' /\ ProvidersInv'
    BY <1>1, <2>1 DEF TypeOK, StackInv, ProvidersInv
  <2>3. Returned' = Returned /\ d \in Returned /\ \A n : Deps(n)' = Deps(n)
    BY <1>3, <2>1 DEF Returned, Deps
  <2>4. ASSUME NEW i \in 1 .. Len(stack), NEW e \in Deps(stack[i]) \ todo'[stack[i]]
        PROVE  e \in Returned \/ (i < Len(stack) /\ e = stack[i + 1])
    <3>1. todo'[stack[i]] = todo[stack[i]] \/ todo'[stack[i]] = todo[stack[i]] \ {d}
      BY <1>1, <2>1 DEF TypeOK
    <3> QED BY <2>3, <2>4, <3>1 DEF OrderInv
  <2>5. OrderInv'
    BY <2>1, <2>3, <2>4 DEF OrderInv
  <2> QED BY <2>2, <2>5
<1>4. CASE d \notin visited
  <2>1. d # Top
    BY <1>1, <1>4 DEF StackInv
  <2>2. todo' = [todo EXCEPT ![Top] = @ \ {d}, ![d] = Deps(d)]
    BY <1>4 DEF LooksAt, StackInv
  <2>3. /\ todo' \in [Ids -> SUBSET Ids]
        /\ todo'[d] = Deps(d) /\ todo'[Top] = todo[Top] \ {d}
        /\ \A n \in recStack \ {Top} : todo'[n] = todo[n]
    BY <1>1, <1>4, <2>1, <2>2, DepsType DEF TypeOK, StackInv
  <2>4. Enter(d) /\ phase' = "graph" /\ verdict' = verdict
    BY <1>1, <1>4 DEF LooksAt, StackInv
  <2> HIDE DEF IInv
  <2> QED BY <1>1, <1>4, <2>3, <2>4, EnterStep
<1> QED BY <1>2, <1>3, <1>4

\* What is left of a sequence whose last element is dropped.
LEMMA Dropped ==
    ASSUME NEW S, NEW s \in Seq(S), s # <<>>
    PROVE  /\ SubSeq(s, 1, Len(s) - 1) \in Seq(S)
           /\ Len(SubSeq(s, 1, Len(s) - 1)) = Len(s) - 1
           /\ \A i \in 1 .. Len(s) - 1 : SubSeq(s, 1, Len(s) - 1)[i] = s[i]
<1>1. Len(s) \in Nat \ {0} /\ \A i \in 1 .. Len(s) - 1 : s[i] \in S
  OBVIOUS
<1>2. 1 \in Int /\ Len(s) - 1 \in Int
  BY <1>1
<1>3. DEFINE n == Len(s) - 1
<1>4. /\ SubSeq(s, 1, n) \in Seq(S)
      /\ Len(SubSeq(s, 1, n)) = IF 1 <= n THEN n - 1 + 1 ELSE 0
      /\ \A i \in 1 .. n - 1 + 1 : SubSeq(s, 1, n)[i] = s[1 + i - 1]
  BY <1>1, <1>2, SubSeqProperties
<1>5. n \in Nat /\ n - 1 + 1 = n
  BY <1>1
<1>6. \A i \in 1 .. n : SubSeq(s, 1, n)[i] = s[i]
  <2>1. TAKE i \in 1 .. n
  <2>2. 1 + i - 1 = i
    BY <2>1, <1>5
  <2> QED BY <1>4, <1>5, <2>2
<1> QED BY <1>4, <1>5, <1>6

LEMMA ReturnsStep == IInv /\ Returns => IInv'
<1> SUFFICES ASSUME IInv, Returns PROVE IInv'
  OBVIOUS
<1> USE PlanAssumption DEF IInv
<1> DEFINE L == Len(stack)
<1>1. /\ stack \in Seq(Ids) /\ L \in Nat \ {0} /\ stack[L] = Top /\ Top \in Ids
      /\ Top \in recStack /\ verdict = None /\ todo[Top] = {} /\ phase = "graph"
  BY DEF Returns, TypeOK, StackInv, Top
<1>2. /\ stack' \in Seq(Ids) /\ Len(stack') = L - 1
      /\ \A i \in 1 .. L - 1 : stack'[i] = stack[i]
  <2>1. stack' = SubSeq(stack, 1, L - 1)
    BY DEF Returns
  <2>2. stack \in Seq(Ids) /\ L \in Nat \ {0}
    BY <1>1
  <2>3. stack # <<>>
    BY DEF Returns
  <2> QED BY <2>1, <2>2, <2>3, Dropped
<1>3. /\ recStack' = recStack \ {Top} /\ visited' = visited /\ todo' = todo
      /\ UNCHANGED <<plan, mode, verdict>>
      /\ rank' = [rank EXCEPT ![Top] = Cardinality(Returned)]
      /\ phase' = IF L = 1 THEN "bindings" ELSE "graph"
  BY DEF Returns
<1>4. Returned' = Returned \cup {Top} /\ Top \notin Returned /\ \A n : Deps(n)' = Deps(n)
  BY <1>1, <1>3 DEF Returned, StackInv, Deps
<1>5. /\ Cardinality(Returned) \in Nat
      /\ Cardinality(Returned') = Cardinality(Returned) + 1
  <2>1. IsFiniteSet(Returned)
    BY FS_Subset DEF Returned, TypeOK
  <2> QED BY <1>4, <2>1, FS_AddElement, FS_CardinalityType
<1>6. TypeOK'
  BY <1>1, <1>2, <1>3, <1>5 DEF TypeOK
<1>7. StackInv'
  <2>1. \A i \in 1 .. L - 1 : stack[i] # Top
    BY <1>1 DEF StackInv
  <2>2. \A n \in recStack' : \E i \in 1 .. L - 1 : stack[i] = n
    <3>1. TAKE n \in recStack'
    <3>2. PICK i \in 1 .. L : stack[i] = n
      BY <1>3 DEF StackInv
    <3>3. i # L
      BY <1>1, <1>3, <3>2
    <3> QED BY <1>1, <3>2, <3>3
  <2>3. phase' = "bindings" => stack' = <<>>
    BY <1>1, <1>2, <1>3
  <2>4. phase' = "graph" => stack' # <<>>
    BY <1>1, <1>2, <1>3
  <2>5. phase' \in {"bindings", "graph"} /\ plan'.root \in visited'
    BY <1>1, <1>3 DEF StackInv
  <2>6. \A i, j \in 1 .. L - 1 : stack[i] = stack[j] => i = j
    BY <1>1 DEF StackInv
  <2>7. \A i \in 1 .. L - 1 : stack[i] \in recStack'
    BY <1>1, <1>3, <2>1 DEF StackInv
  <2>8. recStack' \subseteq visited' /\ verdict' = None
    BY <1>1, <1>3 DEF StackInv
  <2> HIDE DEF L
  <2> QED BY <1>2, <2>2, <2>3, <2>4, <2>5, <2>6, <2>7, <2>8 DEF StackInv
\* All deps of the node that returns have returned before it.
<1>8. \A d \in Deps(Top) : d \in Returned
  BY <1>1 DEF OrderInv
<1>9. OrderInv'
  <2>1. ASSUME NEW n \in Returned', NEW d \in Deps(n)
        PROVE  d \in Returned' /\ rank'[d] < rank'[n]
    <3>1. CASE n = Top
      <4>1. d \in Returned /\ rank'[d] = rank[d] /\ rank'[n] = Cardinality(Returned)
        BY <1>1, <1>3, <1>4, <1>8, <3>1 DEF TypeOK
      <4> QED BY <1>4, <4>1 DEF OrderInv
    <3>2. CASE n # Top
      <4>1. n \in Returned /\ d \in Returned /\ rank[d] < rank[n]
        BY <1>4, <2>1, <3>2 DEF OrderInv
      <4>2. d # Top
        BY <1>4, <4>1
      <4>3. rank'[d] = rank[d] /\ rank'[n] = rank[n]
        BY <1>3, <3>2, <4>2, <4>1 DEF TypeOK, Returned
      <4> QED BY <1>4, <4>1, <4>3
    <3> QED BY <3>1, <3>2
  <2>2. ASSUME NEW n \in Returned' PROVE rank'[n] < Cardinality(Returned)'
    <3>1. CASE n = Top
      BY <1>1, <1>3, <1>5, <3>1 DEF TypeOK
    <3>2. CASE n # Top
      <4>1. n \in Returned /\ n \in Ids /\ rank'[n] = rank[n] /\ rank[n] \in Nat
        BY <1>3, <1>4, <3>2 DEF TypeOK, Returned
      <4> QED BY <1>5, <4>1 DEF OrderInv
    <3> QED BY <3>1, <3>2
  <2>3. ASSUME NEW i \in 1 .. L - 1, NEW d \in Deps(stack[i]) \ todo[stack[i]]
        PROVE  d \in Returned' \/ (i < L - 1 /\ d = stack[i + 1])
    <3>1. d \in Returned \/ d = stack[i + 1]
      BY <1>1, <2>3 DEF OrderInv
    <3>2. i = L - 1 => stack[i + 1] = Top
      BY <1>1, <2>3
    <3> QED BY <1>1, <1>4, <3>1, <3>2
  <2>4. ASSUME NEW i \in 1 .. Len(stack'), NEW d \in (Deps(stack[i]) \ todo[stack[i]])'
        PROVE  d \in Returned' \/ (i < Len(stack') /\ d = stack'[i + 1])
    <3>1. i \in 1 .. L - 1 /\ stack'[i] = stack[i] /\ d \in Deps(stack[i]) \ todo[stack[i]]
      <4>1. i \in 1 .. L - 1
        BY <1>2, <2>4
      <4>2. stack'[i] = stack[i]
        BY <1>2, <4>1
      <4>3. todo' = todo /\ (Deps(stack[i]))' = Deps(stack[i])
        BY <1>3, <4>2 DEF Deps
      <4> QED BY <2>4, <4>1, <4>2, <4>3
    <3>2. CASE d \in Returned'
      BY <3>2
    <3>3. CASE i < L - 1 /\ d = stack[i + 1]
      BY <1>1, <1>2, <3>1, <3>3
    <3> QED BY <2>3, <3>1, <3>2, <3>3
  <2> QED BY <1>4, <2>1, <2>2, <2>4 DEF OrderInv
<1>10. ProvidersInv'
  BY <1>1, <1>3 DEF ProvidersInv
<1> QED BY <1>6, <1>7, <1>9, <1>10

-----------------------------------------------------------------------------
(* The other phases, and the theorems.                                     *)

LEMMA PhasesStep ==
    IInv /\ (CheckSchema \/ CheckBlobs \/ CheckBindings \/ CheckLinkage \/ CheckExports) => IInv'
<1> SUFFICES ASSUME IInv, CheckSchema \/ CheckBlobs \/ CheckBindings \/ CheckLinkage \/ CheckExports
             PROVE  IInv'
  OBVIOUS
<1> USE PlanAssumption DEF Stop, Continue
<1>1. UNCHANGED <<plan, mode, search>>
  BY DEF CheckSchema, CheckBlobs, CheckBindings, CheckLinkage, CheckExports
<1>2. CASE CheckSchema \/ CheckBlobs
  <2>1. \/ phase' = "end" /\ verdict' \in {"PlanInvalidSchema", "PlanMissingField", "EmitMissingBlob"}
        \/ phase \in {"schema", "blobs"} /\ phase' \in {"blobs", "root"} /\ verdict' = verdict
    BY <1>2 DEF CheckSchema, CheckBlobs
  <2> QED BY <1>1, <2>1, QuietStep DEF IInv, StackInv
<1>3. CASE CheckBindings
  <2>1. \/ phase' = "end" /\ verdict' \in {"PlanInvalidGraph", "PlanInvalidSchema"}
        \/ /\ phase = "bindings" /\ phase' = "linkage" /\ verdict' = verdict
           /\ \A b \in plan.bindings : b[2] \in plan.components
    BY <1>3 DEF CheckBindings
  <2> QED BY <1>1, <2>1, QuietStep DEF IInv, StackInv
<1>4. CASE CheckLinkage \/ CheckExports
  <2>1. /\ phase \in {"linkage", "exports"}
        /\ \/ phase' = "end" /\ verdict' \in Verdicts
           \/ phase' = "exports" /\ verdict' = verdict
    BY <1>4 DEF CheckLinkage, CheckExports
  <2>2. stack = <<>> /\ plan.root \in visited /\ \A b \in plan.bindings : b[2] \in plan.components
    BY <2>1 DEF IInv, StackInv, ProvidersInv
  <2> QED BY <1>1, <2>1, <2>2, QuietStep DEF IInv, StackInv
<1> QED BY <1>2, <1>3, <1>4

LEMMA InductiveStep == IInv /\ [Next]_vars => IInv'
<1> SUFFICES ASSUME IInv, [Next]_vars PROVE IInv'
  OBVIOUS
<1>1. CASE UNCHANGED vars
  <2>1. UNCHANGED <<plan, mode, phase, search, verdict>>
    BY <1>1 DEF vars, search
  <2>2. phase \in Phases /\ verdict \in Verdicts \cup {None}
    BY DEF IInv, TypeOK
  <2>3. /\ StackInv' /\ ProvidersInv'
    BY <2>1 DEF IInv, StackInv, ProvidersInv, search
  <2>4. Returned' = Returned /\ \A n : Deps(n)' = Deps(n)
    BY <2>1 DEF Returned, Deps, search
  <2>5. OrderInv'
    BY <2>1, <2>4 DEF IInv, OrderInv, search
  <2> QED BY <2>1, <2>3, <2>5 DEF IInv, TypeOK, search
<1>2. CASE Next
  BY <1>2, PhasesStep, RootStep, LooksAtStep, ReturnsStep DEF Next
<1> QED BY <1>1, <1>2

\* Every variable of the validator stays in its type, for any plans.
THEOREM TypeCorrect == Spec => []TypeOK
<1>1. IInv => TypeOK
  BY DEF IInv
<1> QED BY <1>1, InitInv, InductiveStep, PTL DEF Spec

\* Whatever bindings a plan has, in whatever order: if validate or validate_structure
\* accepts it, its components can be instantiated providers first, from the root.
THEOREM AcceptedPlansAreOrdered == Spec => []AcceptedCanBeOrdered
<1>1. IInv => AcceptedCanBeOrdered
  <2> SUFFICES ASSUME IInv, verdict = "ok" PROVE AcceptedCanBeOrdered
    BY DEF AcceptedCanBeOrdered
  <2>1. stack = <<>> /\ plan.root \in visited
    BY DEF IInv, StackInv
  <2>2. recStack = {}
    BY <2>1 DEF IInv, StackInv
  <2> QED BY <2>1, <2>2 DEF IInv, OrderInv, ProvidersInv, AcceptedCanBeOrdered, Returned
<1> QED BY <1>1, InitInv, InductiveStep, PTL DEF Spec

-----------------------------------------------------------------------------

(***************************************************************************)
(* The calls in progress are a path of bindings from the root; what each   *)
(* has still to look at are deps of its node.                              *)
(***************************************************************************)
PathInv ==
    /\ \A i, j \in 1 .. Len(stack) : i < j => Reaches(stack[i], stack[j])
    /\ stack # <<>> => stack[1] = plan.root
    /\ \A n \in recStack : todo[n] \subseteq Deps(n)
    /\ verdict = "PlanCycleDetected" => RootOnCycle

LEMMA DepIsReached == \A n, m : m \in Deps(n) => Reaches(n, m)
BY DEF Reaches

LEMMA DepOfReached == \A n, m, d : Reaches(n, m) /\ d \in Deps(m) => Reaches(n, d)
BY DEF Reaches

\* A plan stays what it is, and so does what its bindings reach.
LEMMA ReachesStays ==
    ASSUME plan' = plan
    PROVE  /\ \A n : Deps(n)' = Deps(n)
           /\ \A n, m : Reaches(n, m)' <=> Reaches(n, m)
           /\ RootOnCycle' <=> RootOnCycle
<1>1. \A n : Deps(n)' = Deps(n)
  BY DEF Deps
<1>2. \A n, m : Reaches(n, m)' <=> Reaches(n, m)
  BY <1>1 DEF Reaches
<1> QED BY <1>1, <1>2 DEF RootOnCycle

LEMMA PathStays ==
    ASSUME PathInv, UNCHANGED <<plan, search>>, verdict' # "PlanCycleDetected" \/ verdict' = verdict
    PROVE  PathInv'
BY ReachesStays DEF PathInv, search

LEMMA EnterKeepsPath ==
    ASSUME IInv, PathInv, plan' = plan, verdict' = verdict, NEW d \in Ids, Enter(d), d \notin visited,
           stack = <<>> => d = plan.root,
           stack # <<>> => d \in Deps(Top),
           todo'[d] = Deps(d), \A n \in recStack : todo'[n] \subseteq todo[n]
    PROVE  PathInv'
<1> DEFINE L == Len(stack)
<1>1. /\ stack \in Seq(Ids) /\ L \in Nat /\ Len(stack') = L + 1 /\ stack'[L + 1] = d
      /\ \A i \in 1 .. L : stack'[i] = stack[i]
      /\ recStack' = recStack \cup {d}
  BY DEF IInv, TypeOK, Enter
<1>2. /\ \A n : Deps(n)' = Deps(n)
      /\ \A n, m : Reaches(n, m)' <=> Reaches(n, m)
      /\ RootOnCycle' <=> RootOnCycle
  BY ReachesStays
<1>3. stack # <<>> <=> L # 0
  BY <1>1
<1>4. ASSUME NEW i \in 1 .. L + 1, NEW j \in 1 .. L + 1, i < j PROVE Reaches(stack'[i], stack'[j])
  <2>1. i \in 1 .. L /\ stack'[i] = stack[i]
    BY <1>1, <1>4
  <2>2. CASE j = L + 1
    <3>1. d \in Deps(stack[L])
      BY <1>1, <1>3, <2>1 DEF Top
    <3>2. CASE i = L
      BY <1>1, <2>1, <2>2, <3>1, <3>2, DepIsReached
    <3>3. CASE i < L
      <4>1. Reaches(stack[i], stack[L])
        BY <1>1, <2>1, <3>3 DEF PathInv
      <4> QED BY <1>1, <2>1, <2>2, <3>1, <4>1, DepOfReached
    <3> QED BY <1>1, <2>1, <3>2, <3>3
  <2>3. CASE j # L + 1
    <3>1. j \in 1 .. L /\ stack'[j] = stack[j]
      BY <1>1, <1>4, <2>3
    <3> QED BY <1>4, <2>1, <3>1 DEF PathInv
  <2> QED BY <2>2, <2>3
<1>5. stack'[1] = plan.root
  <2>1. CASE stack = <<>>
    BY <1>1, <1>3, <2>1
  <2>2. CASE stack # <<>>
    BY <1>1, <1>3, <2>2 DEF PathInv
  <2> QED BY <2>1, <2>2
<1>6. \A n \in recStack' : todo'[n] \subseteq Deps(n)
  BY <1>1 DEF PathInv
<1> HIDE DEF L
<1> QED BY <1>1, <1>2, <1>4, <1>5, <1>6 DEF PathInv

(***************************************************************************)
(* A dep that is on the stack closes a cycle, which the root reaches.      *)
(***************************************************************************)
LEMMA StackClosesCycle ==
    ASSUME IInv, PathInv, NEW d \in Ids, d \in recStack, stack # <<>>, d \in Deps(Top)
    PROVE  RootOnCycle
<1> DEFINE L == Len(stack)
<1>1. L \in Nat \ {0} /\ Top = stack[L] /\ stack[1] = plan.root
  BY DEF IInv, TypeOK, PathInv, Top
<1>2. PICK j \in 1 .. L : stack[j] = d
  BY DEF IInv, StackInv
<1>3. Reaches(d, d)
  <2>1. CASE j = L
    BY <1>1, <1>2, <2>1, DepIsReached
  <2>2. CASE j < L
    <3>1. Reaches(d, Top)
      BY <1>1, <1>2, <2>2 DEF PathInv
    <3> QED BY <3>1, DepOfReached
  <2> QED BY <1>1, <1>2, <2>1, <2>2
<1>4. d = plan.root \/ Reaches(plan.root, d)
  <2>1. CASE j = 1
    BY <1>1, <1>2, <2>1
  <2>2. CASE j # 1
    <3>1. 1 \in 1 .. L /\ 1 < j
      BY <1>1, <1>2, <2>2
    <3> QED BY <1>1, <1>2, <3>1 DEF PathInv
  <2> QED BY <2>1, <2>2
<1> QED BY <1>3, <1>4 DEF RootOnCycle

LEMMA LooksAtKeepsPath == ASSUME IInv, PathInv, NEW d \in Ids, LooksAt(d) PROVE PathInv'
<1>1. /\ phase = "graph" /\ stack # <<>> /\ d \in todo[Top] /\ verdict = None
      /\ Top \in recStack /\ plan' = plan /\ Top \in Ids
  <2>1. phase = "graph" /\ stack # <<>> /\ d \in todo[Top] /\ plan' = plan
    BY DEF LooksAt
  <2>2. Len(stack) \in Nat \ {0} /\ Top \in Ids
    BY <2>1 DEF IInv, TypeOK, Top
  <2> QED BY <2>1, <2>2 DEF IInv, StackInv, Top
<1>2. d \in Deps(Top)
  BY <1>1 DEF PathInv
<1>3. CASE d \in recStack
  <2>1. UNCHANGED <<plan, search>>
    BY <1>1, <1>3 DEF LooksAt, IInv, StackInv
  <2>2. RootOnCycle'
    BY <1>1, <1>2, <1>3, StackClosesCycle, ReachesStays
  <2> QED BY <2>1, <2>2, ReachesStays DEF PathInv, search
<1>4. CASE d \in visited \ recStack
  <2>1. /\ UNCHANGED <<plan, verdict, recStack, stack>>
        /\ todo' = [todo EXCEPT ![Top] = @ \ {d}]
    BY <1>4 DEF LooksAt
  <2>2. \A n \in Ids : todo'[n] \subseteq todo[n]
    BY <1>1, <2>1 DEF IInv, TypeOK
  <2>3. \A n \in recStack : n \in Ids
    BY DEF IInv, TypeOK
  <2> QED BY <2>1, <2>2, <2>3, ReachesStays DEF PathInv
<1>5. CASE d \notin visited
  <2>1. /\ Enter(d) /\ verdict' = verdict
        /\ todo' = [todo EXCEPT ![Top] = @ \ {d}, ![d] = Deps(d)]
    BY <1>5 DEF LooksAt, IInv, StackInv
  <2>2. d \notin recStack /\ d # Top
    BY <1>1, <1>5 DEF IInv, StackInv
  <2>3. todo'[d] = Deps(d) /\ \A n \in recStack : todo'[n] \subseteq todo[n]
    BY <1>1, <2>1, <2>2 DEF IInv, TypeOK
  <2> QED BY <1>1, <1>2, <1>5, <2>1, <2>3, EnterKeepsPath
<1> QED BY <1>3, <1>4, <1>5

LEMMA ReturnsKeepsPath == ASSUME IInv, PathInv, Returns PROVE PathInv'
<1> DEFINE L == Len(stack)
<1>1. /\ stack \in Seq(Ids) /\ stack # <<>> /\ L \in Nat \ {0}
      /\ stack' = SubSeq(stack, 1, L - 1)
      /\ recStack' = recStack \ {Top} /\ UNCHANGED <<plan, todo, verdict>>
  BY DEF Returns, IInv, TypeOK
<1>2. /\ stack' \in Seq(Ids) /\ Len(stack') = L - 1
      /\ \A i \in 1 .. L - 1 : stack'[i] = stack[i]
  BY <1>1, Dropped
<1>3. ASSUME NEW i \in 1 .. L - 1, NEW j \in 1 .. L - 1, i < j
      PROVE  Reaches(stack'[i], stack'[j])
  <2>1. i \in 1 .. L /\ j \in 1 .. L
    BY <1>1
  <2>2. Reaches(stack[i], stack[j])
    BY <1>3, <2>1 DEF PathInv
  <2>3. stack'[i] = stack[i] /\ stack'[j] = stack[j]
    BY <1>2
  <2> QED BY <2>2, <2>3
<1>4. stack' # <<>> => stack'[1] = plan.root
  BY <1>1, <1>2 DEF PathInv
<1> HIDE DEF L
<1> QED BY <1>1, <1>2, <1>3, <1>4, ReachesStays DEF PathInv

LEMMA PathNextKeeps == IInv /\ PathInv /\ [Next]_vars => PathInv'
<1> SUFFICES ASSUME IInv, PathInv, [Next]_vars PROVE PathInv'
  OBVIOUS
<1>1. CASE UNCHANGED vars
  BY <1>1, PathStays DEF vars, search
<1>2. CASE CheckSchema \/ CheckBlobs \/ CheckBindings \/ CheckLinkage \/ CheckExports
  <2>1. UNCHANGED <<plan, search>> /\ (verdict' # "PlanCycleDetected" \/ verdict' = verdict)
    BY <1>2 DEF CheckSchema, CheckBlobs, CheckBindings, CheckLinkage, CheckExports, Stop, Continue
  <2> QED BY <2>1, PathStays
<1>3. CASE CheckRoot
  <2>1. CASE plan.root \notin plan.components
    BY <1>3, <2>1, PathStays DEF CheckRoot, Stop
  <2>2. CASE plan.root \in plan.components
    <3>1. /\ phase = "root" /\ Enter(plan.root) /\ UNCHANGED <<plan, verdict>>
          /\ todo' = [todo EXCEPT ![plan.root] = Deps(plan.root)]
      BY <1>3, <2>2 DEF CheckRoot, Continue
    <3>2. plan.root \in Ids /\ stack = <<>> /\ visited = {} /\ recStack = {}
      BY <3>1, PlanAssumption DEF IInv, TypeOK, PlanShapes, StackInv
    <3>3. todo'[plan.root] = Deps(plan.root)
      BY <3>1, <3>2 DEF IInv, TypeOK
    <3> QED BY <3>1, <3>2, <3>3, EnterKeepsPath
  <2> QED BY <2>1, <2>2
<1> QED BY <1>1, <1>2, <1>3, LooksAtKeepsPath, ReturnsKeepsPath DEF Next

\* Where the nodes that have returned have their deps before them, none is on a cycle.
LEMMA OrderedHasNoCycle ==
    ASSUME IInv, NEW n \in Returned
    PROVE  ~Reaches(n, n)
<1> DEFINE before == {x \in Returned : rank[x] < rank[n]}
<1>1. \A x \in Returned : x \in Ids /\ rank[x] \in Nat
  BY DEF IInv, TypeOK, Returned
<1>2. Deps(n) \subseteq before
  BY DEF IInv, OrderInv
<1>3. \A x \in before : Deps(x) \subseteq before
  BY <1>1 DEF IInv, OrderInv
<1>4. before \in SUBSET Ids /\ n \notin before
  BY <1>1
<1> HIDE DEF before
<1> QED BY <1>2, <1>3, <1>4 DEF Reaches

(***************************************************************************)
(* validate_graph answers what the closure of the bindings says, for any   *)
(* graph and any order of its bindings: PlanCycleDetected only where the   *)
(* root reaches a cycle, and acceptance only where it reaches none, also   *)
(* with components that several others share (has_cycle).                  *)
(***************************************************************************)
THEOREM CyclesAreExactlyFound == Spec => []CyclesAreFound
<1>1. Init => PathInv
  BY PlanAssumption DEF Init, PathInv
<1>2. IInv /\ PathInv => CyclesAreFound
  <2> SUFFICES ASSUME IInv, verdict = "ok", RootOnCycle PROVE FALSE
    BY DEF CyclesAreFound, PathInv
  <2>1. plan.root \in Returned /\ \A n \in Returned : Deps(n) \subseteq Returned
    BY DEF IInv, StackInv, OrderInv, Returned
  <2>2. PICK n \in Ids : (n = plan.root \/ Reaches(plan.root, n)) /\ Reaches(n, n)
    BY DEF RootOnCycle
  <2>3. Returned \in SUBSET Ids
    BY DEF IInv, TypeOK, Returned
  <2>4. n \in Returned
    BY <2>1, <2>2, <2>3 DEF Reaches
  <2> QED BY <2>2, <2>4, OrderedHasNoCycle
<1> QED BY <1>1, <1>2, InitInv, InductiveStep, PathNextKeeps, PTL DEF Spec

----------------------------- (* the emitter *) -----------------------------

(***************************************************************************)
(* The invariant: a component that had its turn has the imports it can     *)
(* supply, and keeps them (WiredInv); a wire joins one type (WiresInv);    *)
(* what the result exports stays served by whom it should be (OuterInv).   *)
(***************************************************************************)
EmitTypeOK ==
    /\ job \in Jobs
    /\ at \in {"load", "wire", "explicit", "wrap", "end"}
    /\ at = "wire" => todo1 \in Seq(DOMAIN job.parts)
    /\ at = "explicit" => todo1 \in Seq(Range(job.exports))
    /\ at # "end" => outcome = Undone
    /\ at = "wrap" => job.exports = <<>>

Wired(q) == q = job.root \/ \A i \in Supplied(q) : i \in DOMAIN wires /\ wires[i][1] = q
WiredInv ==
    /\ at = "wire" => /\ job.root \in made /\ \A q \in made : Wired(q)
                      /\ \A q \in Range(Plugs) : q \in Range(todo1) \/ Wired(q)
    /\ at = "explicit" => \A q \in Range(Plugs) : Wired(q)

WiresInv == \A i \in DOMAIN wires : i \in DOMAIN Root.imports /\
    \E e \in job.parts[wires[i][1]].exports : e.name = wires[i][2] /\ e.type = Root.imports[i].type

Served(e) == e.interface \in DOMAIN outer /\ outer[e.interface] = e.source /\ e.source \in made
OuterInv == at = "explicit" =>
    /\ \A n \in DOMAIN RootExports : n \in DOMAIN outer /\ outer[n] = job.root
    /\ \A e \in Range(job.exports) : e \in Range(todo1) \/ Served(e)

EmitInv == EmitTypeOK /\ WiredInv /\ WiresInv /\ OuterInv /\ CompositionIsRight

LEMMA LeastOfNaturals ==
    ASSUME NEW S \in SUBSET Nat, S # {}
    PROVE  \E x \in S : \A y \in S : x =< y
<1> DEFINE less == {ss \in Nat \X Nat : ss[1] < ss[2]}
<1>1. IsWellFoundedOn(less, Nat)
  BY NatLessThanWellFounded DEF OpToRel
<1> HIDE DEF less
<1>2. PICK x \in S : \A y \in S : ~(<<y, x>> \in less)
  BY <1>1, WFMin
<1>3. ASSUME NEW y \in S PROVE x =< y
  <2>1. y \in Nat /\ x \in Nat /\ <<y, x>> \notin less
    BY <1>2
  <2>2. y < x => <<y, x>> \in less
    BY <2>1 DEF less
  <2> QED BY <2>1, <2>2
<1> QED BY <1>3

LEMMA HasLeast == ASSUME NEW S \in SUBSET Nat, S # {} PROVE Min(S) \in S
<1>1. PICK x \in S : \A y \in S : x =< y
  BY LeastOfNaturals
<1> QED BY <1>1 DEF Min

LEMMA HasGreatest == ASSUME NEW n \in Nat, NEW S \in SUBSET (1 .. n), S # {} PROVE Max(S) \in S
<1> DEFINE T == {n - x : x \in S}
<1>1. T \in SUBSET Nat /\ T # {}
  <2>1. \A x \in S : x \in Nat /\ n - x \in Nat
    OBVIOUS
  <2> QED BY <2>1
<1>2. PICK t \in T : \A u \in T : t =< u
  BY <1>1, LeastOfNaturals
<1>3. PICK x \in S : t = n - x
  OBVIOUS
<1>4. ASSUME NEW y \in S PROVE x >= y
  <2>1. n - y \in T /\ x \in Nat /\ y \in Nat
    OBVIOUS
  <2>2. n - x =< n - y
    BY <1>2, <1>3, <2>1
  <2> QED BY <2>1, <2>2
<1> QED BY <1>4 DEF Max

LEMMA RangeOfTail ==
    ASSUME NEW U, NEW s \in Seq(U), s # <<>>
    PROVE  Tail(s) \in Seq(U) /\ Head(s) \in Range(s) /\ Range(s) = {Head(s)} \cup Range(Tail(s))
<1>1. /\ Tail(s) \in Seq(U) /\ Len(s) \in Nat \ {0} /\ Len(Tail(s)) = Len(s) - 1
      /\ \A i \in 1 .. (Len(s) - 1) : Tail(s)[i] = s[i + 1]
      /\ DOMAIN s = 1 .. Len(s) /\ DOMAIN Tail(s) = 1 .. (Len(s) - 1) /\ Head(s) = s[1]
  OBVIOUS
<1>2. ASSUME NEW i \in 1 .. Len(s) PROVE s[i] = Head(s) \/ s[i] \in Range(Tail(s))
  <2>1. CASE i = 1
    BY <1>1, <2>1
  <2>2. CASE i # 1
    <3>1. i - 1 \in 1 .. (Len(s) - 1) /\ (i - 1) + 1 = i
      BY <1>1, <2>2
    <3> QED BY <1>1, <3>1 DEF Range
  <2> QED BY <2>1, <2>2
<1>3. ASSUME NEW i \in 1 .. (Len(s) - 1) PROVE Tail(s)[i] \in Range(s)
  BY <1>1 DEF Range
<1>4. Head(s) \in Range(s)
  BY <1>1 DEF Range
<1> QED BY <1>1, <1>2, <1>3, <1>4 DEF Range

\* What the operators of a plan are is settled by the plan.
LEMMA JobStays ==
    ASSUME job' = job
    PROVE  /\ Root' = Root /\ RootExports' = RootExports /\ Plugs' = Plugs
           /\ \A p : Supplied(p)' = Supplied(p)
<1> QED BY DEF Root, RootExports, Plugs, Supplied, Matches, SocketFor, Compatible, Names

LEMMA Imports ==
    ASSUME job \in Jobs
    PROVE  /\ DOMAIN Root.imports \in SUBSET Nat /\ 0 \notin DOMAIN Root.imports
           /\ \A i, k \in DOMAIN Root.imports : Root.imports[i].name = Root.imports[k].name => i = k
<1>1. Root.imports \in Seq(Range(Root.imports))
  BY JobsAssumption DEF JobsAssumption, Root
<1>2. DOMAIN Root.imports = 1 .. Len(Root.imports) /\ Len(Root.imports) \in Nat
  BY <1>1
<1>3. \A i, k \in DOMAIN Root.imports : Root.imports[i].name = Root.imports[k].name => i = k
  BY JobsAssumption DEF JobsAssumption, Root
<1> QED BY <1>2, <1>3

LEMMA SocketIsImport ==
    ASSUME job \in Jobs, NEW e
    PROVE  /\ SocketFor(e) # 0 => SocketFor(e) \in DOMAIN Root.imports
           /\ \A k \in DOMAIN Root.imports : Root.imports[k].name = e.name => SocketFor(e) = k
<1> DEFINE same == {i \in DOMAIN Root.imports : Root.imports[i].name = e.name}
           near == {i \in DOMAIN Root.imports : Compatible(e.name, Root.imports[i].name)}
<1>1. SocketFor(e) = IF same # {} THEN Min(same) ELSE IF near # {} THEN Min(near) ELSE 0
  BY DEF SocketFor
<1>2. same \in SUBSET Nat /\ near \in SUBSET Nat
  BY Imports
<1>3. (same # {} => Min(same) \in same) /\ (near # {} => Min(near) \in near)
  BY <1>2, HasLeast
<1>4. ASSUME NEW k \in DOMAIN Root.imports, Root.imports[k].name = e.name PROVE same # {} /\ \A i \in same : i = k
  BY <1>4, Imports
<1>5. same \subseteq DOMAIN Root.imports /\ near \subseteq DOMAIN Root.imports
  OBVIOUS
<1> HIDE DEF same, near
<1> QED BY <1>1, <1>3, <1>4, <1>5

LEMMA PlainIsSupplied ==
    ASSUME job \in Jobs, NEW b \in Range(job.bindings), Plain(b)
    PROVE  \E i \in Supplied(b.provider) : Root.imports[i].name = b.import
<1>1. PICK i \in Range(Root.imports), e \in job.parts[b.provider].exports :
        i.name = b.import /\ e.name = i.name /\ e.type = i.type
  BY DEF Plain
<1>2. PICK k \in DOMAIN Root.imports : Root.imports[k] = i
  BY DEF Range
<1>3. SocketFor(e) = k /\ k # 0
  BY <1>1, <1>2, SocketIsImport, Imports
<1>4. e \in Matches(b.provider)
  BY <1>1, <1>2, <1>3 DEF Matches
<1> QED BY <1>1, <1>2, <1>3, <1>4 DEF Supplied

LEMMA PlugsCover ==
    ASSUME job \in Jobs
    PROVE  /\ Plugs \in Seq(DOMAIN job.parts)
           /\ \A b \in Range(job.bindings) : b.provider \in Range(Plugs)
<1> DEFINE C == DOMAIN job.parts
           s == [i \in 1 .. Len(job.bindings) |-> job.bindings[i].provider]
           t == [i \in 1 .. Len(job.exports) |-> job.exports[i].source]
<1>1. /\ job.bindings \in Seq(Range(job.bindings)) /\ job.exports \in Seq(Range(job.exports))
      /\ \A b \in Range(job.bindings) : b.provider \in C
      /\ \A e \in Range(job.exports) : e.source \in C
  BY JobsAssumption DEF JobsAssumption
<1>2. /\ Len(job.bindings) \in Nat /\ DOMAIN job.bindings = 1 .. Len(job.bindings)
      /\ Len(job.exports) \in Nat /\ DOMAIN job.exports = 1 .. Len(job.exports)
  BY <1>1
<1>3. s \in Seq(C) /\ Len(s) = Len(job.bindings)
  <2>1. \A i \in 1 .. Len(job.bindings) : job.bindings[i].provider \in C
    BY <1>1, <1>2 DEF Range
  <2> QED BY <1>2, <2>1
<1>4. t \in Seq(C)
  <2>1. \A i \in 1 .. Len(job.exports) : job.exports[i].source \in C
    BY <1>1, <1>2 DEF Range
  <2> QED BY <1>2, <2>1
<1>5. Plugs = s \o t
  BY DEF Plugs
<1>6. ASSUME NEW b \in Range(job.bindings) PROVE b.provider \in Range(Plugs)
  <2>1. PICK i \in 1 .. Len(job.bindings) : job.bindings[i] = b
    BY <1>2 DEF Range
  <2>2. s[i] = b.provider
    BY <2>1
  <2> HIDE DEF s, t
  <2>3. i \in DOMAIN (s \o t) /\ (s \o t)[i] = s[i]
    BY <1>2, <1>3, <1>4
  <2> QED BY <1>5, <2>2, <2>3 DEF Range
<1> HIDE DEF s, t
<1> QED BY <1>3, <1>4, <1>5, <1>6

LEMMA PlainIsRouted ==
    ASSUME job \in Jobs, NEW b \in Range(job.bindings), Plain(b)
    PROVE  \E k \in DOMAIN Root.imports :
             /\ Root.imports[k].name = b.import
             /\ RouteOf(b.import) = b.provider /\ b.provider # Undone /\ Suitable(k) # {}
<1>1. PICK i \in Range(Root.imports), e \in job.parts[b.provider].exports :
        i.name = b.import /\ e.name = i.name /\ e.type = i.type
  BY DEF Plain
<1>2. PICK k \in DOMAIN Root.imports : Root.imports[k] = i
  BY DEF Range
<1> DEFINE about == {j \in DOMAIN job.bindings : job.bindings[j].import = b.import}
<1>3. job.bindings \in Seq(Range(job.bindings)) /\ b.provider # Undone
  BY JobsAssumption DEF JobsAssumption
<1>4. Len(job.bindings) \in Nat /\ about \in SUBSET (1 .. Len(job.bindings)) /\ about # {}
  BY <1>3 DEF Range
<1>5. Max(about) \in about
  BY <1>4, HasGreatest
<1>6. job.bindings[Max(about)] = b
  BY <1>5 DEF Plain, Range
<1>7. RouteOf(b.import) = b.provider
  BY <1>4, <1>6 DEF RouteOf, Routed
<1>8. e \in Suitable(k)
  BY <1>1, <1>2, <1>7 DEF Suitable
<1> QED BY <1>1, <1>2, <1>3, <1>7, <1>8

\* Giving up the graph ends in the wrapper, or in an error.
LEMMA GivesUpKeeps ==
    ASSUME EmitInv, at # "end", GivesUp, job' = job, wires' = wires
    PROVE  EmitInv'
<1>1. \/ at' = "wrap" /\ outcome' = Undone /\ job.exports = <<>>
      \/ at' = "end" /\ outcome' = "failed"
  BY DEF GivesUp, GoesTo, EmitEnds, EmitInv, EmitTypeOK
<1>2. outcome' # "composed"
  BY <1>1, JobsAssumption DEF JobsAssumption
<1>3. EmitTypeOK'
  BY <1>1 DEF EmitInv, EmitTypeOK
<1>4. WiresInv'
  BY JobStays DEF EmitInv, WiresInv
<1> QED BY <1>1, <1>2, <1>3, <1>4 DEF EmitInv, WiredInv, OuterInv, CompositionIsRight

LEMMA LoadsPartsKeeps == ASSUME EmitInv, LoadsParts PROVE EmitInv'
<1>1. at = "load" /\ job \in Jobs /\ job' = job /\ wires' = wires /\ outcome = Undone
  BY DEF LoadsParts, EmitInv, EmitTypeOK
<1>2. WiresInv'
  BY <1>1, JobStays DEF EmitInv, WiresInv
<1>3. CASE at' = "end" /\ outcome' = "failed"
  <2>1. EmitTypeOK'
    BY <1>1, <1>3 DEF EmitTypeOK
  <2> QED BY <1>2, <1>3, <2>1 DEF EmitInv, WiredInv, OuterInv, CompositionIsRight
<1>4. CASE /\ at' = "end" /\ outcome' = "composed" /\ outer' = RootExports
           /\ job.bindings = <<>> /\ job.exports = <<>>
  <2>1. EmitTypeOK'
    BY <1>1, <1>4 DEF EmitTypeOK
  <2>2. Range(job.bindings) = {} /\ Range(job.exports) = {}
    BY <1>4 DEF Range
  <2>3. \A n \in DOMAIN RootExports : RootExports[n] = job.root
    BY DEF RootExports
  <2>4. CompositionIsRight'
    BY <1>1, <1>2, <1>4, <2>2, <2>3, JobStays DEF CompositionIsRight, WiresInv
  <2> QED BY <1>2, <1>4, <2>1, <2>4 DEF EmitInv, WiredInv, OuterInv
<1>5. CASE at' = "wire" /\ outcome' = outcome /\ todo1' = Plugs /\ made' = {job.root}
  <2>1. EmitTypeOK'
    BY <1>1, <1>5, PlugsCover DEF EmitTypeOK
  <2>2. WiredInv'
    BY <1>1, <1>5, JobStays DEF WiredInv, Wired
  <2>3. CompositionIsRight'
    BY <1>1, <1>5, JobsAssumption DEF CompositionIsRight, JobsAssumption
  <2> QED BY <1>2, <1>5, <2>1, <2>2, <2>3 DEF EmitInv, OuterInv
<1> QED BY <1>3, <1>4, <1>5 DEF LoadsParts, EmitEnds, GoesTo

LEMMA WiresPlugKeeps == ASSUME EmitInv, WiresPlug PROVE EmitInv'
<1>0. PICK p : p = Head(todo1)
  OBVIOUS
<1>1. /\ at = "wire" /\ todo1 # <<>> /\ todo1 \in Seq(DOMAIN job.parts) /\ todo1' = Tail(todo1)
      /\ job \in Jobs /\ job' = job /\ outer' = outer /\ outcome = Undone
  BY DEF WiresPlug, EmitInv, EmitTypeOK
<1>2. todo1' \in Seq(DOMAIN job.parts) /\ Range(todo1) = {p} \cup Range(todo1')
  BY <1>0, <1>1, RangeOfTail
<1>3. job.root \in made /\ \A q \in made : Wired(q)
  BY <1>1 DEF EmitInv, WiredInv
<1>4. \A q \in Range(Plugs) : q \in Range(todo1) \/ Wired(q)
  BY <1>1 DEF EmitInv, WiredInv
<1>5. CASE p \in made /\ UNCHANGED <<at, wires, made, outcome>>
  <2>1. \A q : Wired(q)' <=> Wired(q)
    BY <1>1, <1>5, JobStays DEF Wired
  <2>2. WiredInv'
    BY <1>1, <1>2, <1>3, <1>4, <1>5, <2>1, JobStays DEF WiredInv
  <2>3. EmitTypeOK' /\ WiresInv'
    BY <1>1, <1>2, <1>5, JobStays DEF EmitInv, EmitTypeOK, WiresInv
  <2> QED BY <1>1, <1>5, <2>2, <2>3, JobsAssumption
          DEF EmitInv, OuterInv, CompositionIsRight, JobsAssumption
<1>6. CASE GivesUp /\ UNCHANGED <<wires, made>>
  BY <1>1, <1>6, GivesUpKeeps
<1>7. CASE /\ p \notin made /\ ~SuppliedTwice(p)
           /\ wires' = [i \in Supplied(p) \cup DOMAIN wires |->
                         IF i \in Supplied(p)
                         THEN <<p, (CHOOSE e \in Matches(p) : SocketFor(e) = i).name>> ELSE wires[i]]
           /\ made' = IF Matches(p) = {} THEN made ELSE made \cup {p}
           /\ UNCHANGED <<at, outcome>>
  <2>1. Supplied(p) \cap DOMAIN wires = {}
    BY <1>7 DEF SuppliedTwice
  <2>2. /\ DOMAIN wires' = Supplied(p) \cup DOMAIN wires
        /\ \A i \in Supplied(p) : wires'[i] = <<p, (CHOOSE e \in Matches(p) : SocketFor(e) = i).name>>
        /\ \A i \in DOMAIN wires : wires'[i] = wires[i]
    BY <1>7, <2>1
  <2>3. \A q : Supplied(q)' = Supplied(q)
    BY <1>1, JobStays
  <2>4. Wired(p)'
    BY <2>2, <2>3 DEF Wired
  <2>5. \A q : Wired(q) => Wired(q)'
    BY <1>1, <2>2, <2>3 DEF Wired
  <2>6. WiredInv'
    <3>1. \A q \in made' : q \in made \/ q = p
      BY <1>7
    <3>2. job.root \in made'
      BY <1>3, <1>7
    <3>3. Plugs' = Plugs /\ job'.root = job.root /\ at' = "wire"
      BY <1>1, <1>7, JobStays
    <3> QED BY <1>2, <1>3, <1>4, <2>4, <2>5, <3>1, <3>2, <3>3 DEF WiredInv
  <2>7. WiresInv'
    <3> SUFFICES ASSUME NEW i \in Supplied(p) \cup DOMAIN wires
                 PROVE  i \in DOMAIN Root.imports /\ \E e \in job.parts[wires'[i][1]].exports :
                          e.name = wires'[i][2] /\ e.type = Root.imports[i].type
      BY <1>1, <2>2, JobStays DEF WiresInv
    <3>1. CASE i \in Supplied(p)
      <4> DEFINE e == CHOOSE x \in Matches(p) : SocketFor(x) = i
      <4>1. e \in Matches(p) /\ SocketFor(e) = i
        BY <3>1 DEF Supplied
      <4>2. /\ e \in job.parts[p].exports /\ i # 0 /\ Root.imports[i].type = e.type
        BY <4>1 DEF Matches
      <4>3. i \in DOMAIN Root.imports
        BY <1>1, <4>1, <4>2, SocketIsImport
      <4>4. wires'[i][1] = p /\ wires'[i][2] = e.name
        BY <2>2, <3>1
      <4> HIDE DEF e
      <4> QED BY <4>2, <4>3, <4>4
    <3>2. CASE i \in DOMAIN wires
      BY <2>2, <3>2 DEF EmitInv, WiresInv
    <3> QED BY <3>1, <3>2
  <2>8. EmitTypeOK'
    BY <1>1, <1>2, <1>7 DEF EmitInv, EmitTypeOK
  <2>9. OuterInv' /\ CompositionIsRight'
    BY <1>1, <1>7, JobsAssumption DEF OuterInv, CompositionIsRight, JobsAssumption
  <2> QED BY <2>6, <2>7, <2>8, <2>9 DEF EmitInv
<1> QED BY <1>0, <1>5, <1>6, <1>7 DEF WiresPlug

LEMMA ExportsSocketKeeps == ASSUME EmitInv, ExportsSocket PROVE EmitInv'
<1>1. /\ at = "wire" /\ todo1 = <<>> /\ todo1' = job.exports /\ outcome = Undone
      /\ job \in Jobs /\ job' = job /\ wires' = wires /\ made' = made
  BY DEF ExportsSocket, EmitInv, EmitTypeOK
<1>2. CASE GivesUp
  BY <1>1, <1>2, GivesUpKeeps
<1>3. CASE at' = "explicit" /\ outcome' = outcome /\ outer' = RootExports
  <2>1. job.exports \in Seq(Range(job.exports))
    BY <1>1, JobsAssumption DEF JobsAssumption
  <2>2. EmitTypeOK'
    BY <1>1, <1>3, <2>1 DEF EmitTypeOK
  <2>3. \A q : Wired(q)' <=> Wired(q)
    BY <1>1, JobStays DEF Wired
  <2>4. Range(todo1) = {}
    BY <1>1 DEF Range
  <2>5. WiredInv'
    BY <1>1, <1>3, <2>3, <2>4, JobStays DEF EmitInv, WiredInv
  <2>6. WiresInv'
    BY <1>1, JobStays DEF EmitInv, WiresInv
  <2>7. \A n \in DOMAIN RootExports : RootExports[n] = job.root
    BY DEF RootExports
  <2>8. OuterInv'
    BY <1>1, <1>3, <2>7, JobStays DEF OuterInv
  <2> QED BY <1>1, <1>3, <2>2, <2>5, <2>6, <2>8, JobsAssumption
          DEF EmitInv, CompositionIsRight, JobsAssumption
<1> QED BY <1>2, <1>3 DEF ExportsSocket, GoesTo

LEMMA ExportsExplicitlyKeeps == ASSUME EmitInv, ExportsExplicitly PROVE EmitInv'
<1>0. PICK e : e = Head(todo1)
  OBVIOUS
<1>1. /\ at = "explicit" /\ todo1 # <<>> /\ todo1 \in Seq(Range(job.exports)) /\ todo1' = Tail(todo1)
      /\ job \in Jobs /\ job' = job /\ wires' = wires /\ outcome = Undone
  BY DEF ExportsExplicitly, EmitInv, EmitTypeOK
<1>2. todo1' \in Seq(Range(job.exports)) /\ Range(todo1) = {e} \cup Range(todo1')
  BY <1>0, <1>1, RangeOfTail
<1>3. WiresInv'
  BY <1>1, JobStays DEF EmitInv, WiresInv
<1>4. CASE at' = "end" /\ outcome' = "failed"
  <2>1. EmitTypeOK'
    BY <1>1, <1>4 DEF EmitTypeOK
  <2> QED BY <1>3, <1>4, <2>1 DEF EmitInv, WiredInv, OuterInv, CompositionIsRight
<1>5. CASE /\ e.interface \in Names(job.parts[e.source].exports)
           /\ e.source = job.root \/ e.interface \notin DOMAIN outer
           /\ made' = made \cup {e.source}
           /\ outer' = [n \in DOMAIN outer \cup {e.interface} |->
                          IF n = e.interface THEN e.source ELSE outer[n]]
           /\ UNCHANGED <<at, outcome>>
  <2>1. EmitTypeOK'
    BY <1>1, <1>2, <1>5 DEF EmitTypeOK
  <2>2. WiredInv'
    BY <1>1, <1>5, JobStays DEF EmitInv, WiredInv, Wired
  <2>3. /\ DOMAIN outer' = DOMAIN outer \cup {e.interface} /\ outer'[e.interface] = e.source
        /\ \A n \in DOMAIN outer : n # e.interface => outer'[n] = outer[n]
    BY <1>5
  <2>4. /\ \A n \in DOMAIN RootExports : n \in DOMAIN outer /\ outer[n] = job.root
        /\ \A f \in Range(job.exports) : f \in Range(todo1) \/ Served(f)
    BY <1>1 DEF EmitInv, OuterInv
  <2>5. e.source = job.root => e.interface \in DOMAIN RootExports
    BY <1>5 DEF RootExports, Root
  \* What is there under that name is served by the same component.
  <2>6. e.interface \in DOMAIN outer => outer[e.interface] = e.source
    BY <1>5, <2>4, <2>5
  <2>7. \A n \in DOMAIN outer : n \in DOMAIN outer' /\ outer'[n] = outer[n]
    BY <2>3, <2>6
  <2>8. \A n \in DOMAIN RootExports : n \in DOMAIN outer' /\ outer'[n] = job.root
    BY <2>4, <2>7
  <2>9. ASSUME NEW f \in Range(job.exports) PROVE f \in Range(todo1') \/ Served(f)'
    <3>1. CASE f = e
      BY <1>5, <2>3, <3>1 DEF Served
    <3>2. CASE f \in Range(todo1')
      BY <3>2
    <3>3. CASE Served(f)
      BY <1>5, <2>7, <3>3 DEF Served
    <3> QED BY <1>2, <2>4, <3>1, <3>2, <3>3
  <2>10. OuterInv'
    BY <1>1, <2>8, <2>9, JobStays DEF OuterInv
  <2> QED BY <1>1, <1>3, <1>5, <2>1, <2>2, <2>10, JobsAssumption
          DEF EmitInv, CompositionIsRight, JobsAssumption
<1> QED BY <1>0, <1>4, <1>5 DEF ExportsExplicitly, EmitEnds

LEMMA EncodesKeeps == ASSUME EmitInv, Encodes PROVE EmitInv'
<1>1. /\ at = "explicit" /\ todo1 = <<>> /\ job \in Jobs
      /\ job' = job /\ todo1' = todo1 /\ wires' = wires /\ made' = made /\ outer' = outer
  BY DEF Encodes, EmitInv, EmitTypeOK
<1>2. CASE GivesUp
  BY <1>1, <1>2, GivesUpKeeps
<1>3. CASE at' = "end" /\ outcome' = "composed"
  <2>1. EmitTypeOK' /\ WiresInv'
    BY <1>1, <1>3, JobStays DEF EmitInv, EmitTypeOK, WiresInv
  <2>2. Range(todo1) = {}
    BY <1>1 DEF Range
  <2>3. ASSUME NEW b \in Range(job.bindings), Plain(b)
        PROVE  \E i \in DOMAIN wires : Root.imports[i].name = b.import /\ wires[i][1] = b.provider
    <3>1. Wired(b.provider) /\ b.provider # job.root
      BY <1>1, <2>3, PlugsCover DEF EmitInv, WiredInv, Plain
    <3>2. PICK i \in Supplied(b.provider) : Root.imports[i].name = b.import
      BY <1>1, <2>3, PlainIsSupplied
    <3> QED BY <3>1, <3>2 DEF Wired
  <2>4. /\ \A n \in DOMAIN RootExports : outer[n] = job.root
        /\ \A e \in Range(job.exports) : Served(e)
    BY <1>1, <2>2 DEF EmitInv, OuterInv
  <2>5. \A b : Plain(b)' <=> Plain(b)
    BY <1>1, JobStays DEF Plain
  <2>6. CompositionIsRight'
    BY <1>1, <2>1, <2>3, <2>4, <2>5, JobStays DEF CompositionIsRight, WiresInv, Served
  <2> QED BY <1>3, <2>1, <2>6 DEF EmitInv, WiredInv, OuterInv
<1> QED BY <1>2, <1>3 DEF Encodes, EmitEnds

LEMMA WrapsKeeps == ASSUME EmitInv, Wraps PROVE EmitInv'
<1>1. at = "wrap" /\ job \in Jobs /\ job.exports = <<>> /\ job' = job
  BY DEF Wraps, EmitInv, EmitTypeOK
<1>2. CASE at' = "end" /\ outcome' = "failed" /\ wires' = wires
  <2>1. EmitTypeOK' /\ WiresInv'
    BY <1>1, <1>2, JobStays DEF EmitInv, EmitTypeOK, WiresInv
  <2> QED BY <1>2, <2>1 DEF EmitInv, WiredInv, OuterInv, CompositionIsRight
<1> DEFINE routed(i) == RouteOf(Root.imports[i].name)
           wired == {i \in DOMAIN Root.imports : routed(i) # Undone /\ Suitable(i) # {}}
<1>3. CASE /\ at' = "end" /\ outcome' = "composed" /\ outer' = RootExports
           /\ wires' = [i \in wired |-> <<routed(i), (CHOOSE e \in Suitable(i) : TRUE).name>>]
  <2>1. EmitTypeOK'
    BY <1>1, <1>3 DEF EmitTypeOK
  <2>2. ASSUME NEW i \in wired
        PROVE  /\ i \in DOMAIN Root.imports /\ wires'[i][1] = routed(i)
               /\ \E e \in job.parts[routed(i)].exports : e.name = wires'[i][2] /\ e.type = Root.imports[i].type
    <3> DEFINE e == CHOOSE x \in Suitable(i) : TRUE
    <3>1. e \in Suitable(i)
      OBVIOUS
    <3>2. wires'[i] = <<routed(i), e.name>>
      BY <1>3
    <3>3. e \in job.parts[routed(i)].exports /\ e.type = Root.imports[i].type
      BY <3>1 DEF Suitable
    <3> HIDE DEF e, routed
    <3> QED BY <3>2, <3>3
  <2>3. DOMAIN wires' = wired
    BY <1>3
  <2>4. WiresInv'
    BY <1>1, <2>2, <2>3, JobStays DEF WiresInv
  <2>5. ASSUME NEW b \in Range(job.bindings), Plain(b)
        PROVE  \E i \in DOMAIN wires' : Root.imports[i].name = b.import /\ wires'[i][1] = b.provider
    <3>1. PICK k \in DOMAIN Root.imports :
            /\ Root.imports[k].name = b.import
            /\ RouteOf(b.import) = b.provider /\ b.provider # Undone /\ Suitable(k) # {}
      BY <1>1, <2>5, PlainIsRouted
    <3>2. k \in wired /\ routed(k) = b.provider
      BY <3>1
    <3> HIDE DEF wired, routed
    <3> QED BY <2>2, <2>3, <3>1, <3>2
  <2>6. Range(job.exports) = {} /\ \A n \in DOMAIN RootExports : RootExports[n] = job.root
    BY <1>1 DEF Range, RootExports
  <2>7. \A b : Plain(b)' <=> Plain(b)
    BY <1>1, JobStays DEF Plain
  <2>8. CompositionIsRight'
    <3>1. job' = job /\ outer' = RootExports /\ Root' = Root /\ RootExports' = RootExports
      BY <1>1, <1>3, JobStays
    <3> HIDE DEF wired, routed
    <3>2. \A b \in Range(job'.bindings) : Plain(b)' =>
            \E i \in DOMAIN wires' : Root'.imports[i].name = b.import /\ wires'[i][1] = b.provider
      BY <2>5, <2>7, <3>1
    <3>3. \A n \in DOMAIN RootExports' : outer'[n] = job'.root
      BY <2>6, <3>1
    <3>4. Range(job'.exports) = {}
      BY <2>6, <3>1
    <3> QED BY <2>4, <3>2, <3>3, <3>4 DEF CompositionIsRight, WiresInv
  <2> QED BY <1>3, <2>1, <2>4, <2>8 DEF EmitInv, WiredInv, OuterInv
<1> QED BY <1>2, <1>3 DEF Wraps, EmitEnds

LEMMA EmitNextKeeps == EmitInv /\ [EmitNext]_wiringVars => EmitInv'
<1> SUFFICES ASSUME EmitInv, [EmitNext]_wiringVars PROVE EmitInv'
  OBVIOUS
<1>1. CASE UNCHANGED wiringVars
  <2>1. /\ job' = job /\ at' = at /\ todo1' = todo1 /\ wires' = wires
        /\ made' = made /\ outer' = outer /\ outcome' = outcome
    BY <1>1 DEF wiringVars
  <2>2. EmitTypeOK' /\ WiresInv' /\ WiredInv'
    BY <2>1, JobStays DEF EmitInv, EmitTypeOK, WiresInv, WiredInv, Wired
  <2>3. OuterInv'
    BY <2>1, JobStays DEF EmitInv, OuterInv, Served
  <2>4. \A b : Plain(b)' <=> Plain(b)
    BY <2>1, JobStays DEF Plain
  <2>5. CompositionIsRight'
    BY <2>1, <2>4, JobStays DEF EmitInv, CompositionIsRight
  <2> QED BY <2>2, <2>3, <2>5 DEF EmitInv
<1>2. CASE ToolFails
  BY <1>2, GivesUpKeeps DEF ToolFails
<1> QED BY <1>1, <1>2, LoadsPartsKeeps, WiresPlugKeeps, ExportsSocketKeeps,
           ExportsExplicitlyKeeps, EncodesKeeps, WrapsKeeps DEF EmitNext

(***************************************************************************)
(* Whatever the components import and export, and in whatever order the    *)
(* plan lists its bindings: a composition gives each import that a plain   *)
(* binding is about to the provider it names, joins equal types only, and  *)
(* exports what the root and the explicit exports say                      *)
(* (compose_with_wac_graph, compose_with_wrapper).                         *)
(***************************************************************************)
THEOREM CompositionsAreRight == EmitSpec => []CompositionIsRight
<1>1. EmitInit => EmitInv
  <2> SUFFICES ASSUME EmitInit PROVE EmitInv
    OBVIOUS
  <2>1. /\ job \in Jobs /\ at = "load" /\ wires = Nothing /\ outcome = Undone
    BY DEF EmitInit
  <2>2. DOMAIN wires = {}
    BY <2>1 DEF Nothing
  <2>3. EmitTypeOK /\ WiredInv /\ WiresInv /\ OuterInv
    BY <2>1, <2>2 DEF EmitTypeOK, WiredInv, WiresInv, OuterInv
  <2> QED BY <2>1, <2>3, JobsAssumption DEF EmitInv, CompositionIsRight, JobsAssumption
<1>2. EmitInv => CompositionIsRight
  BY DEF EmitInv
<1> QED BY <1>1, <1>2, EmitNextKeeps, PTL DEF EmitSpec
=============================================================================
