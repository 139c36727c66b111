-------------------------------- MODULE NatRec --------------------------------
(***************************************************************************)
(* A function of the natural numbers that is defined by recursion obeys    *)
(* its recursion equation. The operator that makes a value from the one    *)
(* before is a parameter of this module: the modules that prove something  *)
(* about such a function of theirs INSTANCE it.                            *)
(***************************************************************************)
EXTENDS Naturals, NaturalsInduction, WellFoundedInduction, TLAPS

CONSTANTS Base, Step(_, _)

F[n \in Nat] == IF n = 0 THEN Base ELSE Step(n, F[n - 1])

\* A set of naturals with 0 and the successor of each of its elements has them all: the
\* least natural that is missing would have a predecessor, which is not missing.
THEOREM Induction ==
    ASSUME NEW S, 0 \in S, \A n \in Nat : n \in S => n + 1 \in S
    PROVE  \A n \in Nat : n \in S
<1> DEFINE less == {ss \in Nat \X Nat : ss[1] < ss[2]}
<1> DEFINE Missing == Nat \ S
<1>1. IsWellFoundedOn(less, Nat)
  BY NatLessThanWellFounded DEF OpToRel
<1> HIDE DEF less
<1> SUFFICES ASSUME Missing # {} PROVE FALSE
  OBVIOUS
<1>2. PICK x \in Missing : \A y \in Missing : ~(<<y, x>> \in less)
  BY <1>1, WFMin
<1>3. x \in Nat \ {0} /\ x \notin S
  OBVIOUS
<1>4. x - 1 \in Nat /\ (x - 1) + 1 = x /\ x - 1 < x
  BY <1>3
<1>5. x - 1 \in Missing
  BY <1>3, <1>4
<1>6. <<x - 1, x>> \in less
  BY <1>3, <1>4 DEF less
<1> QED BY <1>2, <1>5, <1>6

\* The beginnings of the function: to begin with, they exist and agree.
Begins(f, n) ==
    /\ f = [i \in 0 .. n |-> f[i]]
    /\ f[0] = Base
    /\ \A i \in 0 .. n : i + 1 \in 0 .. n => f[i + 1] = Step(i + 1, f[i])

LEMMA Beginnings == \A n \in Nat : \E f : Begins(f, n)
<1> DEFINE S == {n \in Nat : \E f : Begins(f, n)}
<1>1. 0 \in S
  <2> DEFINE f == [i \in 0 .. 0 |-> Base]
  <2>1. 0 .. 0 = {0}
    OBVIOUS
  <2>2. Begins(f, 0)
    BY <2>1 DEF Begins
  <2> QED BY <2>2
<1>2. ASSUME NEW n \in Nat, n \in S PROVE n + 1 \in S
  <2>1. PICK f : Begins(f, n)
    BY <1>2
  <2> DEFINE g == [i \in 0 .. n + 1 |-> IF i = n + 1 THEN Step(n + 1, f[n]) ELSE f[i]]
  <2>2. g = [i \in 0 .. n + 1 |-> g[i]]
    OBVIOUS
  <2>3. g[0] = Base
    BY <2>1 DEF Begins
  <2>4. ASSUME NEW i \in 0 .. n + 1, i + 1 \in 0 .. n + 1 PROVE g[i + 1] = Step(i + 1, g[i])
    <3>1. i \in 0 .. n /\ i # n + 1 /\ g[i] = f[i]
      BY <2>4
    <3>2. CASE i = n
      BY <3>1, <3>2
    <3>3. CASE i # n
      <4>1. i + 1 \in 0 .. n /\ i + 1 # n + 1
        BY <3>1, <3>3
      <4>2. f[i + 1] = Step(i + 1, f[i])
        BY <2>1, <3>1, <4>1 DEF Begins
      <4>3. g[i + 1] = f[i + 1]
        BY <4>1
      <4> QED BY <3>1, <4>2, <4>3
    <3> QED BY <3>2, <3>3
  <2>5. Begins(g, n + 1)
    BY <2>2, <2>3, <2>4 DEF Begins
  <2> QED BY <2>5
<1> HIDE DEF S
<1>3. \A n \in Nat : n \in S
  BY <1>1, <1>2, Induction
<1> QED BY <1>3 DEF S

LEMMA BeginningsAgree ==
    ASSUME NEW n \in Nat, NEW m \in Nat, NEW f, NEW g, Begins(f, n), Begins(g, m)
    PROVE  \A i \in Nat : i <= n /\ i <= m => f[i] = g[i]
<1> DEFINE S == {i \in Nat : i <= n /\ i <= m => f[i] = g[i]}
<1>1. 0 \in S
  BY DEF Begins
<1>2. ASSUME NEW i \in Nat, i \in S PROVE i + 1 \in S
  <2>1. SUFFICES ASSUME i + 1 <= n, i + 1 <= m PROVE f[i + 1] = g[i + 1]
    OBVIOUS
  <2>2. i \in 0 .. n /\ i + 1 \in 0 .. n /\ i \in 0 .. m /\ i + 1 \in 0 .. m /\ i <= n /\ i <= m
    BY <2>1
  <2>3. f[i] = g[i]
    BY <1>2, <2>2
  <2> QED BY <2>2, <2>3 DEF Begins
<1> HIDE DEF S
<1>3. \A i \in Nat : i \in S
  BY <1>1, <1>2, Induction
<1> QED BY <1>3 DEF S

\* A function defined by recursion has the value of the base at 0 and that of the step after
\* each number: what the code computes for a level, from the level below.
THEOREM Equation ==
    F[0] = Base /\ \A n \in Nat : F[n + 1] = Step(n + 1, F[n])
<1> DEFINE part(n) == CHOOSE f : Begins(f, n)
<1> DEFINE G == [n \in Nat |-> part(n)[n]]
<1>1. \A n \in Nat : Begins(part(n), n)
  BY Beginnings
<1>2. G[0] = Base
  BY <1>1 DEF Begins
<1>3. ASSUME NEW n \in Nat PROVE G[n + 1] = Step(n + 1, G[n])
  <2>1. Begins(part(n), n) /\ Begins(part(n + 1), n + 1)
    BY <1>1
  <2>2. part(n)[n] = part(n + 1)[n]
    BY <2>1, BeginningsAgree
  <2>3. part(n + 1)[n + 1] = Step(n + 1, part(n + 1)[n])
    BY <2>1 DEF Begins
  <2> QED BY <2>2, <2>3
<1>4. G = [n \in Nat |-> IF n = 0 THEN Base ELSE Step(n, G[n - 1])]
  <2>1. ASSUME NEW n \in Nat PROVE G[n] = IF n = 0 THEN Base ELSE Step(n, G[n - 1])
    <3>1. CASE n = 0
      BY <1>2, <3>1
    <3>2. CASE n # 0
      <4>1. n - 1 \in Nat /\ (n - 1) + 1 = n
        BY <3>2
      <4>2. G[(n - 1) + 1] = Step((n - 1) + 1, G[n - 1])
        BY <1>3, <4>1
      <4> QED BY <3>2, <4>1, <4>2
    <3> QED BY <3>1, <3>2
  <2>2. G = [n \in Nat |-> G[n]]
    OBVIOUS
  <2> HIDE DEF G
  <2> QED BY <2>1, <2>2
<1> HIDE DEF G
<1>5. F = [n \in Nat |-> IF n = 0 THEN Base ELSE Step(n, F[n - 1])]
  BY <1>4 DEF F
<1>6. F[0] = Base
  BY <1>5
<1>7. ASSUME NEW n \in Nat PROVE F[n + 1] = Step(n + 1, F[n])
  <2>1. n + 1 \in Nat /\ n + 1 # 0 /\ (n + 1) - 1 = n
    OBVIOUS
  <2> QED BY <1>5, <2>1
<1> QED BY <1>6, <1>7
=============================================================================
