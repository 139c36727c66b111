----------------------------- MODULE GuestProofs ------------------------------
(***************************************************************************)
(* Proofs about how guests are run: the limits of the sandbox, for any     *)
(* instances, limits and lengths of a tick; the values that calls take and *)
(* return, for any types; and the exec pipeline, for any workers, plans,   *)
(* hosts and policies.                                                     *)
(***************************************************************************)
EXTENDS Sandbox, CborValues, ExecPipeline, TLAPS

-----------------------------------------------------------------------------
(* The sandbox: the arithmetic of ticks and fuel does not run out of its width *)
(* before time does.                                                           *)

Tickers == {"none", "runs", "missing"}
TickersTime == Tick + Late

\* The epoch in which the instance was made.
Since(i) == i.deadline - DeltaOf(i.timeout)

(***************************************************************************)
(* What is left and what was spent make the budget. With e - Since(i)      *)
(* ticks counted, the time is known up to a tick and the lateness of each. *)
(***************************************************************************)
Budgeted(i) == i.fuel + i.spent = FuelOf(i.cpu)
Born(i, n, e) == i.born <= n /\ Since(i) \in 0 .. e
NoSlower(i, n, e, s) == n - i.born <= (e - Since(i)) * TickersTime + s
NoFaster(i, n, e, s) == e # Since(i) => (e - Since(i) - 1) * Tick + s <= n - i.born

LiveInv == \A h \in Live :
    /\ Budgeted(inst[h])
    /\ Born(inst[h], now, epoch)
    /\ ticker = "runs" => NoSlower(inst[h], now, epoch, slept)
    /\ NoFaster(inst[h], now, epoch, slept)

\* Each tick takes some time, so the epoch is far from its width.
EpochInv == epoch + slept <= now
TickerInv == ticker = "none" => Live = {}

SandboxInv == SandboxTypeOK /\ EpochInv /\ TickerInv /\ LiveInv

----------------------------------------------------------------------------

LEMMA DivBounds ==
    ASSUME NEW a \in Nat, NEW b \in Nat, b > 0
    PROVE  /\ a \div b \in Nat
           /\ (a \div b) * b <= a
           /\ a < (a \div b) * b + b
BY Z3

LEMMA MulGrows ==
    ASSUME NEW a \in Int, NEW b \in Int, a <= b, NEW c \in Nat
    PROVE  a * c <= b * c
BY Z3

LEMMA MulNext ==
    ASSUME NEW a \in Int, NEW c \in Nat
    PROVE  /\ (a + 1) * c = a * c + c
           /\ a * c \in Int
BY Z3

LEMMA SumGrows ==
    ASSUME NEW a \in Int, NEW b \in Int, NEW c \in Int, NEW d \in Int, a + b <= c, d <= b + 1
    PROVE  a + d <= c + 1
OBVIOUS

LEMMA Widths ==
    /\ W \in Nat /\ Tick \in Nat /\ Late \in Nat /\ FuelPerMs \in Nat
    /\ Tick >= 2 /\ 4 * Tick <= W /\ W >= 8
    /\ MaxTime \in Nat /\ MaxSpent \in Nat /\ MaxSpent < W - 1
    /\ 2 * MaxTime < W /\ MaxTime < W \div 2 /\ W \div 2 \in Nat /\ 2 * (W \div 2) <= W
    /\ TickersTime \in Nat /\ TickersTime >= Tick
BY SandboxAssumption, Z3 DEF TickersTime

LEMMA FuelOfType ==
    ASSUME NEW c \in CpuLimits
    PROVE  /\ FuelOf(c) \in 0 .. W - 1
           /\ c # Unset => FuelOf(c) = Least(c * FuelPerMs, W - 1)
<1>1. CASE c = Unset
  BY <1>1, Widths DEF FuelOf
<1>2. CASE c # Unset
  <2>1. c \in 0 .. W - 1
    BY <1>2, SandboxAssumption
  <2>2. c * FuelPerMs \in Nat
    BY <2>1, Widths, Z3
  <2>3. Least(c * FuelPerMs, W - 1) \in 0 .. W - 1
    BY <2>2, Widths DEF Least
  <2> QED BY <1>2, <2>3 DEF FuelOf, Fuel
<1> QED BY <1>1, <1>2

(***************************************************************************)
(* A number of ticks is at least one, less than half the width, and, up to *)
(* one tick, it is not shorter than the timeout, unless that is so long    *)
(* that the time ends first.                                               *)
(***************************************************************************)
LEMMA EpochTicksBounds ==
    ASSUME NEW x \in 0 .. W - 1
    PROVE  /\ EpochTicks(x) \in Nat /\ EpochTicks(x) >= 1 /\ 2 * EpochTicks(x) <= W
           /\ \/ x <= EpochTicks(x) * Tick
              \/ MaxTime < (EpochTicks(x) - 1) * Tick
<1> DEFINE a == Least(x + (Tick - 1), W - 1)
           q == a \div Tick
           e == EpochTicks(x)
<1>1. a \in Nat /\ a <= W - 1 /\ (a = x + (Tick - 1) \/ a = W - 1)
  BY Widths DEF Least
<1>2. q \in Nat /\ q * Tick <= a /\ a < q * Tick + Tick
  BY <1>1, Widths, DivBounds
<1>3. e = IF q = 0 THEN 1 ELSE q
  BY DEF EpochTicks
<1> HIDE DEF a, q, e
<1>4. e \in Nat /\ e >= 1
  BY <1>2, <1>3
<1>5. 2 * e <= W
  <2>1. CASE q = 0
    BY <2>1, <1>3, Widths
  <2>2. CASE q # 0
    <3>1. q * 2 <= q * Tick
      BY <1>2, Widths, Z3
    <3>2. q * Tick \in Int
      BY <1>2, Widths
    <3> QED BY <2>2, <1>1, <1>2, <1>3, <3>1, <3>2, Widths
  <2> QED BY <2>1, <2>2
<1>6. x <= e * Tick \/ MaxTime < (e - 1) * Tick
  <2>1. q * Tick \in Int
    BY <1>2, Widths
  <2>2. CASE q = 0
    <3>1. a < Tick
      BY <2>2, <1>2, Widths, MulNext
    <3>2. a = x + (Tick - 1)
      BY <3>1, <1>1, Widths
    <3>3. x = 0
      BY <3>1, <3>2, Widths
    <3>4. e * Tick = Tick
      BY <2>2, <1>3, Widths
    <3> QED BY <3>3, <3>4, Widths
  <2>3. CASE q # 0 /\ a = x + (Tick - 1)
    BY <2>1, <2>3, <1>2, <1>3, Widths
  <2>4. CASE q # 0 /\ a = W - 1
    <3>1. (e - 1) * Tick = q * Tick - Tick
      BY <2>4, <1>2, <1>3, Widths, Z3
    <3>2. q * Tick >= W - Tick
      BY <2>1, <2>4, <1>2, Widths
    <3> QED BY <2>1, <3>1, <3>2, Widths
  <2> QED BY <2>2, <2>3, <2>4, <1>1
<1> QED BY <1>4, <1>5, <1>6 DEF e

LEMMA DeltaBounds ==
    ASSUME NEW x \in Timeouts
    PROVE  /\ DeltaOf(x) \in Nat /\ 2 * DeltaOf(x) <= W
           /\ x = Unset => DeltaOf(x) > MaxTime
           /\ x # Unset => x \in 0 .. W - 1 /\ DeltaOf(x) = EpochTicks(x)
<1>1. CASE x = Unset
  BY <1>1, Widths DEF DeltaOf
<1>2. CASE x # Unset
  <2>1. x \in 0 .. W - 1
    BY <1>2, SandboxAssumption
  <2> QED BY <1>2, <2>1, EpochTicksBounds DEF DeltaOf
<1> QED BY <1>1, <1>2

----------------------------------------------------------------------------

LEMMA InitSandboxInv == SandboxInit => SandboxInv
<1> SUFFICES ASSUME SandboxInit PROVE SandboxInv
  OBVIOUS
<1>1. SandboxTypeOK
  BY Widths DEF SandboxInit, SandboxTypeOK, Answers
<1>2. Live = {}
  BY DEF SandboxInit, Live
<1>3. EpochInv /\ TickerInv /\ LiveInv
  BY <1>2 DEF SandboxInit, EpochInv, TickerInv, LiveInv
<1> QED BY <1>1, <1>3 DEF SandboxInv

LEMMA LiveAreInstances ==
    ASSUME SandboxTypeOK, NEW h \in Live
    PROVE  h \in Handles /\ inst[h] \in Instances
BY DEF SandboxTypeOK, Live

LEMMA InstanceTypes ==
    ASSUME NEW i \in Instances
    PROVE  /\ i.timeout \in Timeouts /\ i.cpu \in CpuLimits
           /\ i.fuel \in 0 .. W - 1 /\ i.deadline \in 0 .. W - 1
           /\ i.born \in 0 .. MaxTime /\ i.spent \in 0 .. MaxSpent
           /\ Since(i) \in Int /\ FuelOf(i.cpu) \in 0 .. W - 1
<1>1. /\ i.timeout \in Timeouts /\ i.cpu \in CpuLimits
      /\ i.fuel \in 0 .. W - 1 /\ i.deadline \in 0 .. W - 1
      /\ i.born \in 0 .. MaxTime /\ i.spent \in 0 .. MaxSpent
  BY DEF Instances
<1>2. DeltaOf(i.timeout) \in Nat
  BY <1>1, DeltaBounds
<1> QED BY <1>1, <1>2, Widths, FuelOfType DEF Since

(***************************************************************************)
(* Time passes: the thread has slept longer, or there is none.             *)
(***************************************************************************)
LEMMA PassPreserves == SandboxInv /\ Pass => SandboxInv'
<1> SUFFICES ASSUME SandboxInv, Pass PROVE SandboxInv'
  OBVIOUS
<1>1. /\ SandboxTypeOK /\ EpochInv /\ TickerInv /\ LiveInv
      /\ now \in 0 .. MaxTime /\ slept \in 0 .. Tick + Late /\ epoch \in 0 .. W - 1
  BY DEF SandboxInv, SandboxTypeOK
<1>2. now' = now + 1 /\ slept' \in 0 .. slept + 1 /\ UNCHANGED <<epoch, ticker, inst, answer>>
  BY <1>1 DEF Pass
<1>3. ticker = "runs" => slept' = slept + 1
  BY DEF Pass
<1>4. now' \in 0 .. MaxTime /\ slept' \in 0 .. Tick + Late
  BY <1>1, Widths DEF Pass
<1>5. SandboxTypeOK'
  BY <1>1, <1>2, <1>4 DEF SandboxTypeOK
<1>6. EpochInv'
  <2>0. slept \in Int /\ epoch \in Int /\ now \in Int
    BY <1>1, Widths
  <2>2. slept' \in Int /\ slept' <= slept + 1
    BY <1>2, <2>0
  <2>3. epoch + slept <= now
    BY <1>1 DEF EpochInv
  <2>1. epoch + slept' <= now + 1
    BY <2>0, <2>2, <2>3, SumGrows
  <2> QED BY <1>2, <2>1 DEF EpochInv
<1>9. TickerInv'
  BY <1>1, <1>2 DEF TickerInv, Live
<1>7. ASSUME NEW h \in Live'
      PROVE  (/\ Budgeted(inst[h])
              /\ Born(inst[h], now, epoch)
              /\ ticker = "runs" => NoSlower(inst[h], now, epoch, slept)
              /\ NoFaster(inst[h], now, epoch, slept))'
  <2> DEFINE i == inst[h]
  <2>1. h \in Live /\ inst'[h] = i
    BY <1>2 DEF Live
  <2>2. i \in Instances
    BY <1>1, <2>1, LiveAreInstances
  <2>3. Since(i) \in Int /\ i.born \in Int
    BY <2>2, InstanceTypes
  <2>4. /\ (epoch - Since(i)) * TickersTime \in Int
        /\ (epoch - Since(i) - 1) * Tick \in Int
    BY <1>1, <2>3, Widths, MulNext
  <2>5. /\ Budgeted(i) /\ Born(i, now, epoch)
        /\ ticker = "runs" => NoSlower(i, now, epoch, slept)
        /\ NoFaster(i, now, epoch, slept)
    BY <1>1, <2>1 DEF LiveInv
  <2> HIDE DEF i
  <2>6. Budgeted(i) /\ Born(i, now', epoch)
    BY <1>1, <1>2, <2>3, <2>5 DEF Born
  <2>7. ticker = "runs" => NoSlower(i, now', epoch, slept')
    BY <1>1, <1>2, <1>3, <2>3, <2>4, <2>5 DEF NoSlower
  <2>8. NoFaster(i, now', epoch, slept')
    BY <1>1, <1>2, <2>3, <2>4, <2>5 DEF NoFaster
  <2> QED BY <1>2, <2>1, <2>6, <2>7, <2>8
<1>8. LiveInv'
  BY <1>7 DEF LiveInv
<1> QED BY <1>5, <1>6, <1>8, <1>9 DEF SandboxInv

(***************************************************************************)
(* A tick: the thread slept for a Tick at least, TickersTime at most.      *)
(***************************************************************************)
LEMMA WakePreserves == SandboxInv /\ TickerWakes => SandboxInv'
<1> SUFFICES ASSUME SandboxInv, TickerWakes PROVE SandboxInv'
  OBVIOUS
<1>1. /\ SandboxTypeOK /\ EpochInv /\ TickerInv /\ LiveInv
      /\ now \in 0 .. MaxTime /\ slept \in 0 .. Tick + Late /\ epoch \in 0 .. W - 1
      /\ slept >= Tick /\ ticker = "runs"
  BY DEF SandboxInv, SandboxTypeOK, TickerWakes
<1>2. epoch + 1 \in 0 .. W - 1 /\ epoch + 1 <= now
  BY <1>1, Widths DEF EpochInv
<1>3. (epoch + 1) % W = epoch + 1
  BY <1>2, Widths, Z3
<1>4. epoch' = epoch + 1 /\ slept' = 0 /\ UNCHANGED <<now, ticker, inst, answer>>
  BY <1>3 DEF TickerWakes
<1>5. SandboxTypeOK'
  BY <1>1, <1>2, <1>4, Widths DEF SandboxTypeOK
<1>6. EpochInv' /\ TickerInv'
  BY <1>1, <1>2, <1>4 DEF EpochInv, TickerInv, Live
<1>7. ASSUME NEW h \in Live'
      PROVE  (/\ Budgeted(inst[h])
              /\ Born(inst[h], now, epoch)
              /\ ticker = "runs" => NoSlower(inst[h], now, epoch, slept)
              /\ NoFaster(inst[h], now, epoch, slept))'
  <2> DEFINE i == inst[h]
             k == epoch - Since(i)
  <2>1. h \in Live /\ inst'[h] = i
    BY <1>4 DEF Live
  <2>2. i \in Instances
    BY <1>1, <2>1, LiveAreInstances
  <2>3. Since(i) \in Int /\ i.born \in Int
    BY <2>2, InstanceTypes
  <2>4. /\ Budgeted(i) /\ Born(i, now, epoch)
        /\ NoSlower(i, now, epoch, slept)
        /\ NoFaster(i, now, epoch, slept)
    BY <1>1, <2>1 DEF LiveInv
  <2>5. k \in Nat /\ epoch + 1 - Since(i) = k + 1 /\ epoch + 1 - Since(i) - 1 = k
    BY <1>1, <2>3, <2>4 DEF Born
  <2>6. /\ (k + 1) * TickersTime = k * TickersTime + TickersTime
        /\ k * TickersTime \in Int /\ k * Tick \in Int /\ (k - 1) * Tick \in Int
        /\ k * Tick = (k - 1) * Tick + Tick
    <3>1. k - 1 \in Int /\ k - 1 + 1 = k
      BY <2>5
    <3> HIDE DEF k
    <3>2. (k - 1 + 1) * Tick = (k - 1) * Tick + Tick /\ (k - 1) * Tick \in Int
      BY <3>1, Widths, MulNext
    <3> QED BY <2>5, <3>1, <3>2, Widths, MulNext
  <2>7. Budgeted(i) /\ Born(i, now, epoch + 1)
    BY <1>1, <2>3, <2>4 DEF Born
  <2>8. NoSlower(i, now, epoch + 1, 0)
    <3>1. now - i.born <= k * TickersTime + slept /\ slept <= TickersTime
      BY <1>1, <2>4 DEF NoSlower, TickersTime
    <3>2. now - i.born <= (k + 1) * TickersTime + 0
      BY <1>1, <2>3, <2>6, <3>1, Widths
    <3>3. (epoch + 1 - Since(i)) * TickersTime = (k + 1) * TickersTime
      BY <2>5
    <3>4. now - i.born <= (epoch + 1 - Since(i)) * TickersTime + 0
      BY <3>2, <3>3
    <3> HIDE DEF k, i
    <3> QED BY <1>1, <2>3, <3>4, Widths DEF NoSlower
  <2>9. NoFaster(i, now, epoch + 1, 0)
    <3>1. CASE k = 0
      <4>1. k * Tick = 0
        BY <3>1, Widths
      <4>2. k * Tick + 0 <= now - i.born
        BY <1>1, <2>3, <2>4, <4>1 DEF Born
      <4>3. (epoch + 1 - Since(i) - 1) * Tick = k * Tick
        BY <2>5
      <4>4. (epoch + 1 - Since(i) - 1) * Tick + 0 <= now - i.born
        BY <4>2, <4>3
      <4> HIDE DEF k, i
      <4> QED BY <1>1, <2>3, <4>4, Widths DEF NoFaster
    <3>2. CASE k # 0
      <4>1. (k - 1) * Tick + slept <= now - i.born
        BY <1>1, <2>3, <2>4, <3>2 DEF NoFaster
      <4>2. k * Tick + 0 <= now - i.born
        BY <1>1, <2>3, <2>6, <4>1, Widths
      <4>3. (epoch + 1 - Since(i) - 1) * Tick = k * Tick
        BY <2>5
      <4>4. (epoch + 1 - Since(i) - 1) * Tick + 0 <= now - i.born
        BY <4>2, <4>3
      <4> HIDE DEF k, i
      <4> QED BY <1>1, <2>3, <4>4, Widths DEF NoFaster
    <3> QED BY <3>1, <3>2
  <2> HIDE DEF i, k
  <2> QED BY <1>4, <2>1, <2>7, <2>8, <2>9
<1>8. LiveInv'
  BY <1>7 DEF LiveInv
<1> QED BY <1>5, <1>6, <1>8 DEF SandboxInv

----------------------------------------------------------------------------

(***************************************************************************)
(* An instance is made with the epoch of the moment; if it is the first    *)
(* use of the engine there is no other.                                    *)
(***************************************************************************)
LEMMA NewInstanceType ==
    ASSUME SandboxInv, NEW kind \in {"invoker", "cli"}, NEW x \in Timeouts, NEW c \in CpuLimits
    PROVE  /\ NewInstance(kind, x, c) \in Instances
           /\ Budgeted(NewInstance(kind, x, c))
           /\ Since(NewInstance(kind, x, c)) = epoch /\ NewInstance(kind, x, c).born = now
<1> DEFINE i == NewInstance(kind, x, c)
<1>1. now \in 0 .. MaxTime /\ epoch \in 0 .. W - 1 /\ slept \in 0 .. Tick + Late
  BY DEF SandboxInv, SandboxTypeOK
<1>2. epoch \in 0 .. MaxTime
  <2>1. epoch + slept <= now
    BY DEF SandboxInv, EpochInv
  <2> QED BY <1>1, <2>1, Widths
<1>3. DeltaOf(x) \in Nat /\ 2 * DeltaOf(x) <= W
  BY DeltaBounds
<1>4. epoch + DeltaOf(x) \in 0 .. W - 1
  BY <1>2, <1>3, Widths
<1>5. (epoch + DeltaOf(x)) % W = epoch + DeltaOf(x)
  BY <1>4, Widths, Z3
<1>6. /\ i.kind = kind /\ i.stage = "start" /\ i.timeout = x /\ i.cpu = c /\ i.born = now
      /\ i.fuel = FuelOf(c) /\ i.spent = 0 /\ i.deadline = epoch + DeltaOf(x)
  BY <1>5 DEF NewInstance
<1>7. FuelOf(c) \in 0 .. W - 1
  BY FuelOfType
<1>8. i \in Instances
  BY <1>1, <1>4, <1>5, <1>7, Widths DEF Instances, InstanceStages, NewInstance
<1> HIDE DEF i
<1>9. Budgeted(i)
  BY <1>6, <1>7, Widths DEF Budgeted
<1>10. Since(i) = epoch
  BY <1>2, <1>3, <1>6, Widths DEF Since
<1> QED BY <1>6, <1>8, <1>9, <1>10 DEF i

LEMMA InstantiatePreserves ==
    ASSUME SandboxInv, NEW h \in Handles, NEW kind \in {"invoker", "cli"}, NEW x \in Timeouts,
           NEW c \in CpuLimits, Instantiate(h, kind, x, c)
    PROVE  SandboxInv'
<1> DEFINE i == NewInstance(kind, x, c)
<1>1. /\ SandboxTypeOK /\ EpochInv /\ TickerInv /\ LiveInv
      /\ now \in 0 .. MaxTime /\ slept \in 0 .. Tick + Late /\ epoch \in 0 .. W - 1
      /\ inst \in [Handles -> Instances \cup {Unset}] /\ answer \in [Handles -> Answers]
      /\ ticker \in Tickers
  BY DEF SandboxInv, SandboxTypeOK, Tickers
<1>2. /\ UNCHANGED <<now, epoch, slept>> /\ inst[h] = Unset
      /\ ticker' = ticker \/ ticker = "none"
      /\ ticker' \in {"runs", "missing"} \/ (ticker' = ticker /\ ticker # "none")
  BY DEF Instantiate, SandboxEngine
<1>3. i \in Instances /\ Budgeted(i) /\ Since(i) = epoch /\ i.born = now
  BY NewInstanceType
<1> HIDE DEF i
<1>4. \/ inst' = [inst EXCEPT ![h] = i] /\ answer' = [answer EXCEPT ![h] = "none"]
      \/ UNCHANGED inst /\ answer' = [answer EXCEPT ![h] = "invalid_component"]
  BY DEF Instantiate, i
<1>5. inst' \in [Handles -> Instances \cup {Unset}]
  BY <1>1, <1>3, <1>4
<1>6. answer' \in [Handles -> Answers]
  BY <1>1, <1>4 DEF Answers
<1>7. SandboxTypeOK'
  BY <1>1, <1>2, <1>5, <1>6 DEF SandboxTypeOK, Tickers
<1>8. EpochInv' /\ TickerInv'
  BY <1>1, <1>2 DEF EpochInv, TickerInv
<1>9. ASSUME NEW g \in Live'
      PROVE  (/\ Budgeted(inst[g])
              /\ Born(inst[g], now, epoch)
              /\ ticker = "runs" => NoSlower(inst[g], now, epoch, slept)
              /\ NoFaster(inst[g], now, epoch, slept))'
  <2>1. CASE inst'[g] = i
    <3>1. Born(i, now, epoch)
      BY <1>1, <1>3, Widths DEF Born
    <3>2. NoSlower(i, now, epoch, slept)
      <4>1. now - now = 0 /\ epoch - epoch = 0 /\ 0 * TickersTime = 0 /\ 0 <= 0 + slept
        BY <1>1, Widths
      <4>2. now - now <= (epoch - epoch) * TickersTime + slept
        BY <4>1
      <4> QED BY <1>3, <4>2 DEF NoSlower
    <3>3. NoFaster(i, now, epoch, slept)
      BY <1>3 DEF NoFaster
    <3> QED BY <1>2, <1>3, <2>1, <3>1, <3>2, <3>3
  <2>2. CASE inst'[g] # i
    <3>1. g \in Live /\ inst'[g] = inst[g]
      BY <1>1, <1>3, <1>4, <2>2 DEF Live
    <3>2. ticker' = ticker
      BY <1>1, <1>2, <3>1 DEF TickerInv
    <3>3. /\ Budgeted(inst[g]) /\ Born(inst[g], now, epoch)
          /\ ticker = "runs" => NoSlower(inst[g], now, epoch, slept)
          /\ NoFaster(inst[g], now, epoch, slept)
      BY <1>1, <3>1 DEF LiveInv
    <3> HIDE DEF SandboxInv
    <3> QED BY <1>2, <3>1, <3>2, <3>3
  <2> QED BY <2>1, <2>2
<1>10. LiveInv'
  BY <1>9 DEF LiveInv
<1> QED BY <1>7, <1>8, <1>10 DEF SandboxInv

(***************************************************************************)
(* The other steps of an instance leave its limits and its birth alone.    *)
(***************************************************************************)
Same(i, j) ==
    /\ i.timeout = j.timeout /\ i.cpu = j.cpu /\ i.deadline = j.deadline /\ i.born = j.born

LEMMA KeptPreserves ==
    ASSUME SandboxInv, UNCHANGED <<now, epoch, slept, ticker>>,
           inst' \in [Handles -> Instances \cup {Unset}], answer' \in [Handles -> Answers],
           \A g \in Handles : inst'[g] # Unset =>
                /\ inst[g] # Unset /\ Same(inst'[g], inst[g]) /\ Budgeted(inst'[g])
    PROVE  SandboxInv'
<1>1. /\ SandboxTypeOK /\ EpochInv /\ TickerInv /\ LiveInv
  BY DEF SandboxInv
<1>2. SandboxTypeOK'
  BY <1>1 DEF SandboxTypeOK
<1>3. \A g \in Live' : g \in Live
  BY DEF Live
<1>4. EpochInv' /\ TickerInv'
  BY <1>1, <1>3 DEF EpochInv, TickerInv
<1>5. ASSUME NEW g \in Live'
      PROVE  (/\ Budgeted(inst[g])
              /\ Born(inst[g], now, epoch)
              /\ ticker = "runs" => NoSlower(inst[g], now, epoch, slept)
              /\ NoFaster(inst[g], now, epoch, slept))'
  <2>1. g \in Live /\ Same(inst'[g], inst[g]) /\ Budgeted(inst'[g])
    BY DEF Live
  <2>2. /\ Born(inst[g], now, epoch)
        /\ ticker = "runs" => NoSlower(inst[g], now, epoch, slept)
        /\ NoFaster(inst[g], now, epoch, slept)
    BY <1>1, <2>1 DEF LiveInv
  <2>3. Since(inst'[g]) = Since(inst[g]) /\ inst'[g].born = inst[g].born
    BY <2>1 DEF Since, Same
  <2>4. /\ Born(inst'[g], now, epoch)
        /\ ticker = "runs" => NoSlower(inst'[g], now, epoch, slept)
        /\ NoFaster(inst'[g], now, epoch, slept)
    BY <2>2, <2>3, Zenon DEF Born, NoSlower, NoFaster
  <2> QED BY <2>1, <2>4
<1>6. LiveInv'
  BY <1>5 DEF LiveInv
<1> QED BY <1>2, <1>4, <1>6 DEF SandboxInv

LEMMA ReplacedPreserves ==
    ASSUME SandboxInv, UNCHANGED <<now, epoch, slept, ticker>>, answer' \in [Handles -> Answers],
           NEW h \in Live, NEW i \in Instances, Same(i, inst[h]), Budgeted(i),
           inst' = [inst EXCEPT ![h] = i]
    PROVE  SandboxInv'
<1>1. h \in Handles /\ inst \in [Handles -> Instances \cup {Unset}] /\ inst[h] # Unset
  BY DEF SandboxInv, SandboxTypeOK, Live
<1>2. inst' \in [Handles -> Instances \cup {Unset}]
  BY <1>1
<1>3. ASSUME NEW g \in Handles, inst'[g] # Unset
      PROVE  inst[g] # Unset /\ Same(inst'[g], inst[g]) /\ Budgeted(inst'[g])
  <2>1. CASE g = h
    BY <1>1, <2>1
  <2>2. CASE g # h
    <3>1. inst'[g] = inst[g]
      BY <1>1, <2>2
    <3>2. Budgeted(inst[g])
      BY <1>3, <3>1 DEF SandboxInv, LiveInv, Live
    <3> QED BY <1>3, <3>1, <3>2 DEF Same
  <2> QED BY <2>1, <2>2
<1> QED BY <1>2, <1>3, KeptPreserves

LEMMA MovesPreserves ==
    ASSUME SandboxInv, UNCHANGED <<now, epoch, slept, ticker>>, answer' \in [Handles -> Answers],
           NEW h \in Live, NEW stage \in InstanceStages, Moves(h, stage)
    PROVE  SandboxInv'
<1> DEFINE i == [inst[h] EXCEPT !.stage = stage]
<1>1. h \in Handles /\ inst \in [Handles -> Instances \cup {Unset}] /\ inst[h] \in Instances
  BY LiveAreInstances DEF SandboxInv, SandboxTypeOK
<1>2. i \in Instances /\ Same(i, inst[h]) /\ i.fuel = inst[h].fuel /\ i.spent = inst[h].spent
  BY <1>1 DEF Instances, Same
<1>3. inst' = [inst EXCEPT ![h] = i]
  BY <1>1 DEF Moves
<1> HIDE DEF i
<1>4. Budgeted(inst[h])
  BY DEF SandboxInv, LiveInv
<1>5. Budgeted(i)
  BY <1>2, <1>4 DEF Budgeted, Same
<1> QED BY <1>2, <1>3, <1>5, ReplacedPreserves

LEMMA RemovedPreserves ==
    ASSUME SandboxInv, UNCHANGED <<now, epoch, slept, ticker>>, answer' \in [Handles -> Answers],
           NEW h \in Live, Removed(h)
    PROVE  SandboxInv'
<1>1. h \in Handles /\ inst \in [Handles -> Instances \cup {Unset}]
  BY DEF SandboxInv, SandboxTypeOK, Live
<1>2. inst' \in [Handles -> Instances \cup {Unset}]
  BY <1>1 DEF Removed
<1>3. \A g \in Handles : inst'[g] # Unset => inst'[g] = inst[g]
  BY <1>1 DEF Removed
<1>4. ASSUME NEW g \in Handles, inst'[g] # Unset
      PROVE  inst[g] # Unset /\ Same(inst'[g], inst[g]) /\ Budgeted(inst'[g])
  BY <1>3, <1>4 DEF SandboxInv, LiveInv, Live, Same
<1> QED BY <1>2, <1>4, KeptPreserves

LEMMA AnsweredType ==
    ASSUME SandboxInv, NEW h \in Handles, NEW a \in Answers, Replied(h, a)
    PROVE  answer' \in [Handles -> Answers] /\ UNCHANGED <<now, epoch, slept, ticker>>
BY DEF SandboxInv, SandboxTypeOK, Replied

LEMMA SilentType ==
    ASSUME SandboxInv, Silent
    PROVE  answer' \in [Handles -> Answers] /\ UNCHANGED <<now, epoch, slept, ticker>>
BY DEF SandboxInv, SandboxTypeOK, Silent

LEMMA CallPreserves == ASSUME SandboxInv, NEW h \in Handles, CallWithCbor(h) PROVE SandboxInv'
<1>1. h \in Live
  BY DEF CallWithCbor, In
<1>2. "none" \in Answers /\ "host_error" \in Answers /\ "trap" \in Answers /\ "wasm" \in InstanceStages
  BY DEF Answers, InstanceStages
<1>3. CASE Moves(h, "wasm") /\ Replied(h, "none")
  BY <1>1, <1>2, <1>3, AnsweredType, MovesPreserves
<1>4. CASE UNCHANGED inst /\ \E a \in Answers : Replied(h, a)
  <2>1. inst[h] \in Instances
    BY <1>1, LiveAreInstances DEF SandboxInv
  <2>2. Moves(h, inst[h].stage)
    BY <1>4, <2>1 DEF Moves, SandboxInv, SandboxTypeOK, Instances
  <2>3. inst[h].stage \in InstanceStages
    BY <2>1 DEF Instances
  <2> QED BY <1>1, <1>4, <2>2, <2>3, AnsweredType, MovesPreserves
<1> QED BY <1>2, <1>3, <1>4 DEF CallWithCbor

LEMMA StopPreserves ==
    ASSUME SandboxInv, NEW h \in Handles, NEW why \in Answers, GuestStops(h, why)
    PROVE  SandboxInv'
<1>1. h \in Live /\ "dead" \in InstanceStages
  BY DEF GuestStops, In, InstanceStages
<1>2. answer' \in [Handles -> Answers] /\ UNCHANGED <<now, epoch, slept, ticker>>
  BY AnsweredType DEF GuestStops
<1> QED BY <1>1, <1>2, MovesPreserves, RemovedPreserves DEF GuestStops

(***************************************************************************)
(* Fuel is taken only where some is left.                                  *)
(***************************************************************************)
LEMMA ComputesPreserves == ASSUME SandboxInv, NEW h \in Handles, GuestComputes(h) PROVE SandboxInv'
<1> DEFINE i == [inst[h] EXCEPT !.fuel = inst[h].fuel - 1, !.spent = inst[h].spent + 1]
<1>1. /\ h \in Live /\ inst \in [Handles -> Instances \cup {Unset}] /\ inst[h] \in Instances
      /\ inst[h].stage \in {"start", "wasm"}
  BY LiveAreInstances DEF GuestComputes, In, SandboxInv, SandboxTypeOK
<1>2. inst[h].fuel # 0 /\ inst[h].spent < MaxSpent
  BY <1>1 DEF GuestComputes, Stops, Computes, OutOfFuel
<1>3. inst[h].fuel \in 0 .. W - 1 /\ inst[h].spent \in 0 .. MaxSpent
  BY <1>1, InstanceTypes
<1>4. inst[h].fuel - 1 \in 0 .. W - 1 /\ inst[h].spent + 1 \in 0 .. MaxSpent
  BY <1>2, <1>3, Widths
<1>5. /\ i \in Instances /\ Same(i, inst[h])
      /\ i.fuel = inst[h].fuel - 1 /\ i.spent = inst[h].spent + 1
  BY <1>1, <1>4 DEF Instances, Same
<1>6. inst' = [inst EXCEPT ![h] = i]
  BY <1>1 DEF GuestComputes
<1> HIDE DEF i
<1>7. Budgeted(inst[h])
  BY <1>1 DEF SandboxInv, LiveInv
<1>8. Budgeted(i)
  BY <1>3, <1>5, <1>7, Widths DEF Budgeted, Same
<1>9. answer' \in [Handles -> Answers] /\ UNCHANGED <<now, epoch, slept, ticker>>
  BY SilentType DEF GuestComputes
<1> QED BY <1>1, <1>5, <1>6, <1>8, <1>9, ReplacedPreserves

LEMMA GuestPreserves == ASSUME SandboxInv, NEW h \in Handles, GuestStep(h) \/ Drop(h) PROVE SandboxInv'
<1>0. /\ {"idle", "wasm", "wasi", "dead"} \subseteq InstanceStages
      /\ {"ok", "exit", "trap", "limit_exceeded", "timed_out", "host_error",
          "invalid_component"} \subseteq Answers
  BY DEF InstanceStages, Answers
<1>1. CASE Started(h)
  BY <1>0, <1>1, MovesPreserves, AnsweredType, SilentType DEF Started, In
<1>2. CASE StartFails(h)
  <2>1. answer' \in [Handles -> Answers] /\ UNCHANGED <<now, epoch, slept, ticker>>
    BY <1>0, <1>2, AnsweredType DEF StartFails
  <2> QED BY <1>2, <2>1, RemovedPreserves DEF StartFails, In
<1>3. CASE CallReturns(h)
  <2>1. answer' \in [Handles -> Answers] /\ UNCHANGED <<now, epoch, slept, ticker>>
    BY <1>0, <1>3, AnsweredType DEF CallReturns
  <2> QED BY <1>0, <1>3, <2>1, MovesPreserves DEF CallReturns, In
<1>4. CASE RunReturns(h)
  <2>1. answer' \in [Handles -> Answers] /\ UNCHANGED <<now, epoch, slept, ticker>>
    BY <1>0, <1>4, AnsweredType DEF RunReturns
  <2> QED BY <1>4, <2>1, RemovedPreserves DEF RunReturns, In
<1>5. CASE InstanceTraps(h) \/ Interrupted(h) \/ Exhausted(h)
  BY <1>0, <1>5, StopPreserves DEF InstanceTraps, Interrupted, Exhausted
<1>6. CASE GuestComputes(h)
  BY <1>6, ComputesPreserves
<1>7. CASE GuestWaits(h) \/ GuestResumes(h)
  BY <1>0, <1>7, MovesPreserves, SilentType DEF GuestWaits, GuestResumes, In
<1>8. CASE Drop(h)
  BY <1>8, RemovedPreserves, SilentType DEF Drop, In
<1> QED BY <1>1, <1>2, <1>3, <1>4, <1>5, <1>6, <1>7, <1>8 DEF GuestStep

LEMMA NextPreserves == SandboxInv /\ [SandboxNext]_sandboxVars => SandboxInv'
<1>1. SandboxInv /\ UNCHANGED sandboxVars => SandboxInv'
  BY DEF SandboxInv, SandboxTypeOK, EpochInv, TickerInv, LiveInv, Live, sandboxVars
<1> QED BY <1>1, PassPreserves, WakePreserves, InstantiatePreserves, CallPreserves,
           GuestPreserves DEF SandboxNext

LEMMA InvariantHolds == SandboxSpec => []SandboxInv
BY InitSandboxInv, NextPreserves, PTL DEF SandboxSpec

\* Time, epoch, fuel and deadlines stay in their widths.
THEOREM SandboxTypeCorrect == SandboxSpec => []SandboxTypeOK
<1>1. SandboxInv => SandboxTypeOK
  BY DEF SandboxInv
<1> QED BY <1>1, InvariantHolds, PTL

----------------------------------------------------------------------------

(***************************************************************************)
(* Which step gives an answer that a guest was stopped.                    *)
(***************************************************************************)
LEMMA WhoStops ==
    ASSUME SandboxInv, [SandboxNext]_sandboxVars, NEW h \in Handles, NEW a \in {"timed_out", "limit_exceeded"},
           Gets(h, a)
    PROVE  \/ a = "timed_out" /\ Interrupted(h)
           \/ a = "limit_exceeded" /\ Exhausted(h)
<1>0. answer \in [Handles -> Answers]
  BY DEF SandboxInv, SandboxTypeOK
<1>1. ASSUME NEW g \in Handles, NEW b, Replied(g, b) PROVE g = h /\ b = a
  BY <1>0, <1>1 DEF Replied, Gets
<1>2. ~Silent /\ ~UNCHANGED answer
  BY DEF Silent, Gets
<1>3. ~Pass /\ ~TickerWakes /\ ~UNCHANGED sandboxVars
  BY <1>2 DEF Pass, TickerWakes, sandboxVars
<1>4. ASSUME NEW g \in Handles, NEW kind \in {"invoker", "cli"}, NEW x \in Timeouts,
             NEW c \in CpuLimits, Instantiate(g, kind, x, c)
      PROVE  FALSE
  BY <1>0, <1>4 DEF Instantiate, Gets
<1>5. ASSUME NEW g \in Handles, CallWithCbor(g) \/ Drop(g) PROVE FALSE
  BY <1>1, <1>2, <1>5 DEF CallWithCbor, Drop
<1>6. ASSUME NEW g \in Handles, GuestStep(g) PROVE Interrupted(g) \/ Exhausted(g)
  <2>1. ~Started(g) /\ ~StartFails(g) /\ ~CallReturns(g) /\ ~RunReturns(g) /\ ~InstanceTraps(g)
    BY <1>1, <1>2 DEF Started, StartFails, CallReturns, RunReturns, InstanceTraps, GuestStops
  <2>2. ~GuestComputes(g) /\ ~GuestWaits(g) /\ ~GuestResumes(g)
    BY <1>2 DEF GuestComputes, GuestWaits, GuestResumes
  <2> QED BY <1>6, <2>1, <2>2 DEF GuestStep
<1>7. PICK g \in Handles : Interrupted(g) \/ Exhausted(g)
  BY <1>3, <1>4, <1>5, <1>6 DEF SandboxNext
<1>8. CASE Interrupted(g)
  BY <1>1, <1>8 DEF Interrupted, GuestStops
<1>9. CASE Exhausted(g)
  BY <1>1, <1>9 DEF Exhausted, GuestStops
<1> QED BY <1>7, <1>8, <1>9

LEMMA ExhaustedHasSpent ==
    ASSUME SandboxInv, NEW h \in Handles, Exhausted(h)
    PROVE  inst[h].cpu # Unset /\ inst[h].spent >= Least(inst[h].cpu * FuelPerMs, W - 1)
<1>1. h \in Live /\ inst[h].fuel = 0
  BY DEF Exhausted, OutOfFuel
<1>2. inst[h] \in Instances /\ Budgeted(inst[h])
  BY <1>1, LiveAreInstances DEF SandboxInv, LiveInv
<1>3. /\ inst[h].spent \in 0 .. MaxSpent /\ inst[h].cpu \in CpuLimits
      /\ inst[h].spent = FuelOf(inst[h].cpu)
  BY <1>1, <1>2, InstanceTypes, Widths DEF Budgeted
<1>4. inst[h].cpu # Unset
  BY <1>3, Widths DEF FuelOf
<1>5. FuelOf(inst[h].cpu) = Least(inst[h].cpu * FuelPerMs, W - 1)
  BY <1>3, <1>4, FuelOfType
<1>6. inst[h].spent >= inst[h].spent
  BY <1>3, Widths
<1> QED BY <1>3, <1>4, <1>5, <1>6

\* A guest is stopped for its use of the CPU only when a limit was asked for and all its
\* calls together have used it up.
THEOREM BudgetsAreShared == SandboxSpec => FuelIsBudget
<1>1. ASSUME SandboxInv, [SandboxNext]_sandboxVars, NEW h \in Handles, Gets(h, "limit_exceeded")
      PROVE  inst[h].cpu # Unset /\ inst[h].spent >= Least(inst[h].cpu * FuelPerMs, W - 1)
  BY <1>1, WhoStops, ExhaustedHasSpent
<1>2. SandboxInv /\ [SandboxNext]_sandboxVars =>
        [\A h \in Handles : Gets(h, "limit_exceeded") =>
         /\ inst[h].cpu # Unset
         /\ inst[h].spent >= Least(inst[h].cpu * FuelPerMs, W - 1)]_sandboxVars
  BY <1>1
<1> QED BY <1>2, InvariantHolds, PTL DEF SandboxSpec, FuelIsBudget

(***************************************************************************)
(* An instance that is out of time has seen its ticks, all but the first   *)
(* of them whole.                                                          *)
(***************************************************************************)
LEMMA OutOfTimeIsLate ==
    ASSUME SandboxInv, NEW h \in Live, OutOfTime(inst[h])
    PROVE  /\ inst[h].timeout # Unset
           /\ now - inst[h].born >= inst[h].timeout - Tick
<1> DEFINE i == inst[h]
           k == epoch - Since(i)
           n == DeltaOf(i.timeout)
<1>1. /\ i \in Instances /\ Born(i, now, epoch) /\ NoFaster(i, now, epoch, slept)
      /\ now \in 0 .. MaxTime /\ slept \in 0 .. Tick + Late /\ epoch \in 0 .. W - 1
      /\ epoch + slept <= now
  BY LiveAreInstances DEF SandboxInv, LiveInv, SandboxTypeOK, EpochInv
<1>2. /\ i.timeout \in Timeouts /\ i.deadline \in 0 .. W - 1 /\ i.born \in 0 .. MaxTime
      /\ Since(i) \in Int
  BY <1>1, InstanceTypes
<1>3. /\ n \in Nat /\ 2 * n <= W
      /\ i.timeout = Unset => n > MaxTime
      /\ i.timeout # Unset => i.timeout \in 0 .. W - 1 /\ n = EpochTicks(i.timeout)
  BY <1>2, DeltaBounds
<1>4. i.deadline <= epoch /\ Since(i) = i.deadline - n /\ Since(i) >= 0
  BY <1>1, <1>2, Widths DEF OutOfTime, Since, Born
<1> HIDE DEF n
<1>5. k \in Int /\ k >= n /\ k <= epoch /\ epoch <= MaxTime
  BY <1>1, <1>2, <1>3, <1>4, Widths
<1>6. i.timeout # Unset
  BY <1>1, <1>2, <1>3, <1>5, Widths
<1>7. n >= 1 /\ (i.timeout <= n * Tick \/ MaxTime < (n - 1) * Tick)
  BY <1>3, <1>6, EpochTicksBounds
<1>8. (k - 1) * Tick + slept <= now - i.born
  <2>1. epoch # Since(i)
    BY <1>1, <1>2, <1>3, <1>5, <1>7
  <2> QED BY <2>1, <1>1 DEF NoFaster
<1> HIDE DEF k
<1>9. (n - 1) * Tick <= (k - 1) * Tick /\ (n - 1) * Tick \in Int /\ (k - 1) * Tick \in Int
  <2>1. n - 1 \in Int /\ k - 1 \in Int /\ n - 1 <= k - 1
    BY <1>3, <1>5
  <2> QED BY <2>1, Widths, MulGrows, MulNext
<1> HIDE DEF i
<1>10. now - i.born <= MaxTime /\ (n - 1) * Tick <= now - i.born
  BY <1>1, <1>2, <1>8, <1>9, Widths
<1>11. i.timeout <= n * Tick
  BY <1>1, <1>2, <1>7, <1>9, <1>10, Widths
<1>12. n * Tick = (n - 1) * Tick + Tick
  <2>1. n - 1 \in Int /\ n - 1 + 1 = n
    BY <1>3
  <2>2. (n - 1 + 1) * Tick = (n - 1) * Tick + Tick
    BY <2>1, Widths, MulNext
  <2> QED BY <2>1, <2>2
<1>13. now - i.born >= i.timeout - Tick
  BY <1>1, <1>2, <1>3, <1>6, <1>9, <1>10, <1>11, <1>12, Widths
<1> QED BY <1>6, <1>13 DEF i

\* A guest is interrupted because of its own timeout, and at most a tick early, whatever
\* the other guests do and however late the thread is.
THEOREM InterruptsAreDue == SandboxSpec => NotTooEarly
<1>1. ASSUME SandboxInv, [SandboxNext]_sandboxVars, NEW h \in Handles, Gets(h, "timed_out")
      PROVE  /\ inst[h].timeout # Unset
             /\ now - inst[h].born >= inst[h].timeout - Tick
  BY <1>1, WhoStops, OutOfTimeIsLate DEF Interrupted
<1>2. SandboxInv /\ [SandboxNext]_sandboxVars =>
        [\A h \in Handles : Gets(h, "timed_out") =>
         /\ inst[h].timeout # Unset
         /\ now - inst[h].born >= inst[h].timeout - Tick]_sandboxVars
  BY <1>1
<1> QED BY <1>2, InvariantHolds, PTL DEF SandboxSpec, NotTooEarly

LEMMA ComputesInTime ==
    ASSUME SandboxInv, [SandboxNext]_sandboxVars, NEW h \in Live,
           ticker = "runs", now' > now, Computes(inst[h]), inst[h].timeout # Unset
    PROVE  now - inst[h].born <= EpochTicks(inst[h].timeout) * (Tick + Late)
<1> DEFINE i == inst[h]
           k == epoch - Since(i)
           n == EpochTicks(i.timeout)
<1>1. /\ i \in Instances /\ Born(i, now, epoch) /\ NoSlower(i, now, epoch, slept)
      /\ now \in 0 .. MaxTime /\ slept \in 0 .. Tick + Late /\ epoch \in 0 .. W - 1
  BY LiveAreInstances DEF SandboxInv, LiveInv, SandboxTypeOK
<1>2. /\ i.timeout \in Timeouts /\ i.deadline \in 0 .. W - 1 /\ i.born \in 0 .. MaxTime
      /\ Since(i) \in Int
  BY <1>1, InstanceTypes
<1>3. n \in Nat /\ Since(i) = i.deadline - n
  BY <1>2, DeltaBounds DEF Since
<1>4. Pass
  <2>1. now' # now
    BY <1>1
  <2> QED BY <2>1 DEF SandboxNext, sandboxVars, TickerWakes, Instantiate, SandboxEngine,
        CallWithCbor, Drop, GuestStep, Started, StartFails, CallReturns, RunReturns,
        InstanceTraps, Interrupted, Exhausted, GuestStops, GuestComputes, GuestWaits,
        GuestResumes, Replied, Silent
<1>5. epoch < i.deadline
  <2>1. ~OutOfTime(i)
    BY <1>4 DEF Pass, Stops
  <2> QED BY <1>1, <1>2, <2>1, Widths DEF OutOfTime
<1> HIDE DEF n
<1>6. k \in Nat /\ k + 1 <= n
  BY <1>1, <1>2, <1>3, <1>5, Widths DEF Born
<1>7. now - i.born <= k * TickersTime + slept /\ slept <= TickersTime
  BY <1>1, Widths DEF NoSlower, TickersTime
<1> HIDE DEF k
<1>8. k + 1 \in Int /\ n \in Int /\ k \in Int
  BY <1>3, <1>6
<1>9. /\ (k + 1) * TickersTime <= n * TickersTime
      /\ (k + 1) * TickersTime = k * TickersTime + TickersTime
      /\ k * TickersTime \in Int /\ n * TickersTime \in Int
  BY <1>6, <1>8, Widths, MulGrows, MulNext
<1> HIDE DEF i
<1>10. now - i.born <= n * TickersTime
  BY <1>1, <1>2, <1>7, <1>9, Widths
<1> QED BY <1>10 DEF i, n, TickersTime

\* While a guest computes and the thread runs, time does not pass the point where its
\* timeout, rounded up to ticks that may each be late, is over.
THEOREM InterruptsAreInTime == SandboxSpec => RunsOnTime
<1>1. ASSUME SandboxInv, [SandboxNext]_sandboxVars, NEW h \in Live,
             /\ ticker = "runs" /\ now' > now
             /\ Computes(inst[h]) /\ inst[h].timeout # Unset
      PROVE  now - inst[h].born <= EpochTicks(inst[h].timeout) * (Tick + Late)
  BY <1>1, ComputesInTime
<1>2. SandboxInv /\ [SandboxNext]_sandboxVars =>
        [\A h \in Live :
         /\ ticker = "runs" /\ now' > now
         /\ Computes(inst[h]) /\ inst[h].timeout # Unset
         => now - inst[h].born <= EpochTicks(inst[h].timeout) * (Tick + Late)]_sandboxVars
  BY <1>1
<1> QED BY <1>2, InvariantHolds, PTL DEF SandboxSpec, RunsOnTime

-----------------------------------------------------------------------------
(* Values: each function that recurs on a type or a value is one that NatRec   *)
(* makes, so that its equation and induction on the depth are facts about it.  *)

ItemsAbove(n, I) == MoreItems(I)
ValuesAbove(n, V) == MoreValues(V)
ValuesOfAbove(n, vals) == [t \in Types |-> Fitting(vals, t, Values[n - 1])]
DecodersAbove(n, dec) == [t \in Types |-> [c \in Items[Depth] |-> ToVal(dec, c, t)]]
EncoderAbove(n, enc) == [v \in Values[n] |-> FromVal(enc, v)]
HoldingAbove(n, hold) == [A \in SUBSET Types |-> A \cup {t \in Types : PartTypes(t) \cap hold[A] # {}}]
FailingDecoders == [t \in Types |-> [c \in Items[Depth] |-> Fail]]

NestingAbove(n, N) == {t \in Types : PartTypes(t) \subseteq N}

ItemsRec == INSTANCE NatRec WITH Base <- MoreItems({}), Step <- ItemsAbove
NestingRec == INSTANCE NatRec WITH Base <- {}, Step <- NestingAbove
ValuesRec == INSTANCE NatRec WITH Base <- {}, Step <- ValuesAbove
ValuesOfRec == INSTANCE NatRec WITH Base <- [t \in Types |-> {}], Step <- ValuesOfAbove
DecodersRec == INSTANCE NatRec WITH Base <- FailingDecoders, Step <- DecodersAbove
EncoderRec == INSTANCE NatRec WITH Base <- <<>>, Step <- EncoderAbove
HoldingRec == INSTANCE NatRec WITH Base <- [A \in SUBSET Types |-> {}], Step <- HoldingAbove

LEMMA ItemsEquation == Items[0] = MoreItems({}) /\ \A n \in Nat : Items[n + 1] = MoreItems(Items[n])
<1>1. Items = ItemsRec!F
  BY DEF Items, ItemsRec!F, ItemsAbove
<1> QED BY <1>1, ItemsRec!Equation DEF ItemsAbove

LEMMA NestingEquation ==
    Nesting[0] = {} /\ \A n \in Nat : Nesting[n + 1] = {t \in Types : PartTypes(t) \subseteq Nesting[n]}
<1>1. Nesting = NestingRec!F
  BY DEF Nesting, NestingRec!F, NestingAbove
<1> QED BY <1>1, NestingRec!Equation DEF NestingAbove

LEMMA ValuesEquation == Values[0] = {} /\ \A n \in Nat : Values[n + 1] = MoreValues(Values[n])
<1>1. Values = ValuesRec!F
  BY DEF Values, ValuesRec!F, ValuesAbove
<1> QED BY <1>1, ValuesRec!Equation DEF ValuesAbove

LEMMA ValuesOfEquation ==
    /\ \A t \in Types : ValuesOf[0][t] = {}
    /\ \A n \in Nat : \A t \in Types : ValuesOf[n + 1][t] = Fitting(ValuesOf[n], t, Values[n])
<1>1. ValuesOf = ValuesOfRec!F
  BY DEF ValuesOf, ValuesOfRec!F, ValuesOfAbove
<1>2. ValuesOf[0] = [t \in Types |-> {}]
  BY <1>1, ValuesOfRec!Equation
<1>3. ASSUME NEW n \in Nat PROVE ValuesOf[n + 1] = [t \in Types |-> Fitting(ValuesOf[n], t, Values[n])]
  <2>1. (n + 1) - 1 = n
    OBVIOUS
  <2>2. ValuesOf[n + 1] = ValuesOfAbove(n + 1, ValuesOf[n])
    BY <1>1, ValuesOfRec!Equation
  <2> QED BY <2>1, <2>2 DEF ValuesOfAbove
<1> QED BY <1>2, <1>3

LEMMA DecodersEquation ==
    /\ \A t \in Types : \A c \in Items[Depth] : CborToVal[0][t][c] = Fail
    /\ \A n \in Nat : \A t \in Types : \A c \in Items[Depth] :
          CborToVal[n + 1][t][c] = ToVal(CborToVal[n], c, t)
<1>1. CborToVal = DecodersRec!F
  BY DEF CborToVal, DecodersRec!F, DecodersAbove, FailingDecoders
<1>2. CborToVal[0] = FailingDecoders
  BY <1>1, DecodersRec!Equation
<1>3. ASSUME NEW n \in Nat PROVE CborToVal[n + 1] = DecodersAbove(n + 1, CborToVal[n])
  BY <1>1, DecodersRec!Equation
<1>4. ASSUME NEW n \in Nat, NEW t \in Types, NEW c \in Items[Depth]
      PROVE  CborToVal[n + 1][t][c] = ToVal(CborToVal[n], c, t)
  <2> DEFINE dec == CborToVal[n]
  <2>1. CborToVal[n + 1] = [tt \in Types |-> [cc \in Items[Depth] |-> ToVal(dec, cc, tt)]]
    BY <1>3 DEF DecodersAbove
  <2> HIDE DEF dec
  <2>2. CborToVal[n + 1][t] = [cc \in Items[Depth] |-> ToVal(dec, cc, t)]
    BY <2>1
  <2>3. CborToVal[n + 1][t][c] = ToVal(dec, c, t)
    BY <2>2
  <2> QED BY <2>3 DEF dec
<1>5. ASSUME NEW t \in Types, NEW c \in Items[Depth] PROVE CborToVal[0][t][c] = Fail
  BY <1>2 DEF FailingDecoders
<1> QED BY <1>4, <1>5

LEMMA EncoderEquation ==
    \A n \in Nat : \A v \in Values[n + 1] : ValToCbor[n + 1][v] = FromVal(ValToCbor[n], v)
<1>1. ValToCbor = EncoderRec!F
  BY DEF ValToCbor, EncoderRec!F, EncoderAbove
<1>2. ASSUME NEW n \in Nat PROVE ValToCbor[n + 1] = EncoderAbove(n + 1, ValToCbor[n])
  BY <1>1, EncoderRec!Equation
<1> QED BY <1>2 DEF EncoderAbove

LEMMA HoldingEquation ==
    \A n \in Nat : \A A \in SUBSET Types :
        /\ Holding[0][A] = {}
        /\ Holding[n + 1][A] = A \cup {t \in Types : PartTypes(t) \cap Holding[n][A] # {}}
<1>1. Holding = HoldingRec!F
  BY DEF Holding, HoldingRec!F, HoldingAbove
<1>2. Holding[0] = [A \in SUBSET Types |-> {}]
  BY <1>1, HoldingRec!Equation
<1>3. ASSUME NEW n \in Nat PROVE Holding[n + 1] = HoldingAbove(n + 1, Holding[n])
  BY <1>1, HoldingRec!Equation
<1> QED BY <1>2, <1>3 DEF HoldingAbove

-----------------------------------------------------------------------------

Scalars == {"bool", "string", "own"} \cup DOMAIN Ranges
Tags == Scalars \cup {"list", "option", "tuple", "record", "variant", "result", "enum", "flags", "map"}

\* What a type is made of, by its tag.
LEMMA TypeForms ==
    ASSUME NEW t \in Types
    PROVE  /\ t[1] \in Tags
           /\ t[1] \in Scalars => t = <<t[1]>>
           /\ t[1] \in {"list", "option"} => t[2] \in Types
           /\ t[1] = "tuple" => t[2] \in Seq(Types)
           /\ t[1] = "record" => t[2] \in Seq(Texts \X Types) /\ NamesDiffer(t[2])
           /\ t[1] = "variant" => t[2] \in Seq(Texts \X (Types \cup {Unit})) /\ NamesDiffer(t[2])
           /\ t[1] = "result" => t[2] \in Types \cup {Unit} /\ t[3] \in Types \cup {Unit}
           /\ t[1] \in {"enum", "flags"} => t[2] \in Seq(Texts)
           /\ t[1] = "map" => t[2] \in Types /\ t[3] \in Types
<1>1. t \in Shapes(Types)
  BY CborAssumption
<1>2. t[1] \in {"record", "variant"} => NamesDiffer(t[2])
  BY CborAssumption
<1>3. DOMAIN Ranges \subseteq {"s8", "u8", "s16", "u16", "s32", "u32", "s64", "u64"}
  BY CborAssumption
<1>4. CASE t \in {<<"bool">>, <<"string">>, <<"own">>}
  BY <1>3, <1>4 DEF Scalars, Tags
<1>5. CASE t \in {<<name>> : name \in DOMAIN Ranges}
  BY <1>3, <1>5 DEF Scalars, Tags
<1>6. CASE t \in {"list", "option"} \X Types
  BY <1>3, <1>6 DEF Scalars, Tags
<1>7. CASE t \in {"tuple"} \X Seq(Types)
  BY <1>3, <1>7 DEF Scalars, Tags
<1>8. CASE t \in {"record"} \X Seq(Texts \X Types)
  BY <1>2, <1>3, <1>8 DEF Scalars, Tags
<1>9. CASE t \in {"variant"} \X Seq(Texts \X (Types \cup {Unit}))
  BY <1>2, <1>3, <1>9 DEF Scalars, Tags
<1>10. CASE t \in {"result"} \X (Types \cup {Unit}) \X (Types \cup {Unit})
  BY <1>3, <1>10 DEF Scalars, Tags
<1>11. CASE t \in {"enum", "flags"} \X Seq(Texts)
  BY <1>3, <1>11 DEF Scalars, Tags
<1>12. CASE t \in {"map"} \X Types \X Types
  BY <1>3, <1>12 DEF Scalars, Tags
<1> QED BY <1>1, <1>4, <1>5, <1>6, <1>7, <1>8, <1>9, <1>10, <1>11, <1>12 DEF Shapes

LEMMA UnitIsNoType == Unit \notin Types
<1>1. Unit[1] = "unit"
  BY DEF Unit
<1>2. "unit" \notin Tags
  BY CborAssumption DEF Tags, Scalars
<1> QED BY <1>1, <1>2, TypeForms

\* What an item is made of, by its tag.
LEMMA ItemForms ==
    ASSUME NEW I, NEW c \in MoreItems(I)
    PROVE  /\ c[1] = "null" => c = Null
           /\ c[1] = "bool" => c \in {"bool"} \X BOOLEAN
           /\ c[1] = "int" => c \in {"int"} \X Int
           /\ c[1] = "text" => c \in {"text"} \X Texts
           /\ c[1] = "bytes" => c \in {"bytes"} \X Seq(Ranges["u8"])
           /\ c[1] = "array" => c \in {"array"} \X Seq(I)
           /\ c[1] = "map" => c \in {"map"} \X Seq(I \X I)
BY DEF MoreItems, Null

LEMMA SeqGrows == ASSUME NEW S, NEW T, S \subseteq T PROVE Seq(S) \subseteq Seq(T)
OBVIOUS

LEMMA MoreItemsGrow == ASSUME NEW I, NEW J, I \subseteq J PROVE MoreItems(I) \subseteq MoreItems(J)
<1>1. Seq(I) \subseteq Seq(J) /\ Seq(I \X I) \subseteq Seq(J \X J)
  <2>1. I \X I \subseteq J \X J
    OBVIOUS
  <2> QED BY <2>1, SeqGrows
<1> QED BY <1>1 DEF MoreItems

LEMMA ItemsGrow == \A n \in Nat : Items[n] \subseteq Items[n + 1]
<1> DEFINE S == {n \in Nat : Items[n] \subseteq Items[n + 1]}
<1>1. 0 \in S
  <2>1. 0 + 1 = 1
    OBVIOUS
  <2>2. Items[0 + 1] = MoreItems(Items[0]) /\ Items[0] = MoreItems({})
    BY ItemsEquation
  <2> QED BY <2>2, MoreItemsGrow
<1>2. ASSUME NEW n \in Nat, n \in S PROVE n + 1 \in S
  <2>1. Items[n] \subseteq Items[n + 1]
    BY <1>2
  <2>2. n + 1 \in Nat /\ Items[n + 1] = MoreItems(Items[n]) /\ Items[(n + 1) + 1] = MoreItems(Items[n + 1])
    BY ItemsEquation
  <2> QED BY <2>1, <2>2, MoreItemsGrow
<1> HIDE DEF S
<1>3. \A n \in Nat : n \in S
  BY <1>1, <1>2, ItemsRec!Induction
<1> QED BY <1>3 DEF S

LEMMA ItemsOfDepth == \A n \in Nat : n <= Depth => Items[n] \subseteq Items[Depth]
<1> DEFINE S == {m \in Nat : \A n \in Nat : Items[n] \subseteq Items[n + m]}
<1>1. 0 \in S
  OBVIOUS
<1>2. ASSUME NEW m \in Nat, m \in S PROVE m + 1 \in S
  <2>1. ASSUME NEW n \in Nat PROVE Items[n] \subseteq Items[n + (m + 1)]
    <3>1. Items[n] \subseteq Items[n + m] /\ n + m \in Nat /\ n + (m + 1) = (n + m) + 1
      BY <1>2
    <3> QED BY <3>1, ItemsGrow
  <2> QED BY <2>1
<1> HIDE DEF S
<1>3. \A m \in Nat : m \in S
  BY <1>1, <1>2, ItemsRec!Induction
<1>4. ASSUME NEW n \in Nat, n <= Depth PROVE Items[n] \subseteq Items[Depth]
  <2>1. Depth - n \in Nat /\ n + (Depth - n) = Depth
    BY <1>4, CborAssumption
  <2>2. Items[n] \subseteq Items[n + (Depth - n)]
    BY <1>3, <2>1 DEF S
  <2> QED BY <2>1, <2>2
<1> QED BY <1>4

\* The parts of the items that are decoded are items that can be decoded.
LEMMA DepthIsClosed == Items[Depth] \subseteq MoreItems(Items[Depth])
<1>1. Depth \in Nat
  BY CborAssumption
<1> QED BY <1>1, ItemsGrow, ItemsEquation

-----------------------------------------------------------------------------

\* One level of decoding.  N are the types below, dec their decoders, which give values of
\* the types or fail, vals these values.
DecodesWell(dec, vals, N) ==
    /\ \A u \in N : \A d \in Items[Depth] : dec[u][d] \in vals[u] \cup {Fail}
    /\ <<"u8">> \in N => {"u8"} \X Ranges["u8"] \subseteq vals[<<"u8">>]

LEMMA Accepted ==
    ASSUME NEW tag, NEW vs, All(tag, vs) # Fail
    PROVE  All(tag, vs) = <<tag, vs>> /\ \A i \in DOMAIN vs : vs[i] # Fail
BY DEF All, RangeOf

LEMMA IsSequence ==
    ASSUME NEW S, NEW k \in Nat, NEW vs, vs = [i \in 1 .. k |-> vs[i]], \A i \in 1 .. k : vs[i] \in S
    PROVE  vs \in Seq(S) /\ Len(vs) = k
<1>1. [i \in 1 .. k |-> vs[i]] \in Seq(S)
  OBVIOUS
<1>2. Len([i \in 1 .. k |-> vs[i]]) = k
  OBVIOUS
<1> QED BY <1>1, <1>2

LEMMA AllOfThem ==
    ASSUME NEW tag, NEW S, NEW k \in Nat, NEW vs, vs = [i \in 1 .. k |-> vs[i]],
           \A i \in 1 .. k : vs[i] \in S \cup {Fail}
    PROVE  All(tag, vs) \in ({tag} \X Seq(S)) \cup {Fail}
<1>1. DOMAIN vs = 1 .. k
  OBVIOUS
<1>2. CASE All(tag, vs) # Fail
  <2>1. All(tag, vs) = <<tag, vs>> /\ \A i \in 1 .. k : vs[i] # Fail
    BY <1>1, <1>2, Accepted
  <2>2. \A i \in 1 .. k : vs[i] \in S
    BY <2>1
  <2>3. vs \in Seq(S)
    BY <2>2, IsSequence
  <2> QED BY <2>1, <2>3
<1> QED BY <1>2

\* The entries of a map, and the elements of an array, can be decoded.
LEMMA ArrayParts ==
    ASSUME NEW c \in Items[Depth], c[1] = "array"
    PROVE  c = <<"array", c[2]>> /\ c[2] \in Seq(Items[Depth])
<1>1. c \in MoreItems(Items[Depth])
  BY DepthIsClosed
<1>2. c \in {"array"} \X Seq(Items[Depth])
  BY <1>1, ItemForms
<1> QED BY <1>2

LEMMA MapParts ==
    ASSUME NEW c \in Items[Depth], c[1] = "map"
    PROVE  c = <<"map", c[2]>> /\ c[2] \in Seq(Items[Depth] \X Items[Depth])
<1>1. c \in MoreItems(Items[Depth])
  BY DepthIsClosed
<1>2. c \in {"map"} \X Seq(Items[Depth] \X Items[Depth])
  BY <1>1, ItemForms
<1> QED BY <1>2

\* The first of some of the indices of a sequence.
LEMMA FirstIndex ==
    ASSUME NEW k \in Nat, NEW S \in SUBSET (1 .. k), S # {}
    PROVE  First(S) \in S /\ \A j \in S : First(S) <= j
<1> DEFINE T == {i \in Nat : \A j \in 0 .. i : j \notin S}
<1>1. SUFFICES ASSUME \A i \in S : \E j \in S : ~(i <= j) PROVE FALSE
  BY DEF First
<1>2. 0 \in T
  OBVIOUS
<1>3. ASSUME NEW i \in Nat, i \in T PROVE i + 1 \in T
  <2>1. i + 1 \notin S
    BY <1>1, <1>3
  <2>2. 0 .. (i + 1) = 0 .. i \cup {i + 1}
    OBVIOUS
  <2> QED BY <1>3, <2>1, <2>2
<1> HIDE DEF T
<1>4. \A i \in Nat : i \in T
  BY <1>2, <1>3, ItemsRec!Induction
<1>5. ASSUME NEW i \in Nat PROVE i \notin S
  <2>1. i \in 0 .. i
    OBVIOUS
  <2> QED BY <1>4, <2>1 DEF T
<1>6. \A i \in 1 .. k : i \in Nat
  OBVIOUS
<1> QED BY <1>5, <1>6

LEMMA MapGetIsItem ==
    ASSUME NEW c \in Items[Depth], c[1] = "map", NEW name, MapHas(c, name)
    PROVE  MapGet(c, name) \in Items[Depth]
<1>1. c[2] \in Seq(Items[Depth] \X Items[Depth])
  BY MapParts
<1>2. Len(c[2]) \in Nat /\ DOMAIN c[2] = 1 .. Len(c[2])
  BY <1>1
<1>2a. Under(c, name) \in SUBSET (1 .. Len(c[2])) /\ Under(c, name) # {}
  BY <1>2 DEF Under, MapHas
<1>3. First(Under(c, name)) \in 1 .. Len(c[2])
  BY <1>2, <1>2a, FirstIndex
<1> QED BY <1>1, <1>3 DEF MapGet

\* What becomes of a payload, of a list, ... : each is a value of the type, or fails.
LEMMA PayloadDecodes ==
    ASSUME NEW dec, NEW vals, NEW N, DecodesWell(dec, vals, N),
           NEW u \in N \cup {Unit}, NEW d \in Items[Depth]
    PROVE  ToPayload(dec, d, u) \in Payloads(vals, u) \cup {Fail}
BY DEF ToPayload, Payloads, DecodesWell

LEMMA ListDecodes ==
    ASSUME NEW dec, NEW vals, NEW N, DecodesWell(dec, vals, N), NEW c \in Items[Depth],
           NEW t, t[2] \in N
    PROVE  ToList(dec, c, t) \in ({"list"} \X Seq(vals[t[2]])) \cup {Fail}
<1>1. CASE t[2] = <<"u8">> /\ c[1] = "bytes"
  <2>1. c \in MoreItems(Items[Depth])
    BY DepthIsClosed
  <2>2. c \in {"bytes"} \X Seq(Ranges["u8"])
    BY <1>1, <2>1, ItemForms
  <2> DEFINE bytes == [i \in DOMAIN c[2] |-> <<"u8", c[2][i]>>]
  <2>3. c[2] \in Seq(Ranges["u8"])
    BY <2>2
  <2>4. \A b \in Ranges["u8"] : <<"u8", b>> \in vals[t[2]]
    BY <1>1 DEF DecodesWell
  <2>5. bytes \in Seq(vals[t[2]])
    BY <2>3, <2>4
  <2> QED BY <1>1, <2>5 DEF ToList
<1>2. CASE ~(t[2] = <<"u8">> /\ c[1] = "bytes") /\ c[1] = "array"
  <2> DEFINE vs == [i \in DOMAIN c[2] |-> dec[[j \in DOMAIN c[2] |-> t[2]][i]][c[2][i]]]
  <2>1. c[2] \in Seq(Items[Depth])
    BY <1>2, ArrayParts
  <2>2. ToList(dec, c, t) = All("list", vs)
    BY <1>2 DEF ToList, ToSeq
  <2>3. \A i \in DOMAIN c[2] : vs[i] = dec[t[2]][c[2][i]] /\ c[2][i] \in Items[Depth]
    BY <2>1
  <2>4. \A i \in DOMAIN c[2] : vs[i] \in vals[t[2]] \cup {Fail}
    BY <2>3 DEF DecodesWell
  <2>5. DOMAIN vs = DOMAIN c[2] /\ DOMAIN c[2] = 1 .. Len(c[2]) /\ Len(c[2]) \in Nat
    BY <2>1
  <2>6. vs = [i \in 1 .. Len(c[2]) |-> vs[i]]
    BY <2>5
  <2> HIDE DEF vs
  <2>7. All("list", vs) \in ({"list"} \X Seq(vals[t[2]])) \cup {Fail}
    BY <2>4, <2>5, <2>6, AllOfThem
  <2> QED BY <2>2, <2>7
<1>3. CASE ~(t[2] = <<"u8">> /\ c[1] = "bytes") /\ c[1] # "array"
  BY <1>3 DEF ToList
<1> QED BY <1>1, <1>2, <1>3

\* The elements of a tuple, or the arguments of a call, one for each type.
LEMMA TupleDecodes ==
    ASSUME NEW dec, NEW vals, NEW N, DecodesWell(dec, vals, N), NEW c, NEW k \in Nat,
           c[1] = "array" => c[2] \in Seq(Items[Depth]),
           NEW tag, NEW types \in Seq(N), ToTuple(dec, tag, c, types) # Fail,
           NEW V, \A u \in N : vals[u] \subseteq V
    PROVE  LET vs == ToTuple(dec, tag, c, types)[2]
           IN /\ ToTuple(dec, tag, c, types) = <<tag, vs>>
              /\ vs \in Seq(V) /\ Len(vs) = Len(types)
              /\ \A i \in DOMAIN types : vs[i] \in vals[types[i]]
<1> DEFINE vs == [i \in DOMAIN c[2] |-> dec[types[i]][c[2][i]]]
<1>1. c[1] = "array" /\ Len(c[2]) = Len(types) /\ ToTuple(dec, tag, c, types) = All(tag, vs)
  BY DEF ToTuple, ToSeq
<1>2. c[2] \in Seq(Items[Depth])
  BY <1>1
<1>3. DOMAIN c[2] = 1 .. Len(types) /\ DOMAIN types = 1 .. Len(types) /\ Len(types) \in Nat
  BY <1>1, <1>2
<1>4. \A i \in 1 .. Len(types) : vs[i] = dec[types[i]][c[2][i]] /\ c[2][i] \in Items[Depth] /\ types[i] \in N
  BY <1>2, <1>3
<1>5. vs = [i \in 1 .. Len(types) |-> vs[i]] /\ DOMAIN vs = 1 .. Len(types)
  BY <1>3
<1> HIDE DEF vs
<1>6. All(tag, vs) = <<tag, vs>> /\ \A i \in 1 .. Len(types) : vs[i] # Fail
  BY <1>1, <1>5, Accepted
<1>7. \A i \in 1 .. Len(types) : vs[i] \in vals[types[i]]
  BY <1>4, <1>6 DEF DecodesWell
<1>8. \A i \in 1 .. Len(types) : vs[i] \in V
  BY <1>4, <1>7
<1>9. vs \in Seq(V) /\ Len(vs) = Len(types)
  BY <1>3, <1>5, <1>8, IsSequence
<1> QED BY <1>1, <1>3, <1>6, <1>7, <1>9

LEMMA RecordDecodes ==
    ASSUME NEW dec, NEW vals, NEW N, DecodesWell(dec, vals, N), NEW c \in Items[Depth],
           NEW t, t[2] \in Seq(Texts \X N), ToRecord(dec, c, t) # Fail,
           NEW V, \A u \in N : vals[u] \subseteq V
    PROVE  LET fs == ToRecord(dec, c, t)[2]
           IN /\ ToRecord(dec, c, t) = <<"record", fs>>
              /\ fs \in Seq(Texts \X V) /\ Len(fs) = Len(t[2])
              /\ \A i \in DOMAIN fs : fs[i][1] = t[2][i][1] /\ fs[i][2] \in vals[t[2][i][2]]
<1> DEFINE fs == [i \in DOMAIN t[2] |-> Pair(t[2][i][1], dec[t[2][i][2]][MapGet(c, t[2][i][1])])]
<1>1. c[1] = "map" /\ ToRecord(dec, c, t) = All("record", fs) /\ \A i \in DOMAIN t[2] : MapHas(c, t[2][i][1])
  BY DEF ToRecord
<1>2. DOMAIN t[2] = 1 .. Len(t[2]) /\ Len(t[2]) \in Nat
  OBVIOUS
<1>3. \A i \in 1 .. Len(t[2]) : t[2][i][1] \in Texts /\ t[2][i][2] \in N
  OBVIOUS
<1>4. \A i \in 1 .. Len(t[2]) : fs[i] = Pair(t[2][i][1], dec[t[2][i][2]][MapGet(c, t[2][i][1])])
  BY <1>2
<1>5. \A i \in 1 .. Len(t[2]) : MapGet(c, t[2][i][1]) \in Items[Depth]
  BY <1>1, <1>2, MapGetIsItem
<1>6. fs = [i \in 1 .. Len(t[2]) |-> fs[i]] /\ DOMAIN fs = 1 .. Len(t[2])
  BY <1>2
<1> HIDE DEF fs
<1>7. All("record", fs) = <<"record", fs>> /\ \A i \in 1 .. Len(t[2]) : fs[i] # Fail
  BY <1>1, <1>6, Accepted
<1>8. ASSUME NEW i \in 1 .. Len(t[2])
      PROVE  /\ fs[i] \in Texts \X V
             /\ fs[i][1] = t[2][i][1] /\ fs[i][2] \in vals[t[2][i][2]]
  <2> DEFINE v == dec[t[2][i][2]][MapGet(c, t[2][i][1])]
  <2>1. v \in vals[t[2][i][2]] \cup {Fail}
    BY <1>3, <1>5 DEF DecodesWell
  <2>2. fs[i] = <<t[2][i][1], v>> /\ v # Fail
    BY <1>4, <1>7 DEF Pair
  <2>3. v \in V
    BY <1>3, <2>1, <2>2
  <2> HIDE DEF v
  <2> QED BY <1>3, <2>1, <2>2, <2>3
<1> DEFINE S == Texts \X V
<1> DEFINE k == Len(t[2])
<1>9. k \in Nat /\ fs = [i \in 1 .. k |-> fs[i]] /\ \A i \in 1 .. k : fs[i] \in S
  BY <1>2, <1>6, <1>8
<1> HIDE DEF S, k
<1>10. fs \in Seq(S) /\ Len(fs) = k
  BY <1>9, IsSequence
<1>11. ToRecord(dec, c, t) = <<"record", fs>> /\ ToRecord(dec, c, t)[2] = fs
  BY <1>1, <1>7
<1> QED BY <1>6, <1>8, <1>10, <1>11 DEF S, k

LEMMA MapDecodes ==
    ASSUME NEW dec, NEW vals, NEW N, DecodesWell(dec, vals, N), NEW c \in Items[Depth],
           NEW t, t[2] \in N, t[3] \in N
    PROVE  ToMap(dec, c, t) \in ({"map"} \X Seq(vals[t[2]] \X vals[t[3]])) \cup {Fail}
<1>1. SUFFICES ASSUME c[1] = "map" PROVE ToMap(dec, c, t) \in ({"map"} \X Seq(vals[t[2]] \X vals[t[3]])) \cup {Fail}
  BY DEF ToMap
<1> DEFINE vs == [i \in DOMAIN c[2] |-> Both(dec[t[2]][c[2][i][1]], dec[t[3]][c[2][i][2]])]
<1>2. ToMap(dec, c, t) = All("map", vs)
  BY <1>1 DEF ToMap
<1>3. c[2] \in Seq(Items[Depth] \X Items[Depth])
  BY <1>1, MapParts
<1>4. DOMAIN c[2] = 1 .. Len(c[2]) /\ Len(c[2]) \in Nat
  BY <1>3
<1>5. \A i \in 1 .. Len(c[2]) : c[2][i][1] \in Items[Depth] /\ c[2][i][2] \in Items[Depth]
  BY <1>3
<1>6. \A i \in 1 .. Len(c[2]) : vs[i] = Both(dec[t[2]][c[2][i][1]], dec[t[3]][c[2][i][2]])
  BY <1>4
<1>7. vs = [i \in 1 .. Len(c[2]) |-> vs[i]]
  BY <1>4
<1> HIDE DEF vs
<1>8. ASSUME NEW i \in 1 .. Len(c[2]) PROVE vs[i] \in (vals[t[2]] \X vals[t[3]]) \cup {Fail}
  <2> DEFINE k == dec[t[2]][c[2][i][1]]
  <2> DEFINE v == dec[t[3]][c[2][i][2]]
  <2>1. k \in vals[t[2]] \cup {Fail} /\ v \in vals[t[3]] \cup {Fail}
    BY <1>5 DEF DecodesWell
  <2>2. vs[i] = Both(k, v)
    BY <1>6
  <2> HIDE DEF k, v
  <2> QED BY <2>1, <2>2 DEF Both
<1> DEFINE S == vals[t[2]] \X vals[t[3]]
<1>9. \A i \in 1 .. Len(c[2]) : vs[i] \in S \cup {Fail}
  BY <1>8
<1> HIDE DEF S
<1>10. All("map", vs) \in ({"map"} \X Seq(S)) \cup {Fail}
  BY <1>4, <1>7, <1>9, AllOfThem
<1> QED BY <1>2, <1>10 DEF S

LEMMA VariantDecodes ==
    ASSUME NEW dec, NEW vals, NEW N, DecodesWell(dec, vals, N), NEW c \in Items[Depth],
           NEW t, t[2] \in Seq(Texts \X (N \cup {Unit})), ToVariant(dec, c, t) # Fail
    PROVE  \E i \in DOMAIN t[2] : \E p \in Payloads(vals, t[2][i][2]) :
              ToVariant(dec, c, t) = <<"variant", t[2][i][1], p>>
<1>1. c[1] = "map" /\ c[2] # <<>> /\ Cases(c, t) # {}
  BY DEF ToVariant
<1>2. c[2] \in Seq(Items[Depth] \X Items[Depth])
  BY <1>1, MapParts
<1>3. 1 \in DOMAIN c[2] /\ c[2][1][2] \in Items[Depth]
  BY <1>1, <1>2
<1>4. DOMAIN t[2] = 1 .. Len(t[2]) /\ Len(t[2]) \in Nat /\ Cases(c, t) \in SUBSET (1 .. Len(t[2]))
  BY DEF Cases
<1> DEFINE i == First(Cases(c, t))
<1>5. i \in 1 .. Len(t[2])
  BY <1>1, <1>4, FirstIndex
<1> DEFINE p == ToPayload(dec, c[2][1][2], t[2][i][2])
<1>6. t[2][i][2] \in N \cup {Unit}
  BY <1>5
<1>7. p \in Payloads(vals, t[2][i][2]) \cup {Fail}
  BY <1>3, <1>6, PayloadDecodes
<1>8. ToVariant(dec, c, t) = Around("variant", t[2][i][1], p)
  BY <1>1 DEF ToVariant
<1> HIDE DEF p, i
<1>9. ToVariant(dec, c, t) = <<"variant", t[2][i][1], p>> /\ p # Fail
  BY <1>8 DEF Around
<1> QED BY <1>4, <1>5, <1>7, <1>9

LEMMA ResultDecodes ==
    ASSUME NEW dec, NEW vals, NEW N, DecodesWell(dec, vals, N), NEW c \in Items[Depth],
           NEW t, t[2] \in N \cup {Unit}, t[3] \in N \cup {Unit}
    PROVE  ToResult(dec, c, t) \in ({"result"} \X {"ok"} \X Payloads(vals, t[2]))
                              \cup ({"result"} \X {"err"} \X Payloads(vals, t[3])) \cup {Fail}
<1>1. CASE c[1] = "map" /\ MapHas(c, "ok")
  <2> DEFINE p == ToPayload(dec, MapGet(c, "ok"), t[2])
  <2>1. p \in Payloads(vals, t[2]) \cup {Fail}
    BY <1>1, MapGetIsItem, PayloadDecodes
  <2>2. ToResult(dec, c, t) = Around("result", "ok", p)
    BY <1>1 DEF ToResult
  <2> HIDE DEF p
  <2> QED BY <2>1, <2>2 DEF Around
<1>2. CASE c[1] = "map" /\ ~MapHas(c, "ok") /\ MapHas(c, "err")
  <2> DEFINE p == ToPayload(dec, MapGet(c, "err"), t[3])
  <2>1. p \in Payloads(vals, t[3]) \cup {Fail}
    BY <1>2, MapGetIsItem, PayloadDecodes
  <2>2. ToResult(dec, c, t) = Around("result", "err", p)
    BY <1>2 DEF ToResult
  <2> HIDE DEF p
  <2> QED BY <2>1, <2>2 DEF Around
<1>3. CASE ~(c[1] = "map" /\ MapHas(c, "ok")) /\ ~(c[1] = "map" /\ MapHas(c, "err"))
  BY <1>3 DEF ToResult
<1> QED BY <1>1, <1>2, <1>3

LEMMA FlagsDecode ==
    ASSUME NEW c \in Items[Depth]
    PROVE  ToFlags(c) \in ({"flags"} \X Seq(Texts)) \cup {Fail}
<1>1. SUFFICES ASSUME c[1] = "array", \A i \in DOMAIN c[2] : c[2][i][1] = "text"
               PROVE  ToFlags(c) \in {"flags"} \X Seq(Texts)
  BY DEF ToFlags
<1> DEFINE fs == [i \in DOMAIN c[2] |-> c[2][i][2]]
<1>2. c[2] \in Seq(Items[Depth]) /\ DOMAIN c[2] = 1 .. Len(c[2]) /\ Len(c[2]) \in Nat
  BY <1>1, ArrayParts
<1>3. ASSUME NEW i \in 1 .. Len(c[2]) PROVE fs[i] \in Texts
  <2>1. c[2][i] \in MoreItems(Items[Depth]) /\ c[2][i][1] = "text"
    BY <1>1, <1>2, DepthIsClosed
  <2>2. c[2][i] \in {"text"} \X Texts
    BY <2>1, ItemForms
  <2> QED BY <1>2, <2>2
<1>4. fs = [i \in 1 .. Len(c[2]) |-> fs[i]]
  BY <1>2
<1>5. ToFlags(c) = <<"flags", fs>>
  BY <1>1 DEF ToFlags
<1> HIDE DEF fs
<1> QED BY <1>2, <1>3, <1>4, <1>5, IsSequence

\* Whatever the item, the decoder of a type gives one of its values or fails.
LEMMA DecodesOneLevel ==
    ASSUME NEW dec, NEW vals, NEW N \in SUBSET Types, DecodesWell(dec, vals, N),
           NEW c \in Items[Depth], NEW t \in Types, PartTypes(t) \subseteq N,
           NEW V, \A u \in N : vals[u] \subseteq V
    PROVE  ToVal(dec, c, t) \in Fitting(vals, t, V) \cup {Fail}
<1>0. c \in MoreItems(Items[Depth])
  BY DepthIsClosed
<1>1. CASE t[1] \in Scalars
  <2>1. t[1] = "bool" \/ t[1] = "string" \/ t[1] = "own" \/ t[1] \in DOMAIN Ranges
    BY <1>1 DEF Scalars
  <2>2. DOMAIN Ranges \subseteq {"s8", "u8", "s16", "u16", "s32", "u32", "s64", "u64"}
    BY CborAssumption
  <2>3. c[1] = "bool" => c \in {"bool"} \X BOOLEAN
    BY <1>0, ItemForms
  <2>4. c[1] = "text" => c \in {"text"} \X Texts
    BY <1>0, ItemForms
  <2>5. CASE t[1] = "bool"
    BY <2>2, <2>3, <2>5 DEF ToVal, Fitting
  <2>6. CASE t[1] = "string"
    BY <2>2, <2>4, <2>6 DEF ToVal, Fitting
  <2>7. CASE t[1] = "own"
    BY <2>2, <2>7 DEF ToVal, Fitting
  <2>8. CASE t[1] \in DOMAIN Ranges
    <3>1. ToVal(dec, c, t) = ToInt(c, t) /\ Fitting(vals, t, V) = {t[1]} \X Ranges[t[1]]
      BY <2>2, <2>8 DEF ToVal, Fitting
    <3> QED BY <3>1 DEF ToInt
  <2> QED BY <2>1, <2>5, <2>6, <2>7, <2>8
<1>2. DOMAIN Ranges \subseteq {"s8", "u8", "s16", "u16", "s32", "u32", "s64", "u64"}
  BY CborAssumption
<1>3. CASE t[1] = "list"
  <2>1. t[2] \in N
    BY <1>3, TypeForms, UnitIsNoType DEF PartTypes
  <2>2. ToVal(dec, c, t) = ToList(dec, c, t) /\ Fitting(vals, t, V) = {"list"} \X Seq(vals[t[2]])
    BY <1>2, <1>3 DEF ToVal, Fitting
  <2> QED BY <2>1, <2>2, ListDecodes
<1>4. CASE t[1] = "tuple"
  <2>1. t[2] \in Seq(Types) /\ RangeOf(t[2]) \subseteq N
    BY <1>4, TypeForms, UnitIsNoType DEF PartTypes, RangeOf
  <2>2. t[2] \in Seq(N)
    BY <2>1 DEF RangeOf
  <2>3. ToVal(dec, c, t) = ToTuple(dec, "tuple", c, t[2])
    BY <1>2, <1>4 DEF ToVal
  <2>4. c[1] = "array" => c[2] \in Seq(Items[Depth])
    BY ArrayParts
  <2>5. SUFFICES ASSUME ToTuple(dec, "tuple", c, t[2]) # Fail
                 PROVE  ToVal(dec, c, t) \in Fitting(vals, t, V)
    BY <2>3
  <2> DEFINE vs == ToTuple(dec, "tuple", c, t[2])[2]
  <2>6. /\ ToTuple(dec, "tuple", c, t[2]) = <<"tuple", vs>>
        /\ vs \in Seq(V) /\ Len(vs) = Len(t[2])
        /\ \A i \in DOMAIN t[2] : vs[i] \in vals[t[2][i]]
    BY <2>2, <2>4, <2>5, TupleDecodes
  <2> HIDE DEF vs
  <2>7. DOMAIN vs = DOMAIN t[2]
    BY <2>1, <2>6
  <2>8. Fitting(vals, t, V) =
          {"tuple"} \X {ws \in Seq(V) : Len(ws) = Len(t[2]) /\ \A i \in DOMAIN ws : ws[i] \in vals[t[2][i]]}
    BY <1>2, <1>4 DEF Fitting
  <2> QED BY <2>3, <2>6, <2>7, <2>8
<1>5. CASE t[1] = "record"
  <2>1. t[2] \in Seq(Texts \X Types) /\ \A i \in DOMAIN t[2] : t[2][i][2] \in N
    BY <1>5, TypeForms, UnitIsNoType DEF PartTypes
  <2>2. t[2] \in Seq(Texts \X N)
    BY <2>1
  <2>3. ToVal(dec, c, t) = ToRecord(dec, c, t)
    BY <1>2, <1>5 DEF ToVal
  <2>4. SUFFICES ASSUME ToRecord(dec, c, t) # Fail PROVE ToVal(dec, c, t) \in Fitting(vals, t, V)
    BY <2>3
  <2> DEFINE fs == ToRecord(dec, c, t)[2]
  <2>5. /\ ToRecord(dec, c, t) = <<"record", fs>>
        /\ fs \in Seq(Texts \X V) /\ Len(fs) = Len(t[2])
        /\ \A i \in DOMAIN fs : fs[i][1] = t[2][i][1] /\ fs[i][2] \in vals[t[2][i][2]]
    BY <2>2, <2>4, RecordDecodes
  <2> HIDE DEF fs
  <2>6. Fitting(vals, t, V) =
          {"record"} \X {gs \in Seq(Texts \X V) :
             Len(gs) = Len(t[2]) /\ \A i \in DOMAIN gs : gs[i][1] = t[2][i][1] /\ gs[i][2] \in vals[t[2][i][2]]}
    BY <1>2, <1>5 DEF Fitting
  <2> QED BY <2>3, <2>5, <2>6
<1>6. CASE t[1] = "option"
  <2>1. t[2] \in N
    BY <1>6, TypeForms, UnitIsNoType DEF PartTypes
  <2>2. ToVal(dec, c, t) = ToOption(dec, c, t) /\ Fitting(vals, t, V) = {"option"} \X (vals[t[2]] \cup {Unit})
    BY <1>2, <1>6 DEF ToVal, Fitting
  <2>3. dec[t[2]][c] \in vals[t[2]] \cup {Fail}
    BY <2>1 DEF DecodesWell
  <2> QED BY <2>2, <2>3 DEF ToOption
<1>7. CASE t[1] = "result"
  <2>1. t[2] \in N \cup {Unit} /\ t[3] \in N \cup {Unit}
    BY <1>7, TypeForms DEF PartTypes
  <2>2. /\ ToVal(dec, c, t) = ToResult(dec, c, t)
        /\ Fitting(vals, t, V) = ({"result"} \X {"ok"} \X Payloads(vals, t[2]))
                            \cup ({"result"} \X {"err"} \X Payloads(vals, t[3]))
    BY <1>2, <1>7 DEF ToVal, Fitting
  <2> QED BY <2>1, <2>2, ResultDecodes
<1>8. CASE t[1] = "variant"
  <2>1. t[2] \in Seq(Texts \X (Types \cup {Unit})) /\ \A i \in DOMAIN t[2] : t[2][i][2] \in N \cup {Unit}
    BY <1>8, TypeForms DEF PartTypes
  <2>2. t[2] \in Seq(Texts \X (N \cup {Unit}))
    BY <2>1
  <2>3. ToVal(dec, c, t) = ToVariant(dec, c, t)
    BY <1>2, <1>8 DEF ToVal
  <2>4. SUFFICES ASSUME ToVariant(dec, c, t) # Fail PROVE ToVal(dec, c, t) \in Fitting(vals, t, V)
    BY <2>3
  <2>5. PICK i \in DOMAIN t[2] : \E p \in Payloads(vals, t[2][i][2]) :
               ToVariant(dec, c, t) = <<"variant", t[2][i][1], p>>
    BY <2>2, <2>4, VariantDecodes
  <2>6. PICK p \in Payloads(vals, t[2][i][2]) : ToVariant(dec, c, t) = <<"variant", t[2][i][1], p>>
    BY <2>5
  <2>7. t[2][i][1] \in Texts /\ p \in V \cup {Unit}
    BY <2>2, <2>6 DEF Payloads
  <2>8. Fitting(vals, t, V) = {v \in {"variant"} \X Texts \X (V \cup {Unit}) :
           \E j \in DOMAIN t[2] : v[2] = t[2][j][1] /\ v[3] \in Payloads(vals, t[2][j][2])}
    BY <1>2, <1>8 DEF Fitting
  <2> QED BY <2>3, <2>6, <2>7, <2>8
<1>9. CASE t[1] = "enum"
  <2>1. c[1] = "text" => c \in {"text"} \X Texts
    BY <1>0, ItemForms
  <2> QED BY <1>2, <1>9, <2>1 DEF ToVal, Fitting
<1>10. CASE t[1] = "flags"
  <2>1. ToVal(dec, c, t) = ToFlags(c) /\ Fitting(vals, t, V) = {"flags"} \X Seq(Texts)
    BY <1>2, <1>10 DEF ToVal, Fitting
  <2> QED BY <2>1, FlagsDecode
<1>11. CASE t[1] = "map"
  <2>1. t[2] \in N /\ t[3] \in N
    BY <1>11, TypeForms, UnitIsNoType DEF PartTypes
  <2>2. ToVal(dec, c, t) = ToMap(dec, c, t) /\ Fitting(vals, t, V) = {"map"} \X Seq(vals[t[2]] \X vals[t[3]])
    BY <1>2, <1>11 DEF ToVal, Fitting
  <2> QED BY <2>1, <2>2, MapDecodes
<1> QED BY <1>1, <1>3, <1>4, <1>5, <1>6, <1>7, <1>8, <1>9, <1>10, <1>11, TypeForms DEF Tags

-----------------------------------------------------------------------------

\* The values of a type, and what they are made of.
LEMMA FittingForms ==
    ASSUME NEW vals, NEW V, NEW t \in Types, NEW v \in Fitting(vals, t, V)
    PROVE  /\ v[1] = t[1]
           /\ t[1] = "bool" => v \in {"bool"} \X BOOLEAN
           /\ t[1] \in DOMAIN Ranges => v \in {t[1]} \X Ranges[t[1]]
           /\ t[1] = "string" => v \in {"string"} \X Texts
           /\ t[1] = "enum" => v \in {"enum"} \X RangeOf(t[2])
           /\ t[1] = "flags" => v \in {"flags"} \X Seq(Texts)
           /\ t[1] = "own" => v \in {"own"} \X Nat
           /\ t[1] = "list" => v \in {"list"} \X Seq(vals[t[2]])
           /\ t[1] = "tuple" => v \in {"tuple"} \X Seq(V)
           /\ t[1] = "record" => v \in {"record"} \X Seq(Texts \X V)
           /\ t[1] = "map" => v \in {"map"} \X Seq(vals[t[2]] \X vals[t[3]])
           /\ t[1] = "option" => v \in {"option"} \X (vals[t[2]] \cup {Unit})
           /\ t[1] = "result" => v \in ({"result"} \X {"ok"} \X Payloads(vals, t[2]))
                                  \cup ({"result"} \X {"err"} \X Payloads(vals, t[3]))
           /\ t[1] = "variant" => v \in {"variant"} \X Texts \X (V \cup {Unit})
<1>1. DOMAIN Ranges \subseteq {"s8", "u8", "s16", "u16", "s32", "u32", "s64", "u64"}
  BY CborAssumption
<1>2. t[1] \in Tags
  BY TypeForms
<1>3. CASE t[1] \in DOMAIN Ranges
  BY <1>1, <1>3 DEF Fitting
<1>4. CASE t[1] \in {"bool", "string", "enum", "flags", "own", "list"}
  BY <1>1, <1>4 DEF Fitting
<1>5. CASE t[1] = "tuple"
  BY <1>1, <1>5 DEF Fitting
<1>6. CASE t[1] = "record"
  BY <1>1, <1>6 DEF Fitting
<1>7. CASE t[1] \in {"map", "option"}
  BY <1>1, <1>7 DEF Fitting
<1>8. CASE t[1] = "result"
  BY <1>1, <1>8 DEF Fitting
<1>9. CASE t[1] = "variant"
  BY <1>1, <1>9 DEF Fitting
<1> QED BY <1>2, <1>3, <1>4, <1>5, <1>6, <1>7, <1>8, <1>9 DEF Tags, Scalars

LEMMA FittingParts ==
    ASSUME NEW vals, NEW V, NEW t \in Types, NEW v \in Fitting(vals, t, V)
    PROVE  /\ t[1] \in {"tuple", "record"} => Len(v[2]) = Len(t[2])
           /\ t[1] = "tuple" => \A i \in DOMAIN v[2] : v[2][i] \in vals[t[2][i]]
           /\ t[1] = "record" =>
                 \A i \in DOMAIN v[2] : v[2][i][1] = t[2][i][1] /\ v[2][i][2] \in vals[t[2][i][2]]
           /\ t[1] = "variant" =>
                 \E i \in DOMAIN t[2] : v[2] = t[2][i][1] /\ v[3] \in Payloads(vals, t[2][i][2])
<1>1. DOMAIN Ranges \subseteq {"s8", "u8", "s16", "u16", "s32", "u32", "s64", "u64"}
  BY CborAssumption
<1>2. CASE t[1] = "tuple"
  BY <1>1, <1>2 DEF Fitting
<1>3. CASE t[1] = "record"
  BY <1>1, <1>3 DEF Fitting
<1>4. CASE t[1] = "variant"
  BY <1>1, <1>4 DEF Fitting
<1> QED BY <1>2, <1>3, <1>4

LEMMA FittingAreValues ==
    ASSUME NEW vals, NEW V, NEW t \in Types, \A u \in PartTypes(t) : vals[u] \subseteq V
    PROVE  Fitting(vals, t, V) \subseteq MoreValues(V)
<1> SUFFICES ASSUME NEW v \in Fitting(vals, t, V) PROVE v \in MoreValues(V)
  OBVIOUS
<1>0. DOMAIN Ranges \subseteq {"s8", "u8", "s16", "u16", "s32", "u32", "s64", "u64"}
  BY CborAssumption
<1>1. t[1] \in Tags
  BY TypeForms
<1>2. CASE t[1] \in DOMAIN Ranges
  <2>1. v \in {t[1]} \X Ranges[t[1]]
    BY <1>2, FittingForms
  <2>2. Ranges[t[1]] \subseteq Int
    BY <1>2, CborAssumption
  <2> QED BY <1>2, <2>1, <2>2 DEF MoreValues
<1>3. CASE t[1] \in {"bool", "string", "own", "flags"}
  BY <1>0, <1>3 DEF MoreValues, Fitting
<1>4. CASE t[1] = "enum"
  <2>1. t[2] \in Seq(Texts) /\ v \in {"enum"} \X RangeOf(t[2])
    BY <1>4, FittingForms, TypeForms
  <2> QED BY <2>1 DEF MoreValues, RangeOf
<1>5. CASE t[1] = "list"
  <2>1. v \in {"list"} \X Seq(vals[t[2]])
    BY <1>5, FittingForms
  <2>2. vals[t[2]] \subseteq V
    BY <1>5, TypeForms, UnitIsNoType DEF PartTypes
  <2>3. v \in {"list", "tuple"} \X Seq(V)
    BY <2>1, <2>2, SeqGrows
  <2> QED BY <2>3 DEF MoreValues
<1>6. CASE t[1] = "tuple"
  <2>1. v \in {"list", "tuple"} \X Seq(V)
    BY <1>0, <1>6 DEF Fitting
  <2> QED BY <2>1 DEF MoreValues
<1>7. CASE t[1] = "record"
  <2>1. v \in {"record"} \X Seq(Texts \X V)
    BY <1>0, <1>7 DEF Fitting
  <2> QED BY <2>1 DEF MoreValues
<1>8. CASE t[1] = "map"
  <2>1. v \in {"map"} \X Seq(vals[t[2]] \X vals[t[3]])
    BY <1>8, FittingForms
  <2>2. vals[t[2]] \X vals[t[3]] \subseteq V \X V
    BY <1>8, TypeForms, UnitIsNoType DEF PartTypes
  <2>3. v \in {"map"} \X Seq(V \X V)
    BY <2>1, <2>2, SeqGrows
  <2> QED BY <2>3 DEF MoreValues
<1>9. CASE t[1] = "option"
  <2>1. v \in {"option"} \X (vals[t[2]] \cup {Unit})
    BY <1>9, FittingForms
  <2>2. vals[t[2]] \subseteq V
    BY <1>9, TypeForms, UnitIsNoType DEF PartTypes
  <2> QED BY <2>1, <2>2 DEF MoreValues
<1>10. CASE t[1] = "result"
  <2>1. v \in ({"result"} \X {"ok"} \X Payloads(vals, t[2])) \cup ({"result"} \X {"err"} \X Payloads(vals, t[3]))
    BY <1>10, FittingForms
  <2>2. t[2] \in Types \cup {Unit} /\ t[3] \in Types \cup {Unit}
    BY <1>10, TypeForms
  <2>3. \A u \in {t[2], t[3]} : Payloads(vals, u) \subseteq V \cup {Unit}
    BY <1>10, <2>2 DEF PartTypes, Payloads
  <2>4. {"ok", "err"} \subseteq Texts
    BY CborAssumption
  <2>5. v \in {"result", "variant"} \X Texts \X (V \cup {Unit})
    BY <2>1, <2>3, <2>4
  <2> QED BY <2>5 DEF MoreValues
<1>11. CASE t[1] = "variant"
  <2>1. v \in {"result", "variant"} \X Texts \X (V \cup {Unit})
    BY <1>0, <1>11 DEF Fitting
  <2> QED BY <2>1 DEF MoreValues
<1> QED BY <1>1, <1>2, <1>3, <1>4, <1>5, <1>6, <1>7, <1>8, <1>9, <1>10, <1>11 DEF Tags, Scalars

LEMMA PartsAreTypes == \A t \in Types : PartTypes(t) \subseteq Types
<1> SUFFICES ASSUME NEW t \in Types PROVE PartTypes(t) \subseteq Types
  OBVIOUS
<1>1. CASE t[1] \in {"list", "option"}
  BY <1>1, TypeForms DEF PartTypes
<1>2. CASE t[1] = "tuple"
  BY <1>2, TypeForms DEF PartTypes, RangeOf
<1>3. CASE t[1] \in {"record", "variant"}
  BY <1>3, TypeForms DEF PartTypes
<1>4. CASE t[1] \in {"result", "map"}
  BY <1>4, TypeForms DEF PartTypes
<1>5. CASE t[1] \notin {"list", "option", "tuple", "record", "variant", "result", "map"}
  BY <1>5 DEF PartTypes
<1> QED BY <1>1, <1>2, <1>3, <1>4, <1>5

\* At each level the values of the types are values.
LEMMA TypedAreValues == \A n \in Nat : \A t \in Types : ValuesOf[n][t] \subseteq Values[n]
<1> DEFINE S == {n \in Nat : \A t \in Types : ValuesOf[n][t] \subseteq Values[n]}
<1>1. 0 \in S
  BY ValuesOfEquation
<1>2. ASSUME NEW n \in Nat, n \in S PROVE n + 1 \in S
  <2>1. ASSUME NEW t \in Types PROVE ValuesOf[n + 1][t] \subseteq Values[n + 1]
    <3>1. ValuesOf[n + 1][t] = Fitting(ValuesOf[n], t, Values[n]) /\ Values[n + 1] = MoreValues(Values[n])
      BY ValuesOfEquation, ValuesEquation
    <3>2. \A u \in PartTypes(t) : ValuesOf[n][u] \subseteq Values[n]
      BY <1>2, PartsAreTypes
    <3> QED BY <3>1, <3>2, FittingAreValues
  <2> QED BY <2>1
<1> HIDE DEF S
<1>3. \A n \in Nat : n \in S
  BY <1>1, <1>2, ItemsRec!Induction
<1> QED BY <1>3 DEF S

\* Every item that a decoder accepts becomes a value of its type.
LEMMA DecodedFits ==
    \A n \in Nat : \A t \in Nesting[n] : \A c \in Items[Depth] :
        t \in Types /\ CborToVal[n][t][c] \in ValuesOf[n][t] \cup {Fail}
<1> DEFINE Fits(n) == \A t \in Nesting[n] : \A c \in Items[Depth] :
                          CborToVal[n][t][c] \in ValuesOf[n][t] \cup {Fail}
<1> DEFINE S == {n \in Nat : Nesting[n] \subseteq Types /\ Fits(n)}
<1>1. 0 \in S
  BY NestingEquation
<1>2. ASSUME NEW n \in Nat, n \in S PROVE n + 1 \in S
  <2>1. Nesting[n] \subseteq Types /\ Fits(n)
    BY <1>2
  <2>2. Nesting[n + 1] = {t \in Types : PartTypes(t) \subseteq Nesting[n]}
    BY NestingEquation
  <2>3. ASSUME <<"u8">> \in Nesting[n] PROVE {"u8"} \X Ranges["u8"] \subseteq ValuesOf[n][<<"u8">>]
    <3>1. n # 0
      BY <2>3, NestingEquation
    <3>2. n - 1 \in Nat /\ (n - 1) + 1 = n /\ <<"u8">> \in Types
      BY <2>1, <2>3, <3>1
    <3>3. ValuesOf[n][<<"u8">>] = Fitting(ValuesOf[n - 1], <<"u8">>, Values[n - 1])
      BY <3>2, ValuesOfEquation
    <3> QED BY <3>3, CborAssumption DEF Fitting
  <2>4. DecodesWell(CborToVal[n], ValuesOf[n], Nesting[n])
    BY <2>1, <2>3 DEF DecodesWell
  <2>5. ASSUME NEW t \in Nesting[n + 1], NEW c \in Items[Depth]
        PROVE  CborToVal[n + 1][t][c] \in ValuesOf[n + 1][t] \cup {Fail}
    <3>1. t \in Types /\ PartTypes(t) \subseteq Nesting[n] /\ Nesting[n] \in SUBSET Types
      BY <2>1, <2>2
    <3>2. \A u \in Nesting[n] : ValuesOf[n][u] \subseteq Values[n]
      BY <2>1, TypedAreValues
    <3>3. ToVal(CborToVal[n], c, t) \in Fitting(ValuesOf[n], t, Values[n]) \cup {Fail}
      BY <2>4, <3>1, <3>2, DecodesOneLevel
    <3>4. CborToVal[n + 1][t][c] = ToVal(CborToVal[n], c, t)
      BY <3>1, DecodersEquation
    <3>5. ValuesOf[n + 1][t] = Fitting(ValuesOf[n], t, Values[n])
      BY <3>1, ValuesOfEquation
    <3> QED BY <3>3, <3>4, <3>5
  <2> QED BY <2>2, <2>5
<1> HIDE DEF S
<1>3. \A n \in Nat : n \in S
  BY <1>1, <1>2, ItemsRec!Induction
<1> QED BY <1>3 DEF S

-----------------------------------------------------------------------------

\* One level of encoding, and of decoding what was encoded.  enc encodes the values vals of
\* the types below to items I, dec decodes them; H are the types whose values may not be
\* encoded, A those whose values may not be recognised.
EncodesWell(enc, vals, I) ==
    /\ MoreItems({}) \subseteq I /\ I \subseteq MoreItems(I)
    /\ \A u \in Types : \A v \in vals[u] :
          /\ v[1] = u[1]
          /\ u = <<"u8">> => v \in {"u8"} \X Ranges["u8"]
          /\ enc[v] \in I \cup {Fail}
          /\ enc[v] = Null => u[1] = "option"
RoundTrips(enc, dec, vals, H, A) ==
    \A u \in Types : \A v \in vals[u] :
        /\ enc[v] = Fail => u \in H
        /\ enc[v] # Fail /\ u \notin A => dec[u][enc[v]] = v

LEMMA FailIsNoValue ==
    ASSUME NEW enc, NEW vals, NEW I, EncodesWell(enc, vals, I), NEW u \in Types, NEW v \in vals[u]
    PROVE  v # Fail /\ v # Unit
<1>1. v[1] \in Tags
  BY TypeForms DEF EncodesWell
<1>2. Fail[1] \notin Tags /\ Unit[1] \notin Tags
  BY CborAssumption DEF Fail, Unit, Tags, Scalars
<1> QED BY <1>1, <1>2

LEMMA ValueReturns ==
    ASSUME NEW enc, NEW dec, NEW vals, NEW I, NEW H, NEW A,
           EncodesWell(enc, vals, I), RoundTrips(enc, dec, vals, H, A),
           NEW u \in Types, NEW v \in vals[u]
    PROVE  /\ enc[v] \in I \cup {Fail} /\ v # Fail
           /\ enc[v] = Fail => u \in H
           /\ enc[v] # Fail /\ u \notin A => dec[u][enc[v]] = v
<1>1. v # Fail
  BY FailIsNoValue
<1>2. enc[v] \in I \cup {Fail}
  BY DEF EncodesWell
<1> QED BY <1>1, <1>2 DEF RoundTrips

LEMMA AllResult ==
    ASSUME NEW tag, NEW k \in Nat, NEW vs, vs = [i \in 1 .. k |-> vs[i]]
    PROVE  \/ All(tag, vs) = Fail /\ \E i \in 1 .. k : vs[i] = Fail
           \/ All(tag, vs) = <<tag, vs>> /\ \A i \in 1 .. k : vs[i] # Fail
<1>1. DOMAIN vs = 1 .. k
  OBVIOUS
<1> QED BY <1>1 DEF All, RangeOf

LEMMA FirstOfOne == ASSUME NEW i \in Int PROVE First({i}) = i
BY DEF First

LEMMA OneEntryMap ==
    ASSUME NEW name, NEW q, NEW c, c = <<"map", <<<<<<"text", name>>, q>>>>>>
    PROVE  /\ c[1] = "map" /\ c[2] # <<>> /\ DOMAIN c[2] = {1}
           /\ c[2][1][1] = <<"text", name>> /\ c[2][1][2] = q
           /\ MapHas(c, name) /\ MapGet(c, name) = q
           /\ \A other : other # name => ~MapHas(c, other)
<1>1. /\ c[1] = "map" /\ c[2] # <<>> /\ DOMAIN c[2] = {1}
      /\ c[2][1] = <<<<"text", name>>, q>>
  OBVIOUS
<1>2. Under(c, name) = {1}
  BY <1>1 DEF Under
<1>3. First({1}) = 1
  BY FirstOfOne
<1>4. ASSUME NEW other, other # name PROVE Under(c, other) = {}
  BY <1>1, <1>4 DEF Under
<1> QED BY <1>1, <1>2, <1>3, <1>4 DEF MapHas, MapGet

IsRow(vs, k) == vs = [i \in 1 .. k |-> vs[i]]
Encoded(enc, vs, k, I) == \A i \in 1 .. k : enc[vs[i]] \in I \cup {Fail}

LEMMA SeqEncodes ==
    ASSUME NEW enc, NEW vs, NEW k \in Nat, IsRow(vs, k),
           NEW I, Encoded(enc, vs, k, I), NEW c, c = FromSeq(enc, vs)
    PROVE  \/ c = Fail /\ \E i \in 1 .. k : enc[vs[i]] = Fail
           \/ /\ c \in {"array"} \X Seq(I) /\ Len(c[2]) = k /\ DOMAIN c[2] = 1 .. k
              /\ \A i \in 1 .. k : c[2][i] = enc[vs[i]] /\ enc[vs[i]] # Fail
<1> DEFINE cs == [i \in 1 .. k |-> enc[vs[i]]]
<1>0. DOMAIN vs = 1 .. k
  BY DEF IsRow
<1>1. c = All("array", cs)
  BY <1>0 DEF FromSeq
<1>2. cs = [i \in 1 .. k |-> cs[i]] /\ \A i \in 1 .. k : cs[i] = enc[vs[i]]
  OBVIOUS
<1> HIDE DEF cs
<1>3. CASE All("array", cs) = Fail /\ \E i \in 1 .. k : cs[i] = Fail
  BY <1>1, <1>2, <1>3
<1>4. CASE All("array", cs) = <<"array", cs>> /\ \A i \in 1 .. k : cs[i] # Fail
  <2>1. \A i \in 1 .. k : cs[i] \in I
    BY <1>2, <1>4 DEF Encoded
  <2>2. cs \in Seq(I) /\ Len(cs) = k /\ DOMAIN cs = 1 .. k
    BY <1>2, <2>1, IsSequence
  <2>3. c = <<"array", cs>> /\ c[2] = cs
    BY <1>1, <1>4
  <2>4. c \in {"array"} \X Seq(I)
    BY <2>2, <2>3
  <2>5. \A i \in 1 .. k : cs[i] = enc[vs[i]] /\ enc[vs[i]] # Fail
    BY <1>2, <1>4
  <2> QED BY <2>2, <2>3, <2>4, <2>5
<1> QED BY <1>2, <1>3, <1>4, AllResult

LEMMA PayloadReturns ==
    ASSUME NEW enc, NEW dec, NEW vals, NEW I, NEW H, NEW A,
           EncodesWell(enc, vals, I), RoundTrips(enc, dec, vals, H, A),
           NEW u \in Types \cup {Unit}, NEW p \in Payloads(vals, u)
    PROVE  /\ p # Fail
           /\ FromPayload(enc, p) \in I \cup {Fail}
           /\ FromPayload(enc, p) = Fail => u \in H /\ u \in Types
           /\ FromPayload(enc, p) # Fail /\ u \notin A => ToPayload(dec, FromPayload(enc, p), u) = p
<1>1. CASE u = Unit
  <2>1. p = Unit /\ Null \in I
    BY <1>1 DEF Payloads, EncodesWell, MoreItems
  <2>2. FromPayload(enc, p) = Null /\ ToPayload(dec, Null, u) = Unit
    BY <1>1, <2>1 DEF FromPayload, ToPayload
  <2>3. Unit # Fail /\ Null # Fail
    BY DEF Unit, Fail, Null
  <2> QED BY <2>1, <2>2, <2>3
<1>2. CASE u # Unit
  <2>1. u \in Types /\ p \in vals[u]
    BY <1>2 DEF Payloads
  <2>2. p # Fail /\ p # Unit
    BY <2>1, FailIsNoValue
  <2>3. FromPayload(enc, p) = enc[p] /\ \A q : ToPayload(dec, q, u) = dec[u][q]
    BY <1>2, <2>2 DEF FromPayload, ToPayload
  <2>4. enc[p] \in I \cup {Fail}
    BY <2>1 DEF EncodesWell
  <2>5. (enc[p] = Fail => u \in H) /\ (enc[p] # Fail /\ u \notin A => dec[u][enc[p]] = p)
    BY <2>1 DEF RoundTrips
  <2> QED BY <2>1, <2>2, <2>3, <2>4, <2>5
<1> QED BY <1>1, <1>2

LEMMA ListReturns ==
    ASSUME NEW enc, NEW dec, NEW vals, NEW I, NEW H, NEW A,
           EncodesWell(enc, vals, I), RoundTrips(enc, dec, vals, H, A),
           NEW t \in Types, t[2] \in Types, NEW v \in {"list"} \X Seq(vals[t[2]]),
           NEW c, c = FromList(enc, v[2])
    PROVE  /\ c \in MoreItems(I) \cup {Fail} /\ c # Null
           /\ c = Fail => t[2] \in H
           /\ c # Fail /\ t[2] \notin A => ToList(dec, c, t) = v
<1> DEFINE vs == v[2]
<1> DEFINE u == t[2]
<1> DEFINE k == Len(vs)
<1>1. v = <<"list", vs>> /\ vs \in Seq(vals[u])
  OBVIOUS
<1>2. k \in Nat /\ DOMAIN vs = 1 .. k /\ vs = [i \in 1 .. k |-> vs[i]] /\ \A i \in 1 .. k : vs[i] \in vals[u]
  BY <1>1
<1>3. CASE vs # <<>> /\ \A i \in DOMAIN vs : vs[i][1] = "u8"
  <2> DEFINE bytes == [i \in DOMAIN vs |-> vs[i][2]]
  <2>1. c = <<"bytes", bytes>>
    BY <1>3 DEF FromList
  <2>2. 1 \in 1 .. k
    BY <1>1, <1>2, <1>3
  <2>3. u[1] = "u8"
    BY <1>2, <1>3, <2>2 DEF EncodesWell
  <2>4. u = <<"u8">>
    BY <2>3, TypeForms, CborAssumption DEF Scalars
  <2>5. \A i \in 1 .. k : vs[i] \in {"u8"} \X Ranges["u8"]
    BY <1>2, <2>4 DEF EncodesWell
  <2>6. bytes = [i \in 1 .. k |-> bytes[i]] /\ \A i \in 1 .. k : bytes[i] = vs[i][2]
    BY <1>2
  <2>7. \A i \in 1 .. k : bytes[i] \in Ranges["u8"] /\ <<"u8", bytes[i]>> = vs[i]
    BY <2>5, <2>6
  <2> HIDE DEF bytes
  <2>8. bytes \in Seq(Ranges["u8"]) /\ DOMAIN bytes = 1 .. k
    BY <1>2, <2>6, <2>7, IsSequence
  <2>9. c \in MoreItems(I) /\ c # Null /\ c # Fail
    BY <2>1, <2>8 DEF MoreItems, Null, Fail
  <2>10. ToList(dec, c, t) = <<"list", [i \in DOMAIN bytes |-> <<"u8", bytes[i]>>]>>
    BY <2>1, <2>4 DEF ToList
  <2>11. [i \in DOMAIN bytes |-> <<"u8", bytes[i]>>] = vs
    BY <1>2, <2>7, <2>8
  <2> QED BY <1>1, <2>9, <2>10, <2>11
<1>4. CASE ~(vs # <<>> /\ \A i \in DOMAIN vs : vs[i][1] = "u8")
  <2>1. c = FromSeq(enc, vs)
    BY <1>4 DEF FromList
  <2>2. \A i \in 1 .. k : /\ enc[vs[i]] \in I \cup {Fail} /\ vs[i] # Fail
                          /\ enc[vs[i]] = Fail => u \in H
                          /\ enc[vs[i]] # Fail /\ u \notin A => dec[u][enc[vs[i]]] = vs[i]
    BY <1>2, FailIsNoValue DEF EncodesWell, RoundTrips
  <2> HIDE DEF vs, u, k
  <2>3. \/ c = Fail /\ \E i \in 1 .. k : enc[vs[i]] = Fail
        \/ /\ c \in {"array"} \X Seq(I) /\ Len(c[2]) = k /\ DOMAIN c[2] = 1 .. k
           /\ \A i \in 1 .. k : c[2][i] = enc[vs[i]] /\ enc[vs[i]] # Fail
    <3>1. k \in Nat /\ IsRow(vs, k)
      BY <1>2 DEF IsRow
    <3>2. Encoded(enc, vs, k, I)
      BY <2>2 DEF Encoded
    <3> QED BY <2>1, <3>1, <3>2, SeqEncodes
  <2>4. CASE c = Fail /\ \E i \in 1 .. k : enc[vs[i]] = Fail
    <3>1. u \in H
      BY <2>2, <2>4
    <3> QED BY <2>4, <3>1 DEF Fail, Null, u
  <2>5. CASE /\ c \in {"array"} \X Seq(I) /\ Len(c[2]) = k /\ DOMAIN c[2] = 1 .. k
             /\ \A i \in 1 .. k : c[2][i] = enc[vs[i]] /\ enc[vs[i]] # Fail
    <3>1. c[1] = "array"
      BY <2>5
    <3>2. c \in MoreItems(I)
      BY <2>5 DEF MoreItems
    <3>3. c # Null /\ c # Fail
      BY <3>1 DEF Null, Fail
    <3>4. ASSUME u \notin A PROVE ToList(dec, c, t) = v
      <4> DEFINE ws == [i \in DOMAIN c[2] |-> dec[[j \in DOMAIN c[2] |-> u][i]][c[2][i]]]
      <4>1. ToList(dec, c, t) = All("list", ws)
        BY <3>1 DEF ToList, ToSeq, u
      <4>2. \A i \in 1 .. k : ws[i] = vs[i]
        BY <2>2, <2>5, <3>4
      <4>3. ws = vs
        BY <1>2, <2>5, <4>2
      <4> HIDE DEF ws
      <4>4. All("list", vs) = <<"list", vs>>
        BY <1>2, <2>2, AllResult
      <4> QED BY <1>1, <4>1, <4>3, <4>4
    <3> QED BY <3>2, <3>3, <3>4 DEF u
  <2> QED BY <2>3, <2>4, <2>5
<1> QED BY <1>3, <1>4

\* k values of k types, and k fields of a record type.
RowOf(vs, types, vals, k) ==
    /\ IsRow(types, k) /\ IsRow(vs, k)
    /\ \A i \in 1 .. k : types[i] \in Types /\ vs[i] \in vals[types[i]]
FieldsOf(fs, t, vals, k) ==
    /\ IsRow(t[2], k) /\ IsRow(fs, k) /\ NamesDiffer(t[2])
    /\ \A i \in 1 .. k : /\ t[2][i] \in Texts \X Types
                         /\ fs[i] \in {t[2][i][1]} \X vals[t[2][i][2]]

RowComesBack(dec, I, H, A, tag, types, vs, c) ==
    /\ c \in MoreItems(I) \cup {Fail} /\ c # Null
    /\ c = Fail => RangeOf(types) \cap H # {}
    /\ c # Fail /\ RangeOf(types) \cap A = {} => ToTuple(dec, tag, c, types) = <<tag, vs>>

LEMMA TupleReturns ==
    ASSUME NEW enc, NEW dec, NEW vals, NEW I, NEW H, NEW A,
           EncodesWell(enc, vals, I), RoundTrips(enc, dec, vals, H, A),
           NEW types, NEW k \in Nat, NEW vs, RowOf(vs, types, vals, k),
           NEW c, c = FromSeq(enc, vs), NEW tag
    PROVE  RowComesBack(dec, I, H, A, tag, types, vs, c)
<1>0. IsRow(types, k) /\ IsRow(vs, k) /\ \A i \in 1 .. k : types[i] \in Types /\ vs[i] \in vals[types[i]]
  BY DEF RowOf
<1>1. /\ DOMAIN types = 1 .. k /\ DOMAIN vs = 1 .. k
      /\ \A i \in 1 .. k : types[i] \in Types /\ types[i] \in RangeOf(types)
  BY <1>0 DEF RangeOf, IsRow
<1>2. \A i \in 1 .. k : /\ enc[vs[i]] \in I \cup {Fail} /\ vs[i] # Fail
                        /\ enc[vs[i]] = Fail => types[i] \in H
                        /\ enc[vs[i]] # Fail /\ types[i] \notin A => dec[types[i]][enc[vs[i]]] = vs[i]
  BY <1>0, FailIsNoValue DEF EncodesWell, RoundTrips
<1>3. \/ c = Fail /\ \E i \in 1 .. k : enc[vs[i]] = Fail
      \/ /\ c \in {"array"} \X Seq(I) /\ Len(c[2]) = k /\ DOMAIN c[2] = 1 .. k
         /\ \A i \in 1 .. k : c[2][i] = enc[vs[i]] /\ enc[vs[i]] # Fail
  <2>1. Encoded(enc, vs, k, I)
    BY <1>2 DEF Encoded
  <2> QED BY <1>0, <2>1, SeqEncodes
<1>4. CASE c = Fail /\ \E i \in 1 .. k : enc[vs[i]] = Fail
  <2>1. RangeOf(types) \cap H # {}
    BY <1>1, <1>2, <1>4
  <2> QED BY <1>4, <2>1 DEF RowComesBack, Fail, Null
<1>5. CASE /\ c \in {"array"} \X Seq(I) /\ Len(c[2]) = k /\ DOMAIN c[2] = 1 .. k
           /\ \A i \in 1 .. k : c[2][i] = enc[vs[i]] /\ enc[vs[i]] # Fail
  <2>1. c[1] = "array"
    BY <1>5
  <2>2. c # Null /\ c # Fail
    BY <2>1 DEF Null, Fail
  <2>3. ASSUME RangeOf(types) \cap A = {} PROVE ToTuple(dec, tag, c, types) = <<tag, vs>>
    <3> DEFINE ws == [i \in DOMAIN c[2] |-> dec[types[i]][c[2][i]]]
    <3>0. Len(types) = k
      BY <1>0, IsSequence DEF IsRow
    <3>1. ToTuple(dec, tag, c, types) = All(tag, ws)
      BY <1>5, <2>1, <3>0 DEF ToTuple, ToSeq
    <3>2. \A i \in 1 .. k : ws[i] = vs[i]
      BY <1>1, <1>2, <1>5, <2>3
    <3>3. vs = [i \in 1 .. k |-> vs[i]]
      BY <1>0 DEF IsRow
    <3>4. ws = vs
      BY <1>1, <1>5, <3>2, <3>3
    <3> HIDE DEF ws
    <3>5. All(tag, vs) = <<tag, vs>>
      BY <1>1, <1>2, <3>3, AllResult
    <3> QED BY <3>1, <3>4, <3>5
  <2>4. c \in MoreItems(I)
    BY <1>5 DEF MoreItems
  <2> QED BY <2>2, <2>3, <2>4 DEF RowComesBack
<1> QED BY <1>3, <1>4, <1>5

LEMMA RecordReturns ==
    ASSUME NEW enc, NEW dec, NEW vals, NEW I, NEW H, NEW A,
           EncodesWell(enc, vals, I), RoundTrips(enc, dec, vals, H, A),
           NEW t, NEW k \in Nat, NEW fs, FieldsOf(fs, t, vals, k),
           NEW c, c = FromRecord(enc, fs)
    PROVE  /\ c \in MoreItems(I) \cup {Fail} /\ c # Null
           /\ c = Fail => \E i \in 1 .. k : t[2][i][2] \in H
           /\ c # Fail /\ (\A i \in 1 .. k : t[2][i][2] \notin A) =>
                 ToRecord(dec, c, t) = <<"record", fs>>
<1> DEFINE name(i) == t[2][i][1]
<1> DEFINE u(i) == t[2][i][2]
<1> DEFINE v(i) == fs[i][2]
<1>1. DOMAIN t[2] = 1 .. k /\ DOMAIN fs = 1 .. k
  BY DEF FieldsOf, IsRow
<1>2. \A i \in 1 .. k : name(i) \in Texts /\ u(i) \in Types /\ fs[i] = <<name(i), v(i)>>
  BY DEF FieldsOf
<1>3. \A i \in 1 .. k : v(i) \in vals[u(i)]
  BY DEF FieldsOf
<1>4. \A i, j \in 1 .. k : name(i) = name(j) => i = j
  BY <1>1 DEF FieldsOf, NamesDiffer
<1>5. \A i \in 1 .. k : /\ enc[v(i)] \in I \cup {Fail} /\ v(i) # Fail
                        /\ enc[v(i)] = Fail => u(i) \in H
                        /\ enc[v(i)] # Fail /\ u(i) \notin A => dec[u(i)][enc[v(i)]] = v(i)
  <2> SUFFICES ASSUME NEW i \in 1 .. k
               PROVE  /\ enc[v(i)] \in I \cup {Fail} /\ v(i) # Fail
                      /\ enc[v(i)] = Fail => u(i) \in H
                      /\ enc[v(i)] # Fail /\ u(i) \notin A => dec[u(i)][enc[v(i)]] = v(i)
    OBVIOUS
  <2>1. u(i) \in Types /\ v(i) \in vals[u(i)]
    BY <1>2, <1>3
  <2> HIDE DEF u, v
  <2> QED BY <2>1, ValueReturns
<1> DEFINE es == [i \in DOMAIN fs |-> Pair(<<"text", fs[i][1]>>, enc[fs[i][2]])]
<1>6. c = All("map", es)
  BY DEF FromRecord
<1>7. es = [i \in 1 .. k |-> es[i]] /\ \A i \in 1 .. k : es[i] = Pair(<<"text", name(i)>>, enc[v(i)])
  <2>1. ASSUME NEW i \in 1 .. k PROVE fs[i][1] = name(i) /\ fs[i][2] = v(i)
    BY <1>2
  <2> QED BY <1>1, <2>1
<1> HIDE DEF es, name, u, v
<1>8. CASE All("map", es) = Fail /\ \E i \in 1 .. k : es[i] = Fail
  <2>1. PICK i \in 1 .. k : es[i] = Fail
    BY <1>8
  <2>2. Pair(<<"text", name(i)>>, enc[v(i)]) = Fail
    BY <1>7, <2>1
  <2>3. enc[v(i)] = Fail
    BY <2>2 DEF Pair, Fail
  <2>4. u(i) \in H
    BY <1>5, <2>3
  <2> QED BY <1>6, <1>8, <2>4 DEF u, Null, Fail
<1>9. CASE All("map", es) = <<"map", es>> /\ \A i \in 1 .. k : es[i] # Fail
  <2>1. \A i \in 1 .. k : es[i] = <<<<"text", name(i)>>, enc[v(i)]>> /\ enc[v(i)] # Fail
    BY <1>7, <1>9 DEF Pair
  <2>2. \A i \in 1 .. k : <<"text", name(i)>> \in I
    BY <1>2 DEF EncodesWell, MoreItems
  <2> DEFINE S == I \X I
  <2>3. ASSUME NEW i \in 1 .. k PROVE es[i] \in S
    <3> DEFINE key == <<"text", name(i)>>
    <3>1. enc[v(i)] \in I /\ key \in I /\ es[i] = <<key, enc[v(i)]>>
      BY <1>5, <2>1, <2>2
    <3> HIDE DEF key
    <3> QED BY <3>1
  <2> HIDE DEF S
  <2>4. es \in Seq(S) /\ DOMAIN es = 1 .. k
    BY <1>7, <2>3, IsSequence
  <2>5. c = <<"map", es>> /\ c[1] = "map" /\ c[2] = es
    BY <1>6, <1>9
  <2>6. c \in MoreItems(I) /\ c # Null /\ c # Fail
    BY <2>4, <2>5 DEF S, MoreItems, Null, Fail
  <2>7. ASSUME \A i \in 1 .. k : u(i) \notin A PROVE ToRecord(dec, c, t) = <<"record", fs>>
    <3>1. ASSUME NEW i \in 1 .. k PROVE MapHas(c, name(i)) /\ MapGet(c, name(i)) = enc[v(i)]
      <4>1. \A j \in 1 .. k : es[j][1] = <<"text", name(i)>> <=> j = i
        <5>1. \A j \in 1 .. k : es[j][1] = <<"text", name(j)>>
          BY <2>1
        <5>2. \A j \in 1 .. k : <<"text", name(j)>> = <<"text", name(i)>> <=> name(j) = name(i)
          OBVIOUS
        <5> QED BY <1>4, <5>1, <5>2
      <4>2. Under(c, name(i)) = {i}
        BY <2>4, <2>5, <4>1 DEF Under
      <4>3. First({i}) = i
        BY FirstOfOne
      <4>4. es[i][2] = enc[v(i)]
        BY <2>1
      <4> QED BY <2>5, <4>2, <4>3, <4>4 DEF MapHas, MapGet
    <3> DEFINE gs == [i \in DOMAIN t[2] |-> Pair(t[2][i][1], dec[t[2][i][2]][MapGet(c, t[2][i][1])])]
    <3>2. ToRecord(dec, c, t) = All("record", gs)
      BY <1>1, <2>5, <3>1 DEF ToRecord, name
    <3>3. \A i \in 1 .. k : gs[i] = Pair(name(i), dec[u(i)][MapGet(c, name(i))])
      BY <1>1 DEF name, u
    <3>4. \A i \in 1 .. k : dec[u(i)][MapGet(c, name(i))] = v(i)
      BY <1>5, <2>1, <2>7, <3>1
    <3>5. \A i \in 1 .. k : gs[i] = fs[i] /\ gs[i] # Fail
      <4>1. \A i \in 1 .. k : gs[i] = Pair(name(i), v(i))
        BY <3>3, <3>4
      <4> HIDE DEF gs
      <4>2. ASSUME NEW i \in 1 .. k PROVE gs[i] = fs[i] /\ gs[i] # Fail
        <5>1. gs[i] = <<name(i), v(i)>>
          BY <1>5, <4>1 DEF Pair
        <5>2. <<name(i), v(i)>> # Fail
          BY DEF Fail
        <5> QED BY <1>2, <5>1, <5>2
      <4> QED BY <4>2
    <3>6. gs = [i \in 1 .. k |-> gs[i]]
      BY <1>1
    <3>7. fs = [i \in 1 .. k |-> fs[i]]
      BY DEF FieldsOf, IsRow
    <3> HIDE DEF gs
    <3>8. gs = fs
      BY <3>5, <3>6, <3>7
    <3>9. All("record", gs) = <<"record", gs>>
      BY <3>5, <3>6, AllResult
    <3> QED BY <3>2, <3>8, <3>9
  <2> QED BY <2>6, <2>7 DEF u
<1> QED BY <1>7, <1>8, <1>9, AllResult

LEMMA MapReturns ==
    ASSUME NEW enc, NEW dec, NEW vals, NEW I, NEW H, NEW A,
           EncodesWell(enc, vals, I), RoundTrips(enc, dec, vals, H, A),
           NEW t, t[2] \in Types, t[3] \in Types, NEW es \in Seq(vals[t[2]] \X vals[t[3]]),
           NEW c, c = FromMap(enc, es)
    PROVE  /\ c \in MoreItems(I) \cup {Fail} /\ c # Null
           /\ c = Fail => {t[2], t[3]} \cap H # {}
           /\ c # Fail /\ {t[2], t[3]} \cap A = {} => ToMap(dec, c, t) = <<"map", es>>
<1> DEFINE k == Len(es)
<1> DEFINE key(i) == es[i][1]
<1> DEFINE v(i) == es[i][2]
<1>1. k \in Nat /\ DOMAIN es = 1 .. k
  OBVIOUS
<1>2. \A i \in 1 .. k : key(i) \in vals[t[2]] /\ v(i) \in vals[t[3]] /\ es[i] = <<key(i), v(i)>>
  OBVIOUS
<1>3. \A i \in 1 .. k : /\ enc[key(i)] \in I \cup {Fail} /\ key(i) # Fail
                        /\ enc[key(i)] = Fail => t[2] \in H
                        /\ enc[key(i)] # Fail /\ t[2] \notin A => dec[t[2]][enc[key(i)]] = key(i)
  <2> SUFFICES ASSUME NEW i \in 1 .. k
               PROVE  /\ enc[key(i)] \in I \cup {Fail} /\ key(i) # Fail
                      /\ enc[key(i)] = Fail => t[2] \in H
                      /\ enc[key(i)] # Fail /\ t[2] \notin A => dec[t[2]][enc[key(i)]] = key(i)
    OBVIOUS
  <2>1. key(i) \in vals[t[2]]
    BY <1>2
  <2> HIDE DEF key
  <2> QED BY <2>1, ValueReturns
<1>4. \A i \in 1 .. k : /\ enc[v(i)] \in I \cup {Fail} /\ v(i) # Fail
                        /\ enc[v(i)] = Fail => t[3] \in H
                        /\ enc[v(i)] # Fail /\ t[3] \notin A => dec[t[3]][enc[v(i)]] = v(i)
  <2> SUFFICES ASSUME NEW i \in 1 .. k
               PROVE  /\ enc[v(i)] \in I \cup {Fail} /\ v(i) # Fail
                      /\ enc[v(i)] = Fail => t[3] \in H
                      /\ enc[v(i)] # Fail /\ t[3] \notin A => dec[t[3]][enc[v(i)]] = v(i)
    OBVIOUS
  <2>1. v(i) \in vals[t[3]]
    BY <1>2
  <2> HIDE DEF v
  <2> QED BY <2>1, ValueReturns
<1> DEFINE ds == [i \in DOMAIN es |-> Both(enc[es[i][1]], enc[es[i][2]])]
<1>5. c = All("map", ds)
  BY DEF FromMap
<1>6. ds = [i \in 1 .. k |-> ds[i]] /\ \A i \in 1 .. k : ds[i] = Both(enc[key(i)], enc[v(i)])
  BY <1>1
<1>7. es = [i \in 1 .. k |-> es[i]]
  BY <1>1
<1> HIDE DEF ds, key, v, k
<1>8. CASE All("map", ds) = Fail /\ \E i \in 1 .. k : ds[i] = Fail
  <2>1. PICK i \in 1 .. k : ds[i] = Fail
    BY <1>8
  <2>2. Both(enc[key(i)], enc[v(i)]) = Fail
    BY <1>6, <2>1
  <2>3. enc[key(i)] = Fail \/ enc[v(i)] = Fail
    BY <2>2 DEF Both, Fail
  <2>4. t[2] \in H \/ t[3] \in H
    BY <1>3, <1>4, <2>3
  <2> QED BY <1>5, <1>8, <2>4 DEF Null, Fail
<1>9. CASE All("map", ds) = <<"map", ds>> /\ \A i \in 1 .. k : ds[i] # Fail
  <2>1. \A i \in 1 .. k : ds[i] = <<enc[key(i)], enc[v(i)]>> /\ enc[key(i)] # Fail /\ enc[v(i)] # Fail
    BY <1>6, <1>9 DEF Both
  <2> DEFINE S == I \X I
  <2>2. ASSUME NEW i \in 1 .. k PROVE ds[i] \in S
    <3>1. enc[key(i)] \in I /\ enc[v(i)] \in I /\ ds[i] = <<enc[key(i)], enc[v(i)]>>
      BY <1>3, <1>4, <2>1
    <3> QED BY <3>1
  <2> HIDE DEF S
  <2>3. ds \in Seq(S) /\ DOMAIN ds = 1 .. k
    BY <1>1, <1>6, <2>2, IsSequence
  <2>4. c = <<"map", ds>> /\ c[1] = "map" /\ c[2] = ds
    BY <1>5, <1>9
  <2>5. c \in MoreItems(I) /\ c # Null /\ c # Fail
    BY <2>3, <2>4 DEF S, MoreItems, Null, Fail
  <2>6. ASSUME t[2] \notin A, t[3] \notin A PROVE ToMap(dec, c, t) = <<"map", es>>
    <3> DEFINE gs == [i \in DOMAIN ds |-> Both(dec[t[2]][ds[i][1]], dec[t[3]][ds[i][2]])]
    <3>1. ToMap(dec, c, t) = All("map", gs)
      BY <2>4 DEF ToMap
    <3>2. \A i \in 1 .. k : gs[i] = Both(dec[t[2]][ds[i][1]], dec[t[3]][ds[i][2]])
      BY <2>3
    <3>3. gs = [i \in 1 .. k |-> gs[i]]
      BY <2>3
    <3> HIDE DEF gs
    <3>4. ASSUME NEW i \in 1 .. k PROVE gs[i] = es[i] /\ gs[i] # Fail
      <4>1. ds[i][1] = enc[key(i)] /\ ds[i][2] = enc[v(i)] /\ enc[key(i)] # Fail /\ enc[v(i)] # Fail
        BY <2>1
      <4>2. dec[t[2]][ds[i][1]] = key(i) /\ dec[t[3]][ds[i][2]] = v(i)
        BY <1>3, <1>4, <2>6, <4>1
      <4>3. gs[i] = Both(key(i), v(i)) /\ key(i) # Fail /\ v(i) # Fail
        BY <1>3, <1>4, <3>2, <4>2
      <4>4. gs[i] = <<key(i), v(i)>>
        BY <4>3 DEF Both
      <4>5. <<key(i), v(i)>> # Fail
        BY DEF Fail
      <4> QED BY <1>2, <4>4, <4>5
    <3>5. gs = es
      BY <1>7, <3>3, <3>4
    <3>6. All("map", gs) = <<"map", gs>>
      BY <1>1, <3>3, <3>4, AllResult
    <3> QED BY <3>1, <3>5, <3>6
  <2> QED BY <2>5, <2>6
<1> QED BY <1>1, <1>6, <1>8, <1>9, AllResult

LEMMA OptionReturns ==
    ASSUME NEW enc, NEW dec, NEW vals, NEW I, NEW H, NEW A,
           EncodesWell(enc, vals, I), RoundTrips(enc, dec, vals, H, A),
           NEW t, t[2] \in Types, NEW w \in vals[t[2]] \cup {Unit},
           NEW c, c = FromPayload(enc, w)
    PROVE  /\ c \in MoreItems(I) \cup {Fail}
           /\ c = Fail => t[2] \in H
           /\ c # Fail /\ t[2] \notin A /\ t[2][1] # "option" => ToOption(dec, c, t) = <<"option", w>>
<1>1. CASE w = Unit
  <2>1. c = Null /\ Null # Fail /\ Null \in MoreItems(I)
    BY <1>1 DEF FromPayload, Null, Fail, MoreItems
  <2> QED BY <1>1, <2>1 DEF ToOption
<1>2. CASE w # Unit
  <2>1. w \in vals[t[2]] /\ c = enc[w]
    BY <1>2 DEF FromPayload
  <2>2. /\ enc[w] \in I \cup {Fail} /\ w # Fail
        /\ enc[w] = Fail => t[2] \in H
        /\ enc[w] # Fail /\ t[2] \notin A => dec[t[2]][enc[w]] = w
    BY <2>1, ValueReturns
  <2>3. enc[w] = Null => t[2][1] = "option"
    BY <2>1 DEF EncodesWell
  <2>4. I \subseteq MoreItems(I)
    BY DEF EncodesWell
  <2> QED BY <2>1, <2>2, <2>3, <2>4 DEF ToOption
<1> QED BY <1>1, <1>2

LEMMA EntryIsItem ==
    ASSUME NEW enc, NEW vals, NEW I, EncodesWell(enc, vals, I), NEW name \in Texts, NEW q \in I
    PROVE  <<"map", <<<<<<"text", name>>, q>>>>>> \in MoreItems(I)
<1> DEFINE key == <<"text", name>>
<1>1. key \in I
  BY DEF EncodesWell, MoreItems
<1> HIDE DEF key
<1>2. <<<<key, q>>>> \in Seq(I \X I)
  BY <1>1
<1>3. <<"map", <<<<key, q>>>>>> \in {"map"} \X Seq(I \X I)
  BY <1>2
<1>4. <<"map", <<<<key, q>>>>>> \in MoreItems(I)
  BY <1>3 DEF MoreItems
<1> QED BY <1>4 DEF key

LEMMA ResultReturns ==
    ASSUME NEW enc, NEW dec, NEW vals, NEW I, NEW H, NEW A,
           EncodesWell(enc, vals, I), RoundTrips(enc, dec, vals, H, A),
           NEW t, t[2] \in Types \cup {Unit}, t[3] \in Types \cup {Unit},
           NEW name, NEW u, (name = "ok" /\ u = t[2]) \/ (name = "err" /\ u = t[3]),
           NEW p \in Payloads(vals, u), NEW c, c = OneEntry(name, FromPayload(enc, p))
    PROVE  /\ c \in MoreItems(I) \cup {Fail} /\ c # Null
           /\ c = Fail => u \in H /\ u \in Types
           /\ c # Fail /\ u \notin A => ToResult(dec, c, t) = <<"result", name, p>>
<1> DEFINE q == FromPayload(enc, p)
<1>1. u \in Types \cup {Unit} /\ name \in Texts
  BY CborAssumption
<1>2. /\ p # Fail /\ q \in I \cup {Fail}
      /\ q = Fail => u \in H /\ u \in Types
      /\ q # Fail /\ u \notin A => ToPayload(dec, q, u) = p
  BY <1>1, PayloadReturns
<1> HIDE DEF q
<1>3. CASE q = Fail
  BY <1>2, <1>3 DEF OneEntry, Fail, Null, q
<1>4. CASE q # Fail
  <2>1. c = <<"map", <<<<<<"text", name>>, q>>>>>>
    BY <1>4 DEF OneEntry, q
  <2>2. c \in MoreItems(I)
    BY <1>1, <1>2, <1>4, <2>1, EntryIsItem
  <2>3. c[1] = "map" /\ MapHas(c, name) /\ MapGet(c, name) = q /\ \A other : other # name => ~MapHas(c, other)
    BY <2>1, OneEntryMap
  <2>4. c # Null /\ c # Fail
    BY <2>3 DEF Null, Fail
  <2>5. ToResult(dec, c, t) = Around("result", name, ToPayload(dec, q, u))
    <3>1. CASE name = "ok" /\ u = t[2]
      BY <2>3, <3>1 DEF ToResult
    <3>2. CASE name = "err" /\ u = t[3]
      <4>1. ~MapHas(c, "ok")
        BY <2>3, <3>2
      <4> QED BY <2>3, <3>2, <4>1 DEF ToResult
    <3> QED BY <3>1, <3>2
  <2>6. ASSUME u \notin A PROVE ToResult(dec, c, t) = <<"result", name, p>>
    BY <1>2, <1>4, <2>5, <2>6 DEF Around
  <2> QED BY <2>2, <2>4, <2>6
<1> QED BY <1>3, <1>4

LEMMA VariantReturns ==
    ASSUME NEW enc, NEW dec, NEW vals, NEW I, NEW H, NEW A,
           EncodesWell(enc, vals, I), RoundTrips(enc, dec, vals, H, A),
           NEW t, t[2] \in Seq(Texts \X (Types \cup {Unit})), NamesDiffer(t[2]),
           NEW i \in DOMAIN t[2], NEW p \in Payloads(vals, t[2][i][2]),
           NEW c, c = OneEntry(t[2][i][1], FromPayload(enc, p))
    PROVE  /\ c \in MoreItems(I) \cup {Fail} /\ c # Null
           /\ c = Fail => t[2][i][2] \in H /\ t[2][i][2] \in Types
           /\ c # Fail /\ t[2][i][2] \notin A => ToVariant(dec, c, t) = <<"variant", t[2][i][1], p>>
<1> DEFINE q == FromPayload(enc, p)
<1> DEFINE u == t[2][i][2]
<1> DEFINE name == t[2][i][1]
<1>1. u \in Types \cup {Unit} /\ name \in Texts /\ i \in Int
  OBVIOUS
<1>2. c = OneEntry(name, q) /\ p \in Payloads(vals, u)
  OBVIOUS
<1>3. \A j \in DOMAIN t[2] : t[2][j][1] = name => j = i
  BY DEF NamesDiffer
<1> HIDE DEF u
<1>4. /\ p # Fail /\ q \in I \cup {Fail}
      /\ q = Fail => u \in H /\ u \in Types
      /\ q # Fail /\ u \notin A => ToPayload(dec, q, u) = p
  BY <1>1, <1>2, PayloadReturns
<1> HIDE DEF q, name
<1>5. CASE q = Fail
  BY <1>2, <1>4, <1>5 DEF OneEntry, Fail, Null, u
<1>6. CASE q # Fail
  <2>1. c = <<"map", <<<<<<"text", name>>, q>>>>>>
    BY <1>2, <1>6 DEF OneEntry
  <2>2. c \in MoreItems(I)
    BY <1>1, <1>4, <1>6, <2>1, EntryIsItem
  <2>3. c[1] = "map" /\ c[2] # <<>> /\ c[2][1][1] = <<"text", name>> /\ c[2][1][2] = q
    BY <2>1, OneEntryMap
  <2>4. c # Null /\ c # Fail
    BY <2>3 DEF Null, Fail
  <2>5. Cases(c, t) = {i}
    <3>1. \A j \in DOMAIN t[2] : <<"text", t[2][j][1]>> = <<"text", name>> <=> t[2][j][1] = name
      OBVIOUS
    <3>2. t[2][i][1] = name
      BY DEF name
    <3> QED BY <1>3, <2>3, <3>1, <3>2 DEF Cases
  <2>6. First(Cases(c, t)) = i
    BY <1>1, <2>5, FirstOfOne
  <2>7. ToVariant(dec, c, t) = Around("variant", name, ToPayload(dec, q, u))
    BY <2>3, <2>5, <2>6 DEF ToVariant, name, u
  <2>8. ASSUME u \notin A PROVE ToVariant(dec, c, t) = <<"variant", name, p>>
    BY <1>4, <1>6, <2>7, <2>8 DEF Around
  <2> QED BY <2>2, <2>4, <2>8 DEF u, name
<1> QED BY <1>5, <1>6

LEMMA FlagsReturn ==
    ASSUME NEW enc, NEW vals, NEW I, EncodesWell(enc, vals, I), NEW fs \in Seq(Texts),
           NEW c, c = <<"array", [i \in DOMAIN fs |-> <<"text", fs[i]>>]>>
    PROVE  c \in MoreItems(I) /\ c # Fail /\ c # Null /\ ToFlags(c) = <<"flags", fs>>
<1> DEFINE k == Len(fs)
<1> DEFINE cs == [i \in DOMAIN fs |-> <<"text", fs[i]>>]
<1>1. k \in Nat /\ DOMAIN fs = 1 .. k /\ fs = [i \in 1 .. k |-> fs[i]] /\ \A i \in 1 .. k : fs[i] \in Texts
  OBVIOUS
<1>2. cs = [i \in 1 .. k |-> cs[i]] /\ DOMAIN cs = 1 .. k /\ \A i \in 1 .. k : cs[i] = <<"text", fs[i]>>
  BY <1>1
<1>3. \A i \in 1 .. k : <<"text", fs[i]>> \in I
  BY <1>1 DEF EncodesWell, MoreItems
<1>4. c[1] = "array" /\ c[2] = cs /\ c = <<"array", cs>>
  OBVIOUS
<1> HIDE DEF k, cs
<1>5. cs \in Seq(I)
  BY <1>1, <1>2, <1>3, IsSequence
<1>6. c \in {"array"} \X Seq(I)
  BY <1>4, <1>5
<1>7. \A i \in DOMAIN c[2] : c[2][i][1] = "text" /\ c[2][i][2] = fs[i]
  BY <1>2, <1>4
<1>8. ToFlags(c) = <<"flags", [i \in DOMAIN c[2] |-> c[2][i][2]]>>
  BY <1>4, <1>7 DEF ToFlags
<1>9. [i \in DOMAIN c[2] |-> c[2][i][2]] = fs
  BY <1>1, <1>2, <1>4, <1>7
<1> QED BY <1>4, <1>6, <1>8, <1>9 DEF MoreItems, Fail, Null
ComesBack(dec, I, H, A, t, v, c) ==
    /\ c \in MoreItems(I) \cup {Fail}
    /\ c = Null => t[1] = "option"
    /\ c = Fail => t \in Resources \/ PartTypes(t) \cap H # {}
    /\ c # Fail /\ t \notin Ambiguous /\ PartTypes(t) \cap A = {} => ToVal(dec, c, t) = v

LEMMA IntegerNames ==
    DOMAIN Ranges \subseteq {"s8", "u8", "s16", "u16", "s32", "u32", "s64", "u64"}
BY CborAssumption

LEMMA ScalarComesBack ==
    ASSUME NEW enc, NEW dec, NEW vals, NEW I, NEW H, NEW A, NEW V, NEW t \in Types, NEW v \in Fitting(vals, t, V),
           t[1] \in Scalars \cup {"enum"}
    PROVE  ComesBack(dec, I, H, A, t, v, FromVal(enc, v))
<1>1. CASE t[1] = "bool"
  <2>1. v \in {"bool"} \X BOOLEAN /\ FromVal(enc, v) = v
    BY <1>1, IntegerNames DEF Fitting, FromVal
  <2>2. v[1] = "bool" /\ v # Null /\ v # Fail /\ v \in MoreItems(I)
    BY <2>1 DEF Null, Fail, MoreItems
  <2>3. ToVal(dec, v, t) = v
    BY <1>1, <2>2, IntegerNames DEF ToVal
  <2> QED BY <2>1, <2>2, <2>3 DEF ComesBack
<1>2. CASE t[1] = "string"
  <2>1. v \in {"string"} \X Texts /\ FromVal(enc, v) = <<"text", v[2]>>
    BY <1>2, IntegerNames DEF Fitting, FromVal
  <2>2. <<"text", v[2]>> # Null /\ <<"text", v[2]>> # Fail /\ <<"text", v[2]>> \in MoreItems(I)
    BY <2>1 DEF Null, Fail, MoreItems
  <2>3. ToVal(dec, <<"text", v[2]>>, t) = <<"string", v[2]>>
    BY <1>2, IntegerNames DEF ToVal
  <2> QED BY <2>1, <2>2, <2>3 DEF ComesBack
<1>3. CASE t[1] = "enum"
  <2>1. v \in {"enum"} \X RangeOf(t[2]) /\ FromVal(enc, v) = <<"text", v[2]>>
    BY <1>3, IntegerNames DEF Fitting, FromVal
  <2>2. RangeOf(t[2]) \subseteq Texts
    BY <1>3, TypeForms DEF RangeOf
  <2>3. <<"text", v[2]>> # Null /\ <<"text", v[2]>> # Fail /\ <<"text", v[2]>> \in MoreItems(I)
    BY <2>1, <2>2 DEF Null, Fail, MoreItems
  <2>4. ToVal(dec, <<"text", v[2]>>, t) = <<"enum", v[2]>>
    BY <1>3, <2>1, IntegerNames DEF ToVal
  <2> QED BY <2>1, <2>3, <2>4 DEF ComesBack
<1>4. CASE t[1] = "own"
  <2>1. v \in {"own"} \X Nat
    BY <1>4, IntegerNames DEF Fitting
  <2>2. FromVal(enc, v) = Fail
    BY <2>1, IntegerNames DEF FromVal
  <2>3. t \in Resources
    BY <1>4 DEF Resources
  <2> QED BY <2>2, <2>3 DEF ComesBack, Null, Fail
<1>5. CASE t[1] \in DOMAIN Ranges
  <2>1. v \in {t[1]} \X Ranges[t[1]] /\ Ranges[t[1]] \subseteq Int
    BY <1>5, IntegerNames, CborAssumption DEF Fitting
  <2>2. FromVal(enc, v) = <<"int", v[2]>>
    BY <1>5, <2>1, IntegerNames DEF FromVal
  <2>3. <<"int", v[2]>> # Null /\ <<"int", v[2]>> # Fail /\ <<"int", v[2]>> \in MoreItems(I)
    BY <2>1 DEF Null, Fail, MoreItems
  <2>4. ToVal(dec, <<"int", v[2]>>, t) = ToInt(<<"int", v[2]>>, t)
    BY <1>5, IntegerNames DEF ToVal
  <2>5. ToInt(<<"int", v[2]>>, t) = v
    BY <2>1 DEF ToInt
  <2> QED BY <2>2, <2>3, <2>4, <2>5 DEF ComesBack
<1> QED BY <1>1, <1>2, <1>3, <1>4, <1>5 DEF Scalars

LEMMA SequenceIsRow ==
    ASSUME NEW S, NEW s \in Seq(S)
    PROVE  Len(s) \in Nat /\ IsRow(s, Len(s)) /\ DOMAIN s = 1 .. Len(s)
BY DEF IsRow

LEMMA TupleIsRow ==
    ASSUME NEW vals, NEW V, NEW t \in Types, t[1] = "tuple", NEW v \in Fitting(vals, t, V)
    PROVE  v = <<"tuple", v[2]>> /\ RowOf(v[2], t[2], vals, Len(t[2])) /\ t[2] \in Seq(Types)
<1>1. v \in {"tuple"} \X {vs \in Seq(V) : Len(vs) = Len(t[2]) /\ \A i \in DOMAIN vs : vs[i] \in vals[t[2][i]]}
  BY IntegerNames DEF Fitting
<1>2. t[2] \in Seq(Types)
  BY TypeForms
<1>3. v = <<"tuple", v[2]>> /\ v[2] \in Seq(V) /\ Len(v[2]) = Len(t[2])
  BY <1>1
<1>4. \A i \in DOMAIN v[2] : v[2][i] \in vals[t[2][i]]
  BY <1>1
<1>5. IsRow(t[2], Len(t[2])) /\ DOMAIN t[2] = 1 .. Len(t[2])
  BY <1>2, SequenceIsRow
<1>6. IsRow(v[2], Len(t[2])) /\ DOMAIN v[2] = 1 .. Len(t[2])
  BY <1>3, SequenceIsRow
<1>7. \A i \in 1 .. Len(t[2]) : t[2][i] \in Types
  BY <1>2
<1> QED BY <1>2, <1>3, <1>4, <1>5, <1>6, <1>7 DEF RowOf

LEMMA RecordIsFields ==
    ASSUME NEW vals, NEW V, NEW t \in Types, t[1] = "record", NEW v \in Fitting(vals, t, V)
    PROVE  /\ v = <<"record", v[2]>> /\ FieldsOf(v[2], t, vals, Len(t[2]))
           /\ t[2] \in Seq(Texts \X Types)
<1>1. v \in {"record"} \X {fs \in Seq(Texts \X V) :
              Len(fs) = Len(t[2]) /\ \A i \in DOMAIN fs : fs[i][1] = t[2][i][1] /\ fs[i][2] \in vals[t[2][i][2]]}
  BY IntegerNames DEF Fitting
<1>2. t[2] \in Seq(Texts \X Types) /\ NamesDiffer(t[2])
  BY TypeForms
<1>3. v = <<"record", v[2]>> /\ v[2] \in Seq(Texts \X V) /\ Len(v[2]) = Len(t[2])
  BY <1>1
<1>4. \A i \in DOMAIN v[2] : v[2][i][1] = t[2][i][1] /\ v[2][i][2] \in vals[t[2][i][2]]
  BY <1>1
<1>5. IsRow(t[2], Len(t[2])) /\ DOMAIN t[2] = 1 .. Len(t[2])
  BY <1>2, SequenceIsRow
<1>6. IsRow(v[2], Len(t[2])) /\ DOMAIN v[2] = 1 .. Len(t[2])
  BY <1>3, SequenceIsRow
<1>7. \A i \in 1 .. Len(t[2]) : t[2][i] \in Texts \X Types /\ v[2][i] \in Texts \X V
  BY <1>2, <1>3, <1>5, <1>6
<1>8. ASSUME NEW i \in 1 .. Len(t[2]) PROVE v[2][i] \in {t[2][i][1]} \X vals[t[2][i][2]]
  <2>1. v[2][i] = <<v[2][i][1], v[2][i][2]>>
    BY <1>7
  <2>2. v[2][i][1] = t[2][i][1] /\ v[2][i][2] \in vals[t[2][i][2]]
    BY <1>4, <1>6
  <2> QED BY <2>1, <2>2
<1> QED BY <1>2, <1>3, <1>5, <1>6, <1>7, <1>8 DEF FieldsOf

LEMMA ComesBackOneLevel ==
    ASSUME NEW enc, NEW dec, NEW vals, NEW I, NEW H, NEW A,
           EncodesWell(enc, vals, I), RoundTrips(enc, dec, vals, H, A), A \subseteq Types,
           NEW V, NEW t \in Types, NEW v \in Fitting(vals, t, V)
    PROVE  ComesBack(dec, I, H, A, t, v, FromVal(enc, v))
<1> DEFINE c == FromVal(enc, v)
<1>1. CASE t[1] \in Scalars \cup {"enum"}
  BY <1>1, ScalarComesBack
<1>2. CASE t[1] = "list"
  <2>1. v \in {"list"} \X Seq(vals[t[2]]) /\ v[1] = "list"
    BY <1>2, IntegerNames DEF Fitting
  <2>2. t[2] \in Types /\ PartTypes(t) = {t[2]}
    BY <1>2, TypeForms, UnitIsNoType DEF PartTypes
  <2>3. c = FromList(enc, v[2])
    BY <2>1, IntegerNames DEF FromVal
  <2> HIDE DEF c
  <2>4. /\ c \in MoreItems(I) \cup {Fail} /\ c # Null
        /\ c = Fail => t[2] \in H
        /\ c # Fail /\ t[2] \notin A => ToList(dec, c, t) = v
    BY <2>1, <2>2, <2>3, ListReturns
  <2>5. ToVal(dec, c, t) = ToList(dec, c, t)
    BY <1>2, IntegerNames DEF ToVal
  <2>6. ComesBack(dec, I, H, A, t, v, c)
    BY <2>2, <2>4, <2>5 DEF ComesBack
  <2> QED BY <2>6 DEF c
<1>3. CASE t[1] = "tuple"
  <2>1. v = <<"tuple", v[2]>> /\ RowOf(v[2], t[2], vals, Len(t[2])) /\ t[2] \in Seq(Types)
    BY <1>3, TupleIsRow
  <2>2. v[1] = "tuple"
    BY <2>1
  <2>3. c = FromSeq(enc, v[2])
    BY <2>2, IntegerNames DEF FromVal
  <2>4. Len(t[2]) \in Nat
    BY <2>1
  <2>5. PartTypes(t) = RangeOf(t[2])
    BY <1>3, <2>1, UnitIsNoType DEF PartTypes, RangeOf
  <2> DEFINE k == Len(t[2])
  <2> DEFINE vs == v[2]
  <2> DEFINE types == t[2]
  <2>5a. k \in Nat /\ RowOf(vs, types, vals, k) /\ c = FromSeq(enc, vs)
    BY <2>1, <2>3, <2>4
  <2> HIDE DEF c, k, vs, types
  <2>5b. RowComesBack(dec, I, H, A, "tuple", types, vs, c)
    BY <2>5a, TupleReturns
  <2>6. /\ c \in MoreItems(I) \cup {Fail} /\ c # Null
        /\ c = Fail => RangeOf(t[2]) \cap H # {}
        /\ c # Fail /\ RangeOf(t[2]) \cap A = {} => ToTuple(dec, "tuple", c, t[2]) = <<"tuple", v[2]>>
    BY <2>5b DEF RowComesBack, vs, types
  <2>7. ToVal(dec, c, t) = ToTuple(dec, "tuple", c, t[2])
    BY <1>3, IntegerNames DEF ToVal
  <2>9. ComesBack(dec, I, H, A, t, v, c)
    BY <2>1, <2>5, <2>6, <2>7 DEF ComesBack
  <2> QED BY <2>9 DEF c
<1>4. CASE t[1] = "record"
  <2>1. v = <<"record", v[2]>> /\ FieldsOf(v[2], t, vals, Len(t[2])) /\ t[2] \in Seq(Texts \X Types)
    BY <1>4, RecordIsFields
  <2>2. v[1] = "record"
    BY <2>1
  <2>3. c = FromRecord(enc, v[2])
    BY <2>2, IntegerNames DEF FromVal
  <2>4. Len(t[2]) \in Nat /\ DOMAIN t[2] = 1 .. Len(t[2])
    BY <2>1
  <2>5. PartTypes(t) = {t[2][i][2] : i \in 1 .. Len(t[2])}
    <3>1. \A i \in 1 .. Len(t[2]) : t[2][i][2] # Unit
      BY <2>1, UnitIsNoType
    <3> QED BY <1>4, <2>4, <3>1 DEF PartTypes
  <2> DEFINE k == Len(t[2])
  <2> DEFINE fs == v[2]
  <2>5a. k \in Nat /\ FieldsOf(fs, t, vals, k) /\ c = FromRecord(enc, fs)
    BY <2>1, <2>3, <2>4
  <2> HIDE DEF c, k, fs
  <2>6. /\ c \in MoreItems(I) \cup {Fail} /\ c # Null
        /\ c = Fail => \E i \in 1 .. k : t[2][i][2] \in H
        /\ c # Fail /\ (\A i \in 1 .. k : t[2][i][2] \notin A) =>
              ToRecord(dec, c, t) = <<"record", fs>>
    BY <2>5a, RecordReturns
  <2>7. ToVal(dec, c, t) = ToRecord(dec, c, t)
    BY <1>4, IntegerNames DEF ToVal
  <2>9. ComesBack(dec, I, H, A, t, v, c)
    BY <2>1, <2>5, <2>6, <2>7 DEF ComesBack, k, fs
  <2> QED BY <2>9 DEF c
<1>5. CASE t[1] = "map"
  <2>1. v \in {"map"} \X Seq(vals[t[2]] \X vals[t[3]])
    BY <1>5, IntegerNames DEF Fitting
  <2>2. t[2] \in Types /\ t[3] \in Types /\ PartTypes(t) = {t[2], t[3]}
    BY <1>5, TypeForms, UnitIsNoType DEF PartTypes
  <2>3. v[1] = "map" /\ v = <<"map", v[2]>> /\ v[2] \in Seq(vals[t[2]] \X vals[t[3]])
    BY <2>1
  <2>4. c = FromMap(enc, v[2])
    BY <2>3, IntegerNames DEF FromVal
  <2> DEFINE es == v[2]
  <2>4a. t[2] \in Types /\ t[3] \in Types /\ es \in Seq(vals[t[2]] \X vals[t[3]]) /\ c = FromMap(enc, es)
    BY <2>2, <2>3, <2>4
  <2> HIDE DEF c, es
  <2>5. /\ c \in MoreItems(I) \cup {Fail} /\ c # Null
        /\ c = Fail => {t[2], t[3]} \cap H # {}
        /\ c # Fail /\ {t[2], t[3]} \cap A = {} => ToMap(dec, c, t) = <<"map", es>>
    BY <2>4a, MapReturns
  <2>6. ToVal(dec, c, t) = ToMap(dec, c, t)
    BY <1>5, IntegerNames DEF ToVal
  <2>8. ComesBack(dec, I, H, A, t, v, c)
    BY <2>2, <2>3, <2>5, <2>6 DEF ComesBack, es
  <2> QED BY <2>8 DEF c
<1>6. CASE t[1] = "option"
  <2>1. v \in {"option"} \X (vals[t[2]] \cup {Unit})
    BY <1>6, IntegerNames DEF Fitting
  <2>2. t[2] \in Types /\ PartTypes(t) = {t[2]}
    BY <1>6, TypeForms, UnitIsNoType DEF PartTypes
  <2>3. v[1] = "option" /\ v = <<"option", v[2]>> /\ v[2] \in vals[t[2]] \cup {Unit}
    BY <2>1
  <2>4. c = FromPayload(enc, v[2])
    BY <2>3, IntegerNames DEF FromVal
  <2> HIDE DEF c
  <2>5. /\ c \in MoreItems(I) \cup {Fail}
        /\ c = Fail => t[2] \in H
        /\ c # Fail /\ t[2] \notin A /\ t[2][1] # "option" => ToOption(dec, c, t) = <<"option", v[2]>>
    BY <2>2, <2>3, <2>4, OptionReturns
  <2>6. ToVal(dec, c, t) = ToOption(dec, c, t)
    BY <1>6, IntegerNames DEF ToVal
  <2>7. t \notin Ambiguous => t[2][1] # "option"
    BY <1>6 DEF Ambiguous
  <2>8. ComesBack(dec, I, H, A, t, v, c)
    BY <1>6, <2>2, <2>3, <2>5, <2>6, <2>7 DEF ComesBack
  <2> QED BY <2>8 DEF c
<1>7. CASE t[1] = "result"
  <2>1. v \in ({"result"} \X {"ok"} \X Payloads(vals, t[2])) \cup ({"result"} \X {"err"} \X Payloads(vals, t[3]))
    BY <1>7, IntegerNames DEF Fitting
  <2>2. t[2] \in Types \cup {Unit} /\ t[3] \in Types \cup {Unit} /\ PartTypes(t) = {t[2], t[3]} \ {Unit}
    BY <1>7, TypeForms DEF PartTypes
  <2>3. v[1] = "result" /\ v = <<"result", v[2], v[3]>>
    BY <2>1
  <2>4. c = OneEntry(v[2], FromPayload(enc, v[3]))
    BY <2>3, IntegerNames DEF FromVal
  <2>5. PICK u \in {t[2], t[3]} : /\ (v[2] = "ok" /\ u = t[2]) \/ (v[2] = "err" /\ u = t[3])
                                  /\ v[3] \in Payloads(vals, u)
    BY <2>1
  <2> HIDE DEF c
  <2>6. /\ c \in MoreItems(I) \cup {Fail} /\ c # Null
        /\ c = Fail => u \in H /\ u \in Types
        /\ c # Fail /\ u \notin A => ToResult(dec, c, t) = <<"result", v[2], v[3]>>
    BY <2>2, <2>4, <2>5, ResultReturns
  <2>7. ToVal(dec, c, t) = ToResult(dec, c, t)
    BY <1>7, IntegerNames DEF ToVal
  <2>8. u \in Types => u \in PartTypes(t)
    BY <2>2, UnitIsNoType
  <2>9. ComesBack(dec, I, H, A, t, v, c)
    BY <2>3, <2>6, <2>7, <2>8 DEF ComesBack
  <2> QED BY <2>9 DEF c
<1>8. CASE t[1] = "variant"
  <2>1. v \in {"variant"} \X Texts \X (V \cup {Unit})
    BY <1>8, FittingForms
  <2>2. PICK i \in DOMAIN t[2] : v[2] = t[2][i][1] /\ v[3] \in Payloads(vals, t[2][i][2])
    BY <1>8, FittingParts
  <2>3. t[2] \in Seq(Texts \X (Types \cup {Unit})) /\ NamesDiffer(t[2])
    BY <1>8, TypeForms
  <2>4. v[1] = "variant" /\ v = <<"variant", t[2][i][1], v[3]>>
    BY <2>1, <2>2
  <2>5. c = OneEntry(t[2][i][1], FromPayload(enc, v[3]))
    BY <2>2, <2>4, IntegerNames DEF FromVal
  <2> HIDE DEF c
  <2>6. /\ c \in MoreItems(I) \cup {Fail} /\ c # Null
        /\ c = Fail => t[2][i][2] \in H /\ t[2][i][2] \in Types
        /\ c # Fail /\ t[2][i][2] \notin A => ToVariant(dec, c, t) = <<"variant", t[2][i][1], v[3]>>
    BY <2>2, <2>3, <2>5, VariantReturns
  <2>7. ToVal(dec, c, t) = ToVariant(dec, c, t)
    BY <1>8, IntegerNames DEF ToVal
  <2>8. PartTypes(t) = {t[2][j][2] : j \in DOMAIN t[2]} \ {Unit}
    BY <1>8 DEF PartTypes
  <2>9. t[2][i][2] \in Types => t[2][i][2] \in PartTypes(t)
    BY <2>8, UnitIsNoType
  <2> DEFINE u == t[2][i][2]
  <2> HIDE DEF u
  <2>10. /\ c \in MoreItems(I) \cup {Fail} /\ c # Null
         /\ c = Fail => u \in H /\ u \in Types
         /\ c # Fail /\ u \notin A => ToVal(dec, c, t) = v
         /\ u \in Types => u \in PartTypes(t)
    BY <2>4, <2>6, <2>7, <2>9 DEF u
  <2>11. ComesBack(dec, I, H, A, t, v, c)
    BY <2>10 DEF ComesBack
  <2> QED BY <2>11 DEF c
<1>9. CASE t[1] = "flags"
  <2>1. v \in {"flags"} \X Seq(Texts)
    BY <1>9, IntegerNames DEF Fitting
  <2>2. v[1] = "flags" /\ v = <<"flags", v[2]>> /\ v[2] \in Seq(Texts)
    BY <2>1
  <2>3. c = <<"array", [i \in DOMAIN v[2] |-> <<"text", v[2][i]>>]>>
    BY <2>2, IntegerNames DEF FromVal
  <2> HIDE DEF c
  <2>4. c \in MoreItems(I) /\ c # Fail /\ c # Null /\ ToFlags(c) = <<"flags", v[2]>>
    BY <2>2, <2>3, FlagsReturn
  <2>5. ToVal(dec, c, t) = ToFlags(c)
    BY <1>9, IntegerNames DEF ToVal
  <2>6. ComesBack(dec, I, H, A, t, v, c)
    BY <2>2, <2>4, <2>5 DEF ComesBack
  <2> QED BY <2>6 DEF c
<1>10. t[1] \in Scalars \cup {"enum", "list", "tuple", "record", "map", "option", "result", "variant", "flags"}
  BY TypeForms DEF Tags
<1> QED BY <1>1, <1>2, <1>3, <1>4, <1>5, <1>6, <1>7, <1>8, <1>9, <1>10
LEMMA HoldingAreTypes == \A A \in SUBSET Types : \A n \in Nat : Holding[n][A] \subseteq Types
<1> SUFFICES ASSUME NEW A \in SUBSET Types PROVE \A n \in Nat : Holding[n][A] \subseteq Types
  OBVIOUS
<1> DEFINE S == {n \in Nat : Holding[n][A] \subseteq Types}
<1>1. 0 \in S
  BY HoldingEquation
<1>2. ASSUME NEW n \in Nat, n \in S PROVE n + 1 \in S
  BY HoldingEquation
<1> HIDE DEF S
<1>3. \A n \in Nat : n \in S
  BY <1>1, <1>2, ItemsRec!Induction
<1> QED BY <1>3 DEF S

LEMMA FittingTags ==
    \A vals, V : \A t \in Types : \A w \in Fitting(vals, t, V) :
        w[1] = t[1] /\ (t[1] \in DOMAIN Ranges => w \in {t[1]} \X Ranges[t[1]])
<1> SUFFICES ASSUME NEW vals, NEW V, NEW t \in Types, NEW w \in Fitting(vals, t, V)
             PROVE  w[1] = t[1] /\ (t[1] \in DOMAIN Ranges => w \in {t[1]} \X Ranges[t[1]])
  OBVIOUS
<1>1. t[1] \in Tags
  BY TypeForms
<1>2. CASE t[1] \in DOMAIN Ranges
  BY <1>2, IntegerNames DEF Fitting
<1>3. CASE t[1] \in {"bool", "string", "enum", "flags", "own", "list"}
  BY <1>3, IntegerNames DEF Fitting
<1>4. CASE t[1] \in {"tuple", "record"}
  BY <1>4, IntegerNames DEF Fitting
<1>5. CASE t[1] \in {"map", "option"}
  BY <1>5, IntegerNames DEF Fitting
<1>6. CASE t[1] \in {"result", "variant"}
  BY <1>6, IntegerNames DEF Fitting
<1> QED BY <1>1, <1>2, <1>3, <1>4, <1>5, <1>6 DEF Tags, Scalars

\* A value of one more level comes back.
LEMMA NextLevelReturns ==
    ASSUME NEW n \in Nat, n + 1 <= Depth,
           EncodesWell(ValToCbor[n], ValuesOf[n], Items[n]),
           RoundTrips(ValToCbor[n], CborToVal[n], ValuesOf[n], Holding[n][Resources], Holding[n][Ambiguous]),
           NEW t \in Types, NEW v \in ValuesOf[n + 1][t], NEW c, c = ValToCbor[n + 1][v]
    PROVE  /\ v[1] = t[1]
           /\ t = <<"u8">> => v \in {"u8"} \X Ranges["u8"]
           /\ c \in Items[n + 1] \cup {Fail}
           /\ c = Null => t[1] = "option"
           /\ c = Fail => t \in Holding[n + 1][Resources]
           /\ c # Fail /\ t \notin Holding[n + 1][Ambiguous] => CborToVal[n + 1][t][c] = v
<1> DEFINE H == Holding[n][Resources]
<1> DEFINE A == Holding[n][Ambiguous]
<1>1. v \in Fitting(ValuesOf[n], t, Values[n])
  BY ValuesOfEquation
<1>2. n + 1 \in Nat /\ v \in Values[n + 1]
  BY TypedAreValues
<1>3. c = FromVal(ValToCbor[n], v)
  BY <1>2, EncoderEquation
<1>4. Resources \in SUBSET Types /\ Ambiguous \in SUBSET Types
  BY DEF Resources, Ambiguous
<1>5. A \subseteq Types
  BY <1>4, HoldingAreTypes
<1>6. /\ Holding[n + 1][Resources] = Resources \cup {u \in Types : PartTypes(u) \cap H # {}}
      /\ Holding[n + 1][Ambiguous] = Ambiguous \cup {u \in Types : PartTypes(u) \cap A # {}}
  BY <1>4, HoldingEquation
<1>7. EncodesWell(ValToCbor[n], ValuesOf[n], Items[n]) /\ RoundTrips(ValToCbor[n], CborToVal[n], ValuesOf[n], H, A)
  OBVIOUS
<1> HIDE DEF H, A
<1>8. ComesBack(CborToVal[n], Items[n], H, A, t, v, c)
  BY <1>1, <1>3, <1>5, <1>7, ComesBackOneLevel
<1>9. v[1] = t[1] /\ (t = <<"u8">> => v \in {"u8"} \X Ranges["u8"])
  <2> DEFINE F == Fitting(ValuesOf[n], t, Values[n])
  <2>1. \A w \in F : w[1] = t[1] /\ (t[1] \in DOMAIN Ranges => w \in {t[1]} \X Ranges[t[1]])
    BY FittingTags
  <2> HIDE DEF F
  <2>2. v \in F
    BY <1>1 DEF F
  <2>3. "u8" \in DOMAIN Ranges
    BY CborAssumption
  <2> QED BY <2>1, <2>2, <2>3
<1>10. Items[n + 1] = MoreItems(Items[n]) /\ Items[n + 1] \subseteq Items[Depth]
  BY <1>2, ItemsEquation, ItemsOfDepth
<1>11. ASSUME c # Fail PROVE CborToVal[n + 1][t][c] = ToVal(CborToVal[n], c, t)
  <2>1. c \in Items[Depth]
    BY <1>8, <1>10, <1>11 DEF ComesBack
  <2> QED BY <2>1, DecodersEquation
<1>12. c = Fail => t \in Holding[n + 1][Resources]
  BY <1>6, <1>8 DEF ComesBack
<1>13. ASSUME c # Fail, t \notin Holding[n + 1][Ambiguous] PROVE CborToVal[n + 1][t][c] = v
  BY <1>6, <1>8, <1>11, <1>13 DEF ComesBack
<1> QED BY <1>8, <1>9, <1>10, <1>12, <1>13 DEF ComesBack

\* At every depth, what the encoder makes of a value the decoder turns back into it.
LEMMA EncodedComesBack ==
    \A n \in Nat : n <= Depth =>
        /\ EncodesWell(ValToCbor[n], ValuesOf[n], Items[n])
        /\ RoundTrips(ValToCbor[n], CborToVal[n], ValuesOf[n], Holding[n][Resources], Holding[n][Ambiguous])
<1> DEFINE P(n) == /\ EncodesWell(ValToCbor[n], ValuesOf[n], Items[n])
                   /\ RoundTrips(ValToCbor[n], CborToVal[n], ValuesOf[n], Holding[n][Resources], Holding[n][Ambiguous])
<1> DEFINE S == {n \in Nat : n <= Depth => P(n)}
<1>1. \A n \in Nat : MoreItems({}) \subseteq Items[n] /\ Items[n] \subseteq MoreItems(Items[n])
  <2>1. \A n \in Nat : Items[n] \subseteq MoreItems(Items[n])
    BY ItemsEquation, ItemsGrow
  <2>2. ASSUME NEW n \in Nat PROVE MoreItems({}) \subseteq MoreItems(Items[n])
    BY MoreItemsGrow
  <2>3. ASSUME NEW n \in Nat PROVE MoreItems({}) \subseteq Items[n]
    <3>1. CASE n = 0
      BY <3>1, ItemsEquation
    <3>2. CASE n # 0
      <4>1. n - 1 \in Nat /\ (n - 1) + 1 = n
        BY <3>2
      <4> QED BY <2>2, <4>1, ItemsEquation
    <3> QED BY <3>1, <3>2
  <2> QED BY <2>1, <2>3
<1>2. 0 \in S
  <2>1. \A u \in Types : ValuesOf[0][u] = {}
    BY ValuesOfEquation
  <2>2. EncodesWell(ValToCbor[0], ValuesOf[0], Items[0])
    BY <1>1, <2>1 DEF EncodesWell
  <2>3. RoundTrips(ValToCbor[0], CborToVal[0], ValuesOf[0], Holding[0][Resources], Holding[0][Ambiguous])
    BY <2>1 DEF RoundTrips
  <2> QED BY <2>2, <2>3
<1>3. ASSUME NEW n \in Nat, n \in S PROVE n + 1 \in S
  <2>1. SUFFICES ASSUME n + 1 <= Depth PROVE P(n + 1)
    OBVIOUS
  <2>2. P(n)
    BY <1>3, <2>1, CborAssumption
  <2>3. ASSUME NEW t \in Types, NEW v \in ValuesOf[n + 1][t]
        PROVE  /\ v[1] = t[1]
               /\ t = <<"u8">> => v \in {"u8"} \X Ranges["u8"]
               /\ ValToCbor[n + 1][v] \in Items[n + 1] \cup {Fail}
               /\ ValToCbor[n + 1][v] = Null => t[1] = "option"
               /\ ValToCbor[n + 1][v] = Fail => t \in Holding[n + 1][Resources]
               /\ ValToCbor[n + 1][v] # Fail /\ t \notin Holding[n + 1][Ambiguous] =>
                     CborToVal[n + 1][t][ValToCbor[n + 1][v]] = v
    BY <2>1, <2>2, NextLevelReturns
  <2>4. EncodesWell(ValToCbor[n + 1], ValuesOf[n + 1], Items[n + 1])
    BY <1>1, <2>3 DEF EncodesWell
  <2>5. RoundTrips(ValToCbor[n + 1], CborToVal[n + 1], ValuesOf[n + 1],
                   Holding[n + 1][Resources], Holding[n + 1][Ambiguous])
    BY <2>3 DEF RoundTrips
  <2> QED BY <2>4, <2>5
<1> HIDE DEF S
<1>4. \A n \in Nat : n \in S
  BY <1>2, <1>3, ItemsRec!Induction
<1> QED BY <1>4 DEF S

-----------------------------------------------------------------------------

\* Arguments that are accepted have the types of the parameters.
LEMMA AcceptedHaveTypes ==
    ASSUME NEW c \in Items[Depth], NEW types \in Seq(Types), NEW d, d = DecodeParams(c, types)
    PROVE  d = Fail \/ (d[1] = "args" /\ HasTypes(d[2], types))
<1>1. CASE c = Null /\ types = <<>>
  <2>1. d = <<"args", <<>>>>
    BY <1>1 DEF DecodeParams
  <2>2. d[1] = "args" /\ d[2] = <<>>
    BY <2>1
  <2>3. HasTypes(<<>>, <<>>)
    BY DEF HasTypes
  <2> QED BY <1>1, <2>2, <2>3
<1>2. CASE ~(c = Null /\ types = <<>>)
  <2>1. d = ToTuple(CborToVal[Depth], "args", c, types)
    BY <1>2 DEF DecodeParams
  <2>2. Depth \in Nat /\ Types \subseteq Nesting[Depth]
    BY CborAssumption
  <2>3. \A u \in Types : \A e \in Items[Depth] : CborToVal[Depth][u][e] \in ValuesOf[Depth][u] \cup {Fail}
    BY <2>2, DecodedFits
  <2>4. <<"u8">> \in Types => {"u8"} \X Ranges["u8"] \subseteq ValuesOf[Depth][<<"u8">>]
    <3> SUFFICES ASSUME <<"u8">> \in Types PROVE {"u8"} \X Ranges["u8"] \subseteq ValuesOf[Depth][<<"u8">>]
      OBVIOUS
    <3>1. Depth # 0
      BY <2>2, NestingEquation
    <3>2. Depth - 1 \in Nat /\ (Depth - 1) + 1 = Depth
      BY <2>2, <3>1
    <3>3. ValuesOf[Depth][<<"u8">>] = Fitting(ValuesOf[Depth - 1], <<"u8">>, Values[Depth - 1])
      BY <3>2, ValuesOfEquation
    <3> QED BY <3>3, CborAssumption DEF Fitting
  <2>5. DecodesWell(CborToVal[Depth], ValuesOf[Depth], Types)
    BY <2>3, <2>4 DEF DecodesWell
  <2>6. \A u \in Types : ValuesOf[Depth][u] \subseteq Values[Depth]
    BY <2>2, TypedAreValues
  <2>7. SUFFICES ASSUME d # Fail PROVE d[1] = "args" /\ HasTypes(d[2], types)
    OBVIOUS
  <2>8. Len(c[2]) \in Nat \/ c[1] # "array"
    BY ArrayParts
  <2>9. c[1] = "array" => c[2] \in Seq(Items[Depth])
    BY ArrayParts
  <2> DEFINE vs == ToTuple(CborToVal[Depth], "args", c, types)[2]
  <2>10. /\ ToTuple(CborToVal[Depth], "args", c, types) = <<"args", vs>>
         /\ vs \in Seq(Values[Depth]) /\ Len(vs) = Len(types)
         /\ \A i \in DOMAIN types : vs[i] \in ValuesOf[Depth][types[i]]
    BY <2>1, <2>5, <2>6, <2>7, <2>9, TupleDecodes
  <2> HIDE DEF vs
  <2>11. d = <<"args", vs>>
    BY <2>1, <2>10
  <2>12. HasTypes(vs, types)
    BY <2>10 DEF HasTypes
  <2> QED BY <2>11, <2>12
<1> QED BY <1>1, <1>2

LEMMA RowOfResults ==
    ASSUME NEW types, NEW k \in Nat, NEW vs, RowOf(vs, types, ValuesOf[Depth], k),
           NEW c, c = EncodeResults(vs)
    PROVE  /\ c # Null
           /\ c = Fail => Hold(types, Resources)
           /\ c # Fail /\ ~Hold(types, Ambiguous) => ToTuple(CborToVal[Depth], "args", c, types) = <<"args", vs>>
<1> DEFINE enc == ValToCbor[Depth]
<1> DEFINE dec == CborToVal[Depth]
<1> DEFINE vals == ValuesOf[Depth]
<1> DEFINE I == Items[Depth]
<1> DEFINE H == Holding[Depth][Resources]
<1> DEFINE A == Holding[Depth][Ambiguous]
<1>1. EncodesWell(enc, vals, I) /\ RoundTrips(enc, dec, vals, H, A)
  BY CborAssumption, EncodedComesBack
<1>2. c = FromSeq(enc, vs) /\ RowOf(vs, types, vals, k)
  BY DEF EncodeResults
<1>3. /\ Hold(types, Resources) <=> RangeOf(types) \cap H # {}
      /\ Hold(types, Ambiguous) <=> RangeOf(types) \cap A # {}
  BY DEF Hold
<1> HIDE DEF enc, dec, vals, I, H, A
<1>4. RowComesBack(dec, I, H, A, "args", types, vs, c)
  BY <1>1, <1>2, TupleReturns
<1> QED BY <1>3, <1>4 DEF RowComesBack, dec

\* Results of the types are encoded, and come back, but for the types that say otherwise.
LEMMA ResultsComeBack ==
    ASSUME NEW types \in Seq(Types), NEW vs \in Seq(Values[Depth]), HasTypes(vs, types),
           NEW c, c = EncodeResults(vs)
    PROVE  /\ c = Fail => Hold(types, Resources)
           /\ c # Fail /\ ~Hold(types, Ambiguous) => DecodeParams(c, types) = <<"args", vs>>
<1> DEFINE k == Len(types)
<1>1. k \in Nat /\ RowOf(vs, types, ValuesOf[Depth], k)
  <2>1. Len(vs) = Len(types) /\ \A i \in DOMAIN types : vs[i] \in ValuesOf[Depth][types[i]]
    BY DEF HasTypes
  <2>2. k \in Nat /\ IsRow(types, k) /\ DOMAIN types = 1 .. k
    BY SequenceIsRow
  <2>3. IsRow(vs, k)
    BY <2>1, SequenceIsRow
  <2>4. \A i \in 1 .. k : types[i] \in Types
    BY <2>2
  <2> QED BY <2>1, <2>2, <2>3, <2>4 DEF RowOf
<1> HIDE DEF k
<1>2. /\ c # Null
      /\ c = Fail => Hold(types, Resources)
      /\ c # Fail /\ ~Hold(types, Ambiguous) => ToTuple(CborToVal[Depth], "args", c, types) = <<"args", vs>>
  BY <1>1, RowOfResults
<1> QED BY <1>2 DEF DecodeParams

-----------------------------------------------------------------------------

\* The inductive invariant: what was decoded has the types, and what was encoded are results.
CborInv ==
    /\ export \in Exports /\ item \in Items[Depth]
    /\ args \in {Unit, Fail, Null} \/ (args[1] = "args" /\ HasTypes(args[2], export.params))
    /\ \/ out = Unit
       \/ /\ result \in Seq(Values[Depth]) /\ HasTypes(result, export.results)
          /\ out = EncodeResults(result)

LEMMA CborInductive ==
    /\ CborInit => CborInv
    /\ CborInv /\ [CborNext]_cborVars => CborInv'
<1>1. CborInit => CborInv
  BY CborAssumption DEF CborInit, CborInv
<1>2. ASSUME CborInv, [CborNext]_cborVars PROVE CborInv'
  <2>1. CASE DecodesArgs
    <3>1. export.params \in Seq(Types) /\ export' = export
      BY <1>2, <2>1, CborAssumption DEF CborInv, DecodesArgs
    <3>2. args' = Fail \/ (args'[1] = "args" /\ HasTypes(args'[2], export.params))
      BY <1>2, <2>1, <3>1, AcceptedHaveTypes DEF CborInv, DecodesArgs
    <3>3. Null \in Items[Depth]
      <4>1. Null \in MoreItems({}) /\ Depth \in Nat
        BY CborAssumption DEF MoreItems
      <4>2. Items[0] \subseteq Items[Depth]
        BY <4>1, ItemsOfDepth
      <4> QED BY <4>1, <4>2, ItemsEquation
    <3> QED BY <1>2, <2>1, <3>1, <3>2, <3>3 DEF CborInv, DecodesArgs, HasTypes
  <2>2. CASE EncodesResults
    <3>1. PICK vs \in Yielded : HasTypes(vs, export.results) /\ result' = vs
      BY <2>2 DEF EncodesResults
    <3>2. vs \in Seq(Values[Depth])
      BY CborAssumption
    <3>3. out' = EncodeResults(result') /\ export' = export /\ item' = item /\ args' = Null
      BY <2>2 DEF EncodesResults
    <3> QED BY <1>2, <3>1, <3>2, <3>3 DEF CborInv, HasTypes
  <2>3. CASE UNCHANGED cborVars
    BY <1>2, <2>3 DEF CborInv, cborVars, HasTypes, EncodeResults
  <2> QED BY <1>2, <2>1, <2>2, <2>3 DEF CborNext
<1> QED BY <1>1, <1>2

LEMMA CborInvKeepsTypes == CborInv => ValuesKeepTheirTypes
<1> SUFFICES ASSUME CborInv PROVE ValuesKeepTheirTypes
  OBVIOUS
<1>1. args[1] = "args" => HasTypes(args[2], export.params)
  <2>1. Unit[1] # "args" /\ Fail[1] # "args" /\ Null[1] # "args"
    BY DEF Unit, Fail, Null
  <2> QED BY <2>1 DEF CborInv
<1>2. export.results \in Seq(Types)
  BY CborAssumption DEF CborInv
<1>3. CASE out = Unit
  BY <1>1, <1>3 DEF ValuesKeepTheirTypes, Unit, Fail
<1>4. CASE /\ result \in Seq(Values[Depth]) /\ HasTypes(result, export.results)
           /\ out = EncodeResults(result)
  <2>1. /\ out = Fail => Hold(export.results, Resources)
        /\ out # Fail /\ ~Hold(export.results, Ambiguous) => DecodeParams(out, export.results) = <<"args", result>>
    BY <1>2, <1>4, ResultsComeBack
  <2> QED BY <1>1, <2>1 DEF ValuesKeepTheirTypes
<1> QED BY <1>3, <1>4 DEF CborInv

\* For every set of types, nested as deep as may be, and whatever callers send and guests
\* return: accepted arguments have the types of the parameters, and results reach the caller
\* as the guest returned them, unless their types hold handles or options of options.
THEOREM ValuesKeepTypes == CborSpec => []ValuesKeepTheirTypes
<1>1. CborSpec => []CborInv
  BY CborInductive, PTL DEF CborSpec
<1> QED BY <1>1, CborInvKeepsTypes, PTL

-----------------------------------------------------------------------------
(* The exec pipeline.                                                          *)

USE DEF Stages, Outcomes

Endpoint(p) == p \in Runtime /\ Root[p] \notin Drives
Linker(p) == p \in Runtime /\ Root[p] \in Drives
PutStages == {"put", "put_write", "put_rename"}
OpenStages == {"put_write", "put_rename"}

\* What a call r with blobs s, audit records a (lost or not) and vouched components v is
\* at each stage: which plans get there, and what the gates have established.
HasShape(s, r, a, l, v) ==
    /\ r.plan # None => r.args \in Args
    /\ r.plan = None => r.stage \in {"idle"} \cup PutStages
    /\ r.stage \in PutStages => r.subject \in Digests
    /\ r.stage \in PutStages /\ r.plan # None => r.subject = Artifact[r.plan]
    /\ r.stage \in {"compose", "parts", "emit_open", "emit_write"} \cup PutStages => ~Endpoint(r.plan)
    /\ r.stage \in {"emit_open", "emit_write"} => Artifact[r.plan] \in s
    /\ r.stage = "root" => r.plan \in Runtime
    /\ r.stage = "gate" => Endpoint(r.plan)
    /\ r.stage \in {"lookup", "run"} => ~Linker(r.plan)
    /\ r.stage \in {"load", "lookup", "run"} /\ Endpoint(r.plan) => Bound[r.plan] \subseteq v
    /\ r.stage = "resolve" => r.subject \in v
    /\ r.resolved \subseteq v
    /\ r.stage # "put_write" => r.file = "none"
    /\ r.stage \in {"save_open", "save_write", "log", "ok"} =>
         r.got \in Results /\ r.got.plan = r.plan /\ r.got.resolved \subseteq v
    /\ r.stage \in {"save_open", "save_write"} => r.got.resolved = Key(r.plan).resolved
    /\ r.plan # None /\ r.stage \notin {"ok", "error"} => a = <<>> /\ ~l
    /\ r.stage = "ok" => a = IF l THEN <<>> ELSE <<"success">>
    /\ r.stage = "error" => a \in {<<>>, <<"failure">>}
\* A blob in the store stays unless it may be deleted.
Kept == Present \cup Deletable
Shape == \A w \in Workers : HasShape(Kept, call[w], audit[w], w \in lost, vouched[w])

\* An entry of the result cache is a run of the plan of its key, with its providers.
EntriesMatchKeys == \A p \in Plans :
    execCache[Key(p)] \notin {NoFile, Torn} =>
      /\ execCache[Key(p)].plan = p
      /\ execCache[Key(p)].resolved = Key(p).resolved

TrustIsVouched == \A w \in Workers : trusted \subseteq vouched[w]

\* Somebody is going to complete a torn temp file that a put is going to rename, and a
\* torn blob.
TempWritten(d) == temps[d] = Torn /\ (\E x \in Workers : Putting(x, d))
                    => \E y \in Workers : Writing(y, d, "temp")
BlobWritten(d) == blobs[d] = Torn => \E y \in Workers : Writing(y, d, "blob")
PutsInv == \A d \in Digests : d \notin cut => TempWritten(d) /\ BlobWritten(d)

EntriesAreKept == \A p \in Plans : emitCache[p] = "entry" => Artifact[p] \in Kept

IInv == /\ TypeOK /\ Shape /\ EntriesMatchKeys /\ TrustIsVouched
        /\ PutsInv /\ EntriesAreKept

-----------------------------------------------------------------------------

LEMMA IdleType ==
    /\ IdleCall \in Calls
    /\ IdleCall.stage = "idle" /\ IdleCall.plan = None /\ IdleCall.resolved = {}
    /\ IdleCall.got = None /\ IdleCall.file = "none" /\ IdleCall.subject = None
BY DEF IdleCall, Calls

LEMMA IdleShape == \A s, a, l, v : HasShape(s, IdleCall, a, l, v)
BY IdleType DEF HasShape, PutStages

LEMMA KeysDiffer ==
    ASSUME NEW p \in Plans, NEW q \in Plans, Key(p) = Key(q)
    PROVE  p = q
<1>1. Key(p).plan = p /\ Key(q).plan = q
  BY DEF Key
<1> QED BY <1>1

LEMMA KeyResolved ==
    ASSUME NEW p \in Plans
    PROVE  /\ Key(p) \in Keys
           /\ Key(p).resolved = IF p \in Runtime THEN Bound[p] ELSE {}
           /\ Key(p).resolved \in SUBSET Components
BY PlanAssumption DEF Key, Keys

LEMMA ShapeGrows ==
    ASSUME NEW r, NEW a, NEW l, NEW s, NEW t, NEW v, NEW u,
           s \subseteq t, v \subseteq u, HasShape(s, r, a, l, v)
    PROVE  HasShape(t, r, a, l, u)
BY DEF HasShape

LEMMA PlanIs ==
    ASSUME IInv, NEW w \in Workers, call[w].stage \notin {"idle"} \cup PutStages
    PROVE  call[w].plan \in Plans /\ call[w].args \in Args
BY DEF IInv, TypeOK, Calls, Shape, HasShape

LEMMA InitInv == Init => IInv
<1> SUFFICES ASSUME Init PROVE IInv
  OBVIOUS
<1>1. TypeOK
  BY PlanAssumption, IdleType DEF Init, TypeOK
<1>2. Shape
  BY IdleShape DEF Init, Shape
<1>3. EntriesMatchKeys
  BY KeyResolved DEF Init, EntriesMatchKeys
<1>4. TrustIsVouched /\ EntriesAreKept /\ PutsInv
  BY MarkAssumption DEF Init, TrustIsVouched, EntriesAreKept, PutsInv, TempWritten, BlobWritten
<1> QED BY <1>1, <1>2, <1>3, <1>4 DEF IInv

\* One worker moves, no blob is touched, and nobody opens or closes a put.
LEMMA OneCall ==
    ASSUME IInv, NEW w \in Workers, NEW r \in Calls,
           call' = [call EXCEPT ![w] = r], UNCHANGED <<blobs, temps, cut>>,
           call[w].stage \notin OpenStages, r.stage \notin OpenStages,
           \A x \in Workers \ {w} : /\ audit'[x] = audit[x] /\ vouched'[x] = vouched[x]
                                    /\ (x \in lost' <=> x \in lost),
           HasShape(Kept, r, audit'[w], w \in lost', vouched'[w])
    PROVE  call' \in [Workers -> Calls] /\ Shape' /\ PutsInv'
<1>1. call' \in [Workers -> Calls] /\ \A x \in Workers : call'[x] = IF x = w THEN r ELSE call[x]
  BY DEF IInv, TypeOK
<1>2. Kept' = Kept
  BY DEF Kept, Present
<1>3. ASSUME NEW x \in Workers
      PROVE  HasShape(Kept', call'[x], audit'[x], x \in lost', vouched'[x])
  <2>1. CASE x = w
    BY <1>1, <1>2, <2>1
  <2>2. CASE x # w
    <3>1. HasShape(Kept, call[x], audit[x], x \in lost, vouched[x])
      BY DEF IInv, Shape
    <3> QED BY <1>1, <1>2, <2>2, <3>1 DEF HasShape
  <2> QED BY <2>1, <2>2
<1>4. \A x \in Workers : \A d, f : (Putting(x, d)' <=> Putting(x, d)) /\ (Writing(x, d, f)' <=> Writing(x, d, f))
  BY <1>1 DEF Putting, Writing, At, OpenStages
<1>5. PutsInv'
  BY <1>4 DEF IInv, PutsInv, TempWritten, BlobWritten
<1> QED BY <1>1, <1>3, <1>5 DEF Shape

\* The same where no store and no history changes.
LEMMA OneStep ==
    ASSUME IInv, NEW w \in Workers, NEW r \in Calls,
           call' = [call EXCEPT ![w] = r], UNCHANGED <<stores, histories>>,
           call[w].stage \notin OpenStages, r.stage \notin OpenStages,
           HasShape(Kept, r, audit[w], w \in lost, vouched[w])
    PROVE  IInv'
<1>1. /\ host' = host /\ blobs' = blobs /\ temps' = temps /\ trusted' = trusted
      /\ emitCache' = emitCache /\ execCache' = execCache
      /\ audit' = audit /\ lost' = lost /\ cut' = cut /\ vouched' = vouched
  BY DEF stores, files, histories
<1>2. call' \in [Workers -> Calls] /\ Shape' /\ PutsInv'
  BY <1>1, OneCall
<1>3. TypeOK'
  BY <1>1, <1>2 DEF IInv, TypeOK
<1>4. EntriesMatchKeys' /\ TrustIsVouched' /\ EntriesAreKept'
  BY <1>1 DEF IInv, EntriesMatchKeys, TrustIsVouched, EntriesAreKept, Kept, Present
<1> QED BY <1>2, <1>3, <1>4 DEF IInv

\* Goto changes the stage of one call and nothing else of it.
LEMMA GotoIs ==
    ASSUME TypeOK, NEW w \in Workers, NEW s \in Stages, Goto(w, s)
    PROVE  \E r \in Calls : /\ call' = [call EXCEPT ![w] = r]
                            /\ r.stage = s /\ r.plan = call[w].plan /\ r.args = call[w].args
                            /\ r.resolved = call[w].resolved /\ r.got = call[w].got
                            /\ r.subject = call[w].subject /\ r.file = call[w].file
<1> DEFINE r == [call[w] EXCEPT !.stage = s]
<1>1. call[w] \in Calls
  BY DEF TypeOK
<1>2. r \in Calls /\ r.stage = s /\ r.plan = call[w].plan /\ r.args = call[w].args
        /\ r.resolved = call[w].resolved /\ r.got = call[w].got
        /\ r.subject = call[w].subject /\ r.file = call[w].file
  BY <1>1 DEF Calls
<1>3. call' = [call EXCEPT ![w] = r]
  BY DEF Goto, TypeOK
<1> HIDE DEF r
<1> QED BY <1>2, <1>3

\* A failed call holds nothing that its stage promises.
FailedShape(r, v) == \A s, a, l : a \in {<<>>, <<"failure">>} => HasShape(s, r, a, l, v)

LEMMA FailsIs ==
    ASSUME IInv, NEW w \in Workers, Fails(w),
           call[w].stage \notin {"idle", "ok", "error"} \cup PutStages
    PROVE  \E r \in Calls : /\ call' = [call EXCEPT ![w] = r]
                            /\ r.stage = "error"
                            /\ FailedShape(r, vouched[w])
<1> DEFINE r == [call[w] EXCEPT !.stage = "error", !.got = None]
<1>1. call[w] \in Calls /\ HasShape(Kept, call[w], audit[w], w \in lost, vouched[w])
  BY DEF IInv, TypeOK, Shape
<1>2. r \in Calls /\ r.stage = "error" /\ r.plan = call[w].plan /\ r.args = call[w].args
        /\ r.resolved = call[w].resolved /\ r.file = call[w].file
  BY <1>1 DEF Calls
<1>3. call' = [call EXCEPT ![w] = r]
  BY DEF Fails, IInv, TypeOK
<1> HIDE DEF r
<1>4. call[w].plan # None /\ call[w].args \in Args /\ call[w].resolved \subseteq vouched[w]
        /\ call[w].file = "none"
  BY <1>1 DEF HasShape, PutStages
<1>5. FailedShape(r, vouched[w])
  BY <1>2, <1>4 DEF HasShape, FailedShape, PutStages
<1> QED BY <1>2, <1>3, <1>5

\* A step that only fails the call.
LEMMA FailStep ==
    ASSUME IInv, NEW w \in Workers, Fails(w), UNCHANGED <<stores, histories>>,
           call[w].stage \notin {"idle", "ok", "error"} \cup PutStages
    PROVE  IInv'
<1>1. PICK r \in Calls : /\ call' = [call EXCEPT ![w] = r] /\ r.stage = "error"
                         /\ FailedShape(r, vouched[w])
  BY FailsIs
<1>2. audit[w] = <<>>
  BY DEF IInv, Shape, HasShape, PutStages
<1>3. HasShape(Kept, r, audit[w], w \in lost, vouched[w])
  BY <1>1, <1>2 DEF FailedShape
<1> QED BY <1>1, <1>3, OneStep DEF OpenStages, PutStages

\* A step that only changes the stage, to one whose promises are kept.
LEMMA GotoStep ==
    ASSUME IInv, NEW w \in Workers, NEW s \in Stages, Goto(w, s), UNCHANGED <<stores, histories>>,
           call[w].stage \notin {"idle", "ok", "error"} \cup PutStages,
           s \notin {"idle", "ok", "error", "save_open", "save_write", "log",
                     "emit_open", "emit_write", "resolve"} \cup PutStages,
           s \in {"compose", "parts"} => ~Endpoint(PlanOf(w)),
           s = "root" => PlanOf(w) \in Runtime,
           s = "gate" => Endpoint(PlanOf(w)),
           s \in {"lookup", "run"} => ~Linker(PlanOf(w)),
           s \in {"load", "lookup", "run"} /\ Endpoint(PlanOf(w)) =>
             Bound[PlanOf(w)] \subseteq vouched[w]
    PROVE  IInv'
<1>1. PICK r \in Calls : /\ call' = [call EXCEPT ![w] = r]
                         /\ r.stage = s /\ r.plan = call[w].plan /\ r.args = call[w].args
                         /\ r.resolved = call[w].resolved /\ r.file = call[w].file
  BY GotoIs DEF IInv
<1>2. HasShape(Kept, call[w], audit[w], w \in lost, vouched[w])
  BY DEF IInv, Shape
<1>3. HasShape(Kept, r, audit[w], w \in lost, vouched[w])
  BY <1>1, <1>2 DEF HasShape, PlanOf, PutStages
<1> QED BY <1>1, <1>3, OneStep DEF OpenStages, PutStages

Takes(w, s, g) == call' = [call EXCEPT ![w].stage = s, ![w].got = g]

\* A step that gives the call its result.
LEMMA TakesStep ==
    ASSUME IInv, NEW w \in Workers, NEW s \in {"save_open", "log"}, NEW g \in Results,
           Takes(w, s, g), UNCHANGED <<stores, histories>>,
           call[w].stage \notin {"idle", "ok", "error"} \cup PutStages,
           g.plan = PlanOf(w), g.resolved \subseteq vouched[w],
           s = "save_open" => g.resolved = Key(PlanOf(w)).resolved
    PROVE  IInv'
<1> DEFINE r == [call[w] EXCEPT !.stage = s, !.got = g]
<1>1. call[w] \in Calls
  BY DEF IInv, TypeOK
<1>2. r \in Calls /\ r.stage = s /\ r.plan = call[w].plan /\ r.args = call[w].args
        /\ r.resolved = call[w].resolved /\ r.got = g /\ r.file = call[w].file
  BY <1>1 DEF Calls
<1>3. call' = [call EXCEPT ![w] = r]
  BY DEF Takes, IInv, TypeOK
<1> HIDE DEF r
<1>4. HasShape(Kept, call[w], audit[w], w \in lost, vouched[w])
  BY DEF IInv, Shape
<1>5. HasShape(Kept, r, audit[w], w \in lost, vouched[w])
  BY <1>2, <1>4 DEF HasShape, PlanOf, PutStages
<1> QED BY <1>2, <1>3, <1>5, OneStep DEF OpenStages, PutStages

-----------------------------------------------------------------------------
(* Actions that only read the stores.                                      *)

LEMMA ComposeBeginsInv ==
    ASSUME IInv, NEW w \in Workers, ComposeBegins(w)
    PROVE  IInv'
<1>1. call[w].stage = "compose" /\ UNCHANGED <<stores, histories>> /\ ~Endpoint(PlanOf(w))
  BY DEF ComposeBegins, At, IInv, Shape, HasShape, PlanOf
<1>2. CASE Fails(w)
  BY <1>1, <1>2, FailStep DEF PutStages
<1>3. CASE Goto(w, "parts")
  BY <1>1, <1>3, GotoStep DEF PutStages
<1>4. CASE Goto(w, "load")
  BY <1>1, <1>4, GotoStep DEF PutStages
<1>5. CASE Goto(w, "lookup") /\ PlanOf(w) \notin Runtime
  BY <1>1, <1>5, GotoStep DEF Linker, PutStages
<1> QED BY <1>2, <1>3, <1>4, <1>5 DEF ComposeBegins, Composed

LEMMA ComposeReadsInv ==
    ASSUME IInv, NEW w \in Workers, ComposeReads(w)
    PROVE  IInv'
<1>1. /\ call[w].stage = "parts" /\ UNCHANGED <<stores, histories>>
      /\ PlanOf(w) \in Plans
  BY PlanIs DEF ComposeReads, At, PutStages, PlanOf
<1>2. CASE Fails(w)
  BY <1>1, <1>2, FailStep DEF PutStages
<1>3. CASE call' = [call EXCEPT ![w].stage = "put", ![w].subject = Artifact[PlanOf(w)]]
  <2> DEFINE r == [call[w] EXCEPT !.stage = "put", !.subject = Artifact[PlanOf(w)]]
  <2>1. call[w] \in Calls /\ Artifact[PlanOf(w)] \in Digests
    BY <1>1, PlanAssumption DEF IInv, TypeOK
  <2>2. r \in Calls /\ r.stage = "put" /\ r.plan = call[w].plan /\ r.args = call[w].args
          /\ r.resolved = call[w].resolved /\ r.subject = Artifact[PlanOf(w)]
          /\ r.file = call[w].file
    BY <2>1 DEF Calls
  <2>3. call' = [call EXCEPT ![w] = r]
    BY <1>3 DEF IInv, TypeOK
  <2> HIDE DEF r
  <2>4. HasShape(Kept, call[w], audit[w], w \in lost, vouched[w])
    BY DEF IInv, Shape
  <2>5. HasShape(Kept, r, audit[w], w \in lost, vouched[w])
    BY <1>1, <2>1, <2>2, <2>4 DEF HasShape, PlanOf, PutStages
  <2> QED BY <1>1, <2>2, <2>3, <2>5, OneStep DEF OpenStages
<1> QED BY <1>2, <1>3 DEF ComposeReads

LEMMA RootLoadsInv ==
    ASSUME IInv, NEW w \in Workers, RootLoads(w)
    PROVE  IInv'
<1>1. call[w].stage = "root" /\ UNCHANGED <<stores, histories>>
  BY DEF RootLoads, At
<1>2. CASE Fails(w)
  BY <1>1, <1>2, FailStep DEF PutStages
<1>3. CASE Goto(w, "guest")
  BY <1>1, <1>3, GotoStep DEF PutStages
<1>4. CASE Goto(w, "compose") /\ Root[PlanOf(w)] \in Drives
  BY <1>1, <1>4, GotoStep DEF PutStages, Endpoint
<1>5. CASE Goto(w, "gate") /\ Root[PlanOf(w)] \notin Drives
  <2>1. Endpoint(PlanOf(w))
    BY <1>1, <1>5 DEF Endpoint, IInv, Shape, HasShape, PlanOf
  <2> QED BY <1>1, <1>5, <2>1, GotoStep DEF PutStages
<1> QED BY <1>2, <1>3, <1>4, <1>5 DEF RootLoads

LEMMA ProviderCheckedInv ==
    ASSUME IInv, NEW w \in Workers, ProviderChecked(w)
    PROVE  IInv'
<1>1. call[w].stage = "gate" /\ UNCHANGED <<stores, histories>>
  BY DEF ProviderChecked, At
<1>2. CASE Fails(w)
  BY <1>1, <1>2, FailStep DEF PutStages
<1>3. CASE Goto(w, "load") /\ Bound[PlanOf(w)] \subseteq trusted
  <2>1. Bound[PlanOf(w)] \subseteq vouched[w]
    BY <1>3 DEF IInv, TrustIsVouched
  <2> QED BY <1>1, <1>3, <2>1, GotoStep DEF PutStages
<1> QED BY <1>2, <1>3 DEF ProviderChecked

LEMMA LoadsInv ==
    ASSUME IInv, NEW w \in Workers, Loads(w)
    PROVE  IInv'
<1>1. call[w].stage = "load" /\ UNCHANGED <<stores, histories>>
  BY DEF Loads, At
<1>2. Endpoint(PlanOf(w)) => Bound[PlanOf(w)] \subseteq vouched[w]
  BY <1>1 DEF IInv, Shape, HasShape, PlanOf
<1>3. CASE Fails(w)
  BY <1>1, <1>3, FailStep DEF PutStages
<1>4. CASE Goto(w, "run") /\ PlanOf(w) \notin Runtime
  BY <1>1, <1>4, GotoStep DEF PutStages, Linker, Endpoint
<1>5. CASE Goto(w, "guest")
  BY <1>1, <1>5, GotoStep DEF PutStages
<1>6. CASE Goto(w, "lookup") /\ Root[PlanOf(w)] \notin Drives
  BY <1>1, <1>2, <1>6, GotoStep DEF PutStages, Linker
<1> QED BY <1>3, <1>4, <1>5, <1>6 DEF Loads, Loaded

LEMMA LooksUpInv ==
    ASSUME IInv, NEW w \in Workers, LooksUp(w)
    PROVE  IInv'
<1>1. call[w].stage = "lookup" /\ UNCHANGED <<stores, histories>>
  BY DEF LooksUp, At
<1>2. /\ PlanOf(w) \in Plans /\ ~Linker(PlanOf(w))
      /\ Endpoint(PlanOf(w)) => Bound[PlanOf(w)] \subseteq vouched[w]
  BY <1>1, PlanIs DEF IInv, Shape, HasShape, PlanOf, PutStages
<1>3. CASE Goto(w, "run")
  BY <1>1, <1>2, <1>3, GotoStep DEF PutStages
<1>4. CASE Goto(w, "load")
  BY <1>1, <1>2, <1>4, GotoStep DEF PutStages
<1>5. CASE execCache[Key(PlanOf(w))] \notin {NoFile, Torn}
           /\ Takes(w, "log", execCache[Key(PlanOf(w))])
  <2>1. PICK p \in Plans : p = PlanOf(w)
    BY <1>2
  <2>2. execCache[Key(p)] \in Results /\ execCache[Key(p)].plan = p
          /\ execCache[Key(p)].resolved = Key(p).resolved
    BY <1>5, <2>1, KeyResolved DEF IInv, TypeOK, EntriesMatchKeys
  <2>3. PICK g \in Results : g = execCache[Key(p)]
    BY <2>2
  <2>4. g.plan = PlanOf(w) /\ g.resolved \subseteq vouched[w]
    BY <1>2, <2>1, <2>2, <2>3, KeyResolved DEF Endpoint, Linker
  <2>5. Takes(w, "log", g)
    BY <1>5, <2>1, <2>3
  <2> QED BY <1>1, <2>4, <2>5, TakesStep DEF PutStages
<1> QED BY <1>3, <1>4, <1>5 DEF LooksUp, Takes

\* What a run yields is a result for its plan.
LEMMA OutcomeIs ==
    ASSUME IInv, NEW w \in Workers, call[w].stage \in {"run", "guest"}
    PROVE  \E g \in Results : /\ g = Outcome(w)
                              /\ g.plan = PlanOf(w)
                              /\ g.resolved \subseteq vouched[w]
                              /\ At(w, "run") => g.resolved = Key(PlanOf(w)).resolved
<1>1. HasShape(Kept, call[w], audit[w], w \in lost, vouched[w])
        /\ call[w].resolved \in SUBSET Components /\ host \in Hosts
  BY DEF IInv, Shape, TypeOK, Calls
<1>2. PICK p \in Plans : p = PlanOf(w)
  BY PlanIs DEF PutStages, PlanOf
<1>3. At(w, "run") => Key(p).resolved \subseteq vouched[w]
  BY <1>1, <1>2, KeyResolved DEF HasShape, At, PlanOf, Endpoint, Linker
<1>4. PICK s \in SUBSET Components : /\ s = IF At(w, "guest") THEN call[w].resolved
                                            ELSE Key(p).resolved
                                     /\ s \subseteq vouched[w]
  BY <1>1, <1>3, KeyResolved DEF HasShape, At
<1>5. call[w].args \in Args
  BY PlanIs DEF PutStages
<1> DEFINE g == [plan |-> p, args |-> call[w].args, host |-> host, resolved |-> s]
<1>6. g \in Results /\ g.plan = p /\ g.resolved = s
  BY <1>1, <1>5 DEF Results
<1>7. g = Outcome(w)
  BY <1>2, <1>4 DEF Outcome
<1> HIDE DEF g
<1>8. At(w, "run") => s = Key(p).resolved
  BY <1>4 DEF At
<1> QED BY <1>2, <1>4, <1>6, <1>7, <1>8

LEMMA RunsInv ==
    ASSUME IInv, NEW w \in Workers, Runs(w)
    PROVE  IInv'
<1>1. At(w, "run") /\ call[w].stage = "run" /\ UNCHANGED <<stores, histories>>
        /\ Takes(w, "save_open", Outcome(w))
  BY DEF Runs, At, Takes
<1>2. PICK g \in Results : /\ g = Outcome(w)
                           /\ g.plan = PlanOf(w)
                           /\ g.resolved \subseteq vouched[w]
                           /\ g.resolved = Key(PlanOf(w)).resolved
  BY <1>1, OutcomeIs
<1>3. Takes(w, "save_open", g)
  BY <1>1, <1>2
<1> QED BY <1>1, <1>2, <1>3, TakesStep DEF PutStages

LEMMA RunTrapsInv ==
    ASSUME IInv, NEW w \in Workers, RunTraps(w)
    PROVE  IInv'
<1>1. call[w].stage = "run" /\ UNCHANGED <<stores, histories>>
  BY DEF RunTraps, At
<1>2. CASE Fails(w)
  BY <1>1, <1>2, FailStep DEF PutStages
<1>3. CASE Goto(w, "log_failure")
  BY <1>1, <1>3, GotoStep DEF PutStages
<1> QED BY <1>2, <1>3 DEF RunTraps

LEMMA GuestInv ==
    ASSUME IInv, NEW w \in Workers, GuestEnds(w) \/ GuestTraps(w)
    PROVE  IInv'
<1>1. call[w].stage = "guest" /\ UNCHANGED <<stores, histories>>
  BY DEF GuestEnds, GuestTraps, At
<1>2. CASE GuestTraps(w)
  BY <1>1, <1>2, FailStep DEF PutStages, GuestTraps
<1>3. CASE GuestEnds(w)
  <2>1. Takes(w, "log", Outcome(w))
    BY <1>3 DEF GuestEnds, Takes
  <2>2. PICK g \in Results : /\ g = Outcome(w)
                             /\ g.plan = PlanOf(w)
                             /\ g.resolved \subseteq vouched[w]
    BY <1>1, OutcomeIs
  <2>3. Takes(w, "log", g)
    BY <2>1, <2>2
  <2> QED BY <1>1, <2>2, <2>3, TakesStep DEF PutStages
<1> QED BY <1>2, <1>3

\* A step of a guest that changes what it has asked for or resolved.
LEMMA AsksInv ==
    ASSUME IInv, NEW w \in Workers, NEW r \in Calls, call' = [call EXCEPT ![w] = r],
           UNCHANGED <<stores, histories>>,
           call[w].stage \in {"guest", "resolve"}, r.stage \in {"guest", "resolve"},
           r.plan = call[w].plan, r.args = call[w].args, r.file = call[w].file,
           r.resolved \subseteq vouched[w], r.stage = "resolve" => r.subject \in vouched[w]
    PROVE  IInv'
<1>1. HasShape(Kept, call[w], audit[w], w \in lost, vouched[w])
  BY DEF IInv, Shape
<1>2. HasShape(Kept, r, audit[w], w \in lost, vouched[w])
  BY <1>1 DEF HasShape, PutStages
<1> QED BY <1>2, OneStep DEF OpenStages

LEMMA GuestAsksInv ==
    ASSUME IInv, NEW w \in Workers, NEW c \in Components, GuestAsks(w, c)
    PROVE  IInv'
<1> DEFINE r == [call[w] EXCEPT !.stage = "resolve", !.subject = c]
<1>1. call[w] \in Calls /\ call[w].stage = "guest" /\ c \in vouched[w] /\ c \in Digests
        /\ call[w].resolved \subseteq vouched[w] /\ UNCHANGED <<stores, histories>>
  BY PlanAssumption DEF GuestAsks, At, IInv, TypeOK, TrustIsVouched, Shape, HasShape
<1>2. r \in Calls /\ r.stage = "resolve" /\ r.plan = call[w].plan /\ r.args = call[w].args
        /\ r.resolved = call[w].resolved /\ r.subject = c /\ r.file = call[w].file
  BY <1>1 DEF Calls
<1>3. call' = [call EXCEPT ![w] = r]
  BY DEF GuestAsks, IInv, TypeOK
<1> HIDE DEF r
<1> QED BY <1>1, <1>2, <1>3, AsksInv

LEMMA GuestResolvesInv ==
    ASSUME IInv, NEW w \in Workers, GuestResolves(w)
    PROVE  IInv'
<1>1. /\ call[w] \in Calls /\ call[w].stage = "resolve" /\ call[w].subject \in vouched[w]
      /\ call[w].resolved \subseteq vouched[w] /\ vouched[w] \subseteq Components
      /\ UNCHANGED <<stores, histories>>
  BY DEF GuestResolves, At, IInv, TypeOK, Shape, HasShape
<1>2. PICK got \in SUBSET {call[w].subject} :
        call' = [call EXCEPT ![w].stage = "guest", ![w].subject = None,
                             ![w].resolved = @ \cup got]
  BY DEF GuestResolves
<1> DEFINE r == [call[w] EXCEPT !.stage = "guest", !.subject = None, !.resolved = @ \cup got]
<1>3. call[w].resolved \cup got \in SUBSET Components
  BY <1>1
<1>4. r \in Calls /\ r.stage = "guest" /\ r.plan = call[w].plan /\ r.args = call[w].args
        /\ r.resolved = call[w].resolved \cup got /\ r.file = call[w].file
  BY <1>1, <1>3 DEF Calls
<1>5. call' = [call EXCEPT ![w] = r]
  BY <1>2 DEF IInv, TypeOK
<1> HIDE DEF r
<1>6. r.resolved \subseteq vouched[w]
  BY <1>1, <1>4
<1> QED BY <1>1, <1>4, <1>5, <1>6, AsksInv

-----------------------------------------------------------------------------
(* Puts.  Calls other than w keep the promises of their stage when the     *)
(* files they have open get another name.                                  *)

\* The calls of a step of the put of w: w becomes r, the others are as they were but
\* for the place of their open file.
PutMoves(w, r) ==
    /\ call' \in [Workers -> Calls] /\ call'[w] = r
    /\ \A x \in Workers \ {w} :
          /\ call'[x].stage = call[x].stage /\ call'[x].plan = call[x].plan
          /\ call'[x].args = call[x].args /\ call'[x].resolved = call[x].resolved
          /\ call'[x].got = call[x].got /\ call'[x].subject = call[x].subject
          /\ call[x].file = "none" => call'[x].file = "none"

LEMMA PutShape ==
    ASSUME IInv, NEW w \in Workers, NEW r, PutMoves(w, r), Kept \subseteq Kept',
           audit' = audit, lost' = lost, vouched' = vouched,
           HasShape(Kept', r, audit[w], w \in lost, vouched[w])
    PROVE  Shape'
<1>1. ASSUME NEW x \in Workers
      PROVE  HasShape(Kept', call'[x], audit'[x], x \in lost', vouched'[x])
  <2>1. CASE x = w
    BY <2>1 DEF PutMoves
  <2>2. CASE x # w
    <3>1. HasShape(Kept, call[x], audit[x], x \in lost, vouched[x])
      BY DEF IInv, Shape
    <3>2. HasShape(Kept', call[x], audit[x], x \in lost, vouched[x])
      BY <3>1, ShapeGrows
    <3> QED BY <2>2, <3>2 DEF PutMoves, HasShape
  <2> QED BY <2>1, <2>2
<1> QED BY <1>1 DEF Shape

\* Only w moves.
LEMMA OnlyMoves ==
    ASSUME IInv, NEW w \in Workers, NEW r \in Calls, call' = [call EXCEPT ![w] = r]
    PROVE  PutMoves(w, r)
BY DEF IInv, TypeOK, PutMoves

LEMMA MovedIs ==
    ASSUME IInv, NEW d, NEW f \in {"temp", "blob", "gone"}, NEW g \in {"temp", "blob", "gone"},
           NEW x \in Workers
    PROVE  LET c == Moved(d, f, g)[x] IN
           /\ c \in Calls
           /\ c.stage = call[x].stage /\ c.plan = call[x].plan /\ c.args = call[x].args
           /\ c.resolved = call[x].resolved /\ c.got = call[x].got /\ c.subject = call[x].subject
           /\ c.file = IF call[x].subject # d THEN call[x].file
                       ELSE IF call[x].file = "temp" THEN f
                       ELSE IF call[x].file = "blob" THEN g ELSE call[x].file
<1>1. call[x] \in Calls
  BY DEF IInv, TypeOK
<1>2. Moved(d, f, g)[x] = IF call[x].subject # d THEN call[x]
                          ELSE IF call[x].file = "temp" THEN [call[x] EXCEPT !.file = f]
                          ELSE IF call[x].file = "blob" THEN [call[x] EXCEPT !.file = g]
                          ELSE call[x]
  BY DEF Moved
<1> QED BY <1>1, <1>2 DEF Calls

LEMMA PutFailsIs ==
    ASSUME IInv, NEW w \in Workers, PutFails(w), call[w].stage \in PutStages
    PROVE  \E r \in Calls : /\ call' = [call EXCEPT ![w] = r]
                            /\ r.stage \in {"idle", "error"}
                            /\ HasShape(Kept, r, audit[w], w \in lost, vouched[w])
<1>1. call[w] \in Calls /\ HasShape(Kept, call[w], audit[w], w \in lost, vouched[w])
  BY DEF IInv, TypeOK, Shape
<1>2. CASE call[w].plan = None
  <2>1. call' = [call EXCEPT ![w] = IdleCall]
    BY <1>2 DEF PutFails, IInv, TypeOK
  <2> QED BY <2>1, IdleType, IdleShape
<1>3. CASE call[w].plan # None
  <2> DEFINE r == [call[w] EXCEPT !.stage = "error", !.subject = None, !.file = "none"]
  <2>1. r \in Calls /\ r.stage = "error" /\ r.plan = call[w].plan /\ r.args = call[w].args
          /\ r.resolved = call[w].resolved /\ r.file = "none"
    BY <1>1 DEF Calls
  <2>2. call' = [call EXCEPT ![w] = r]
    BY <1>3 DEF PutFails, IInv, TypeOK
  <2> HIDE DEF r
  <2>3. HasShape(Kept, r, audit[w], w \in lost, vouched[w])
    BY <1>1, <1>3, <2>1 DEF HasShape, PutStages
  <2> QED BY <2>1, <2>2, <2>3
<1> QED BY <1>2, <1>3

\* What is left to show of a step of a put.
LEMMA PutStep ==
    ASSUME IInv, NEW w \in Workers, NEW r, PutMoves(w, r), Kept \subseteq Kept',
           UNCHANGED <<host, trusted, emitCache, execCache, audit, lost, vouched>>,
           HasShape(Kept', r, audit[w], w \in lost, vouched[w]),
           blobs' \in [Digests -> {NoFile, Torn, "whole"}],
           temps' \in [Digests -> {NoFile, Torn, "whole"}], cut' \subseteq Digests, PutsInv'
    PROVE  IInv'
<1>1. Shape'
  BY PutShape
<1>2. TypeOK'
  BY DEF IInv, TypeOK, PutMoves
<1>3. EntriesMatchKeys' /\ TrustIsVouched' /\ EntriesAreKept'
  BY DEF IInv, EntriesMatchKeys, TrustIsVouched, EntriesAreKept
<1> QED BY <1>1, <1>2, <1>3 DEF IInv

LEMMA PutBlobInv ==
    ASSUME IInv, NEW w \in Workers, NEW d \in Digests, PutBlob(w, d)
    PROVE  IInv'
<1> DEFINE r == [IdleCall EXCEPT !.stage = "put", !.subject = d]
<1>1. /\ r \in Calls /\ r.stage = "put" /\ r.plan = None /\ r.subject = d /\ r.resolved = {}
      /\ r.file = "none"
  BY IdleType DEF Calls
<1>2. call' = [call EXCEPT ![w] = r] /\ UNCHANGED <<stores, histories>>
        /\ call[w].stage \in {"idle", "ok", "error"}
  BY DEF PutBlob, Resting
<1> HIDE DEF r
<1>3. None \notin Plans /\ ~Endpoint(None)
  BY MarkAssumption, PlanAssumption DEF Endpoint
<1>4. HasShape(Kept, r, audit[w], w \in lost, vouched[w])
  BY <1>1, <1>3 DEF HasShape, PutStages
<1> QED BY <1>1, <1>2, <1>4, OneStep DEF OpenStages

LEMMA PutOpensInv ==
    ASSUME IInv, NEW w \in Workers, PutOpens(w)
    PROVE  IInv'
<1> PICK d : d = call[w].subject
  OBVIOUS
<1>1. /\ call[w].stage = "put" /\ call[w] \in Calls /\ d \in Digests
      /\ HasShape(Kept, call[w], audit[w], w \in lost, vouched[w])
      /\ blobs' = blobs /\ cut' = cut /\ UNCHANGED <<host, trusted, emitCache, execCache, histories>>
  BY DEF PutOpens, At, IInv, TypeOK, Shape, HasShape, PutStages, histories
<1>2. CASE PutFails(w) /\ UNCHANGED temps
  <2>1. PICK r \in Calls : /\ call' = [call EXCEPT ![w] = r]
                           /\ r.stage \in {"idle", "error"}
                           /\ HasShape(Kept, r, audit[w], w \in lost, vouched[w])
    BY <1>1, <1>2, PutFailsIs DEF PutStages
  <2>2. UNCHANGED <<stores, histories>>
    BY <1>1, <1>2 DEF stores, files
  <2> QED BY <1>1, <2>1, <2>2, OneStep DEF OpenStages
<1>3. CASE /\ temps' = [temps EXCEPT ![d] = Torn]
           /\ call' = [call EXCEPT ![w].stage = "put_write", ![w].file = "temp"]
  <2> DEFINE r == [call[w] EXCEPT !.stage = "put_write", !.file = "temp"]
  <2>1. r \in Calls /\ r.stage = "put_write" /\ r.plan = call[w].plan /\ r.args = call[w].args
          /\ r.resolved = call[w].resolved /\ r.subject = d /\ r.file = "temp"
    BY <1>1 DEF Calls
  <2>2. call' = [call EXCEPT ![w] = r]
    BY <1>3 DEF IInv, TypeOK
  <2> HIDE DEF r
  <2>3. PutMoves(w, r) /\ \A x \in Workers : call'[x] = IF x = w THEN r ELSE call[x]
    BY <2>1, <2>2, OnlyMoves DEF IInv, TypeOK
  <2>4. HasShape(Kept, r, audit[w], w \in lost, vouched[w])
    BY <1>1, <2>1 DEF HasShape, PutStages
  <2>5. Kept' = Kept
    BY <1>1 DEF Kept, Present
  <2>6. temps' \in [Digests -> {NoFile, Torn, "whole"}] /\ temps'[d] = Torn
          /\ \A e \in Digests : e # d => temps'[e] = temps[e]
    BY <1>1, <1>3 DEF IInv, TypeOK
  <2>7. /\ \A x \in Workers : \A e, f : Writing(x, e, f) => Writing(x, e, f)'
        /\ \A x \in Workers : \A e : e # d /\ Putting(x, e)' => Putting(x, e)
        /\ Writing(w, d, "temp")'
    <3>1. \A x \in Workers \ {w} : call'[x] = call[x]
      BY <2>3
    <3>2. call'[w] = r
      BY <2>3
    <3>3. ASSUME NEW x \in Workers, NEW e, NEW f, Writing(x, e, f) PROVE Writing(x, e, f)'
      <4>1. x # w
        BY <1>1, <3>3 DEF Writing, At
      <4> QED BY <3>1, <3>3, <4>1 DEF Writing, At
    <3>4. ASSUME NEW x \in Workers, NEW e, e # d, Putting(x, e)' PROVE Putting(x, e)
      <4>1. x # w
        BY <2>1, <3>2, <3>4 DEF Putting
      <4> QED BY <3>1, <3>4, <4>1 DEF Putting
    <3>5. Writing(w, d, "temp")'
      BY <2>1, <3>2 DEF Writing, At
    <3> QED BY <3>3, <3>4, <3>5
  <2>8. PutsInv'
    <3> SUFFICES ASSUME NEW e \in Digests, e \notin cut
                 PROVE  TempWritten(e)' /\ BlobWritten(e)'
      BY <1>1 DEF PutsInv
    <3>1. TempWritten(e) /\ BlobWritten(e)
      BY DEF IInv, PutsInv
    <3>2. BlobWritten(e)'
      BY <1>1, <2>7, <3>1 DEF BlobWritten
    <3>3. CASE e = d
      <4>1. \E y \in Workers : Writing(y, d, "temp")'
        BY <2>7
      <4>2. TempWritten(d)'
        BY <4>1 DEF TempWritten
      <4> QED BY <3>2, <3>3, <4>2
    <3>4. CASE e # d
      <4>1. temps'[e] = temps[e]
        BY <2>6, <3>4
      <4>2. ASSUME temps'[e] = Torn, \E x \in Workers : Putting(x, e)'
            PROVE  \E y \in Workers : Writing(y, e, "temp")'
        BY <2>7, <3>1, <3>4, <4>1, <4>2 DEF TempWritten
      <4>3. TempWritten(e)'
        BY <4>2 DEF TempWritten
      <4> QED BY <3>2, <4>3
    <3> QED BY <3>3, <3>4
  <2>9. UNCHANGED <<audit, lost, vouched>> /\ cut' \subseteq Digests
        /\ blobs' \in [Digests -> {NoFile, Torn, "whole"}]
    BY <1>1 DEF histories, IInv, TypeOK
  <2> QED BY <1>1, <2>3, <2>4, <2>5, <2>6, <2>8, <2>9, PutStep
<1> QED BY <1>1, <1>2, <1>3 DEF PutOpens

LEMMA PutWritesInv ==
    ASSUME IInv, NEW w \in Workers, PutWrites(w)
    PROVE  IInv'
<1> PICK d : d = call[w].subject
  OBVIOUS
<1> PICK f : f = call[w].file
  OBVIOUS
<1>1. /\ call[w].stage = "put_write" /\ call[w] \in Calls /\ d \in Digests
      /\ HasShape(Kept, call[w], audit[w], w \in lost, vouched[w])
      /\ UNCHANGED <<host, trusted, emitCache, execCache, audit, lost, vouched>>
      /\ blobs \in [Digests -> {NoFile, Torn, "whole"}]
      /\ temps \in [Digests -> {NoFile, Torn, "whole"}] /\ cut \subseteq Digests
  BY DEF PutWrites, At, IInv, TypeOK, Shape, HasShape, PutStages
<1>2. Putting(w, d) /\ \A x \in Workers : \A e, g : Writing(x, e, g) => Putting(x, e)
  BY <1>1 DEF Putting, Writing, At
<1>3. CASE /\ temps' = IF f = "temp" THEN [temps EXCEPT ![d] = "whole"] ELSE temps
           /\ blobs' = IF f = "blob" THEN [blobs EXCEPT ![d] = "whole"] ELSE blobs
           /\ call' = [call EXCEPT ![w].stage = "put_rename", ![w].file = "none"]
           /\ UNCHANGED cut
  <2> DEFINE r == [call[w] EXCEPT !.stage = "put_rename", !.file = "none"]
  <2>1. r \in Calls /\ r.stage = "put_rename" /\ r.plan = call[w].plan /\ r.args = call[w].args
          /\ r.resolved = call[w].resolved /\ r.subject = d /\ r.file = "none"
    BY <1>1 DEF Calls
  <2>2. call' = [call EXCEPT ![w] = r]
    BY <1>3 DEF IInv, TypeOK
  <2> HIDE DEF r
  <2>3. PutMoves(w, r) /\ \A x \in Workers : call'[x] = IF x = w THEN r ELSE call[x]
    BY <2>1, <2>2, OnlyMoves DEF IInv, TypeOK
  <2>4. /\ temps' \in [Digests -> {NoFile, Torn, "whole"}]
        /\ blobs' \in [Digests -> {NoFile, Torn, "whole"}]
        /\ \A e \in Digests : temps'[e] = IF f = "temp" /\ e = d THEN "whole" ELSE temps[e]
        /\ \A e \in Digests : blobs'[e] = IF f = "blob" /\ e = d THEN "whole" ELSE blobs[e]
    BY <1>1, <1>3
  <2>5. Kept \subseteq Kept'
    BY <2>4, MarkAssumption DEF Kept, Present
  <2>6. HasShape(Kept, r, audit[w], w \in lost, vouched[w])
    BY <1>1, <2>1 DEF HasShape, PutStages
  <2>7. HasShape(Kept', r, audit[w], w \in lost, vouched[w])
    BY <2>5, <2>6, ShapeGrows
  <2>8. /\ \A x \in Workers : \A e : Putting(x, e)' <=> Putting(x, e)
        /\ \A x \in Workers : \A e, g : x # w /\ Writing(x, e, g) => Writing(x, e, g)'
        /\ \A e, g : Writing(w, e, g) => e = d /\ g = f
    BY <1>1, <2>1, <2>3 DEF Writing, Putting, At
  <2>9. ASSUME NEW e \in Digests, e \notin cut PROVE TempWritten(e)' /\ BlobWritten(e)'
    <3>1. TempWritten(e) /\ BlobWritten(e)
      BY <2>9 DEF IInv, PutsInv
    <3>2. TempWritten(e)'
      <4> SUFFICES ASSUME temps'[e] = Torn, NEW x \in Workers, Putting(x, e)'
                   PROVE  \E y \in Workers : Writing(y, e, "temp")'
        BY DEF TempWritten
      <4>1. temps[e] = Torn /\ ~(f = "temp" /\ e = d)
        BY <2>4, MarkAssumption
      <4>2. PICK y \in Workers : Writing(y, e, "temp")
        BY <2>8, <3>1, <4>1 DEF TempWritten
      <4> QED BY <2>8, <4>1, <4>2
    <3>3. BlobWritten(e)'
      <4> SUFFICES ASSUME blobs'[e] = Torn PROVE \E y \in Workers : Writing(y, e, "blob")'
        BY DEF BlobWritten
      <4>1. blobs[e] = Torn /\ ~(f = "blob" /\ e = d)
        BY <2>4, MarkAssumption
      <4>2. PICK y \in Workers : Writing(y, e, "blob")
        BY <3>1, <4>1 DEF BlobWritten
      <4> QED BY <2>8, <4>1, <4>2
    <3> QED BY <3>2, <3>3
  <2>10. PutsInv'
    BY <1>3, <2>9 DEF PutsInv
  <2> QED BY <1>1, <1>3, <2>3, <2>4, <2>5, <2>7, <2>10, PutStep
<1>4. CASE PutFails(w) /\ cut' = cut \cup (IF Cuts(w) THEN {d} ELSE {}) /\ UNCHANGED files
  <2>1. PICK r \in Calls : /\ call' = [call EXCEPT ![w] = r]
                           /\ r.stage \in {"idle", "error"}
                           /\ HasShape(Kept, r, audit[w], w \in lost, vouched[w])
    BY <1>1, <1>4, PutFailsIs DEF PutStages
  <2>2. PutMoves(w, r) /\ \A x \in Workers : call'[x] = IF x = w THEN r ELSE call[x]
    BY <2>1, OnlyMoves DEF IInv, TypeOK
  <2>3. blobs' = blobs /\ temps' = temps /\ Kept' = Kept
    BY <1>4 DEF files, Kept, Present
  <2>4. /\ \A x \in Workers : \A e : Putting(x, e)' <=> x # w /\ Putting(x, e)
        /\ \A x \in Workers : \A e, g : x # w /\ Writing(x, e, g) => Writing(x, e, g)'
        /\ \A e, g : Writing(w, e, g) => e = d /\ g = f
    BY <1>1, <2>1, <2>2 DEF Writing, Putting, At
  <2>5. ASSUME NEW e \in Digests, e \notin cut' PROVE TempWritten(e)' /\ BlobWritten(e)'
    <3>1. TempWritten(e) /\ BlobWritten(e) /\ (e = d => ~Cuts(w))
      BY <1>4, <2>5 DEF IInv, PutsInv
    <3>2. ASSUME temps[e] = Torn, NEW x \in Workers, x # w, Putting(x, e)
          PROVE  \E y \in Workers \ {w} : Writing(y, e, "temp")
      <4>1. PICK y \in Workers : Writing(y, e, "temp")
        BY <3>1, <3>2 DEF TempWritten
      <4>2. CASE y = w
        <5>1. e = d /\ f = "temp"
          BY <2>4, <4>1, <4>2
        <5> QED BY <3>1, <3>2, <5>1 DEF Cuts
      <4> QED BY <4>1, <4>2
    <3>3. ASSUME blobs[e] = Torn
          PROVE  \E y \in Workers \ {w} : Writing(y, e, "blob")
      <4>1. PICK y \in Workers : Writing(y, e, "blob")
        BY <3>1, <3>3 DEF BlobWritten
      <4>2. CASE y = w
        <5>1. e = d /\ f = "blob"
          BY <2>4, <4>1, <4>2
        <5> QED BY <3>1, <3>3, <5>1 DEF Cuts
      <4> QED BY <4>1, <4>2
    <3>4. TempWritten(e)'
      BY <2>3, <2>4, <3>2 DEF TempWritten
    <3>5. BlobWritten(e)'
      BY <2>3, <2>4, <3>3 DEF BlobWritten
    <3> QED BY <3>4, <3>5
  <2>6. PutsInv'
    BY <2>5 DEF PutsInv
  <2>7. cut' \subseteq Digests
    BY <1>1, <1>4
  <2> QED BY <1>1, <2>1, <2>2, <2>3, <2>6, <2>7, PutStep
<1> QED BY <1>3, <1>4 DEF PutWrites

LEMMA PutRenamesInv ==
    ASSUME IInv, NEW w \in Workers, PutRenames(w)
    PROVE  IInv'
<1> PICK d : d = call[w].subject
  OBVIOUS
<1> DEFINE r == IF PlanOf(w) = None THEN IdleCall
                ELSE [call[w] EXCEPT !.stage = "emit_open", !.subject = None]
<1>1. /\ call[w].stage = "put_rename" /\ call[w] \in Calls /\ d \in Digests
      /\ HasShape(Kept, call[w], audit[w], w \in lost, vouched[w]) /\ call[w].file = "none"
      /\ UNCHANGED <<host, trusted, emitCache, execCache, audit, lost, vouched>> /\ cut' = cut
      /\ blobs \in [Digests -> {NoFile, Torn, "whole"}]
      /\ temps \in [Digests -> {NoFile, Torn, "whole"}] /\ cut \subseteq Digests
  BY DEF PutRenames, At, IInv, TypeOK, Shape, HasShape, PutStages, histories
<1>2. CASE PutFails(w) /\ UNCHANGED files
  <2>1. PICK q \in Calls : /\ call' = [call EXCEPT ![w] = q]
                           /\ q.stage \in {"idle", "error"}
                           /\ HasShape(Kept, q, audit[w], w \in lost, vouched[w])
    BY <1>1, <1>2, PutFailsIs DEF PutStages
  <2>2. PutMoves(w, q) /\ \A x \in Workers : call'[x] = IF x = w THEN q ELSE call[x]
    BY <2>1, OnlyMoves DEF IInv, TypeOK
  <2>3. blobs' = blobs /\ temps' = temps /\ Kept' = Kept
    BY <1>2 DEF files, Kept, Present
  <2>4. /\ \A x \in Workers : \A e : Putting(x, e)' => Putting(x, e)
        /\ \A x \in Workers : \A e, g : Writing(x, e, g) => Writing(x, e, g)'
    BY <1>1, <2>1, <2>2 DEF Writing, Putting, At
  <2>5. PutsInv'
    BY <1>1, <2>3, <2>4 DEF IInv, PutsInv, TempWritten, BlobWritten
  <2> QED BY <1>1, <2>1, <2>2, <2>3, <2>5, PutStep
<1>3. CASE /\ temps[d] # NoFile
           /\ blobs' = [blobs EXCEPT ![d] = temps[d]]
           /\ temps' = [temps EXCEPT ![d] = NoFile]
           /\ call' = [Moved(d, "blob", "gone") EXCEPT ![w] =
                          IF PlanOf(w) = None THEN IdleCall
                          ELSE [@ EXCEPT !.stage = "emit_open", !.subject = None]]
  <2>1. Moved(d, "blob", "gone")[w] = call[w] /\ Moved(d, "blob", "gone") \in [Workers -> Calls]
    <3>1. Moved(d, "blob", "gone")[w] = call[w]
      BY <1>1 DEF Moved
    <3>2. \A x \in Workers : Moved(d, "blob", "gone")[x] \in Calls
      BY MovedIs
    <3>3. Moved(d, "blob", "gone") = [x \in Workers |-> Moved(d, "blob", "gone")[x]]
      BY DEF Moved
    <3> QED BY <3>1, <3>2, <3>3
  <2>2. call' = [Moved(d, "blob", "gone") EXCEPT ![w] = r]
    BY <1>3, <2>1
  <2>3. /\ r \in Calls /\ r.stage \in {"idle", "emit_open"}
        /\ r = IdleCall \/ /\ PlanOf(w) # None /\ r.stage = "emit_open" /\ r.plan = call[w].plan
                           /\ r.args = call[w].args /\ r.resolved = call[w].resolved
                           /\ r.file = "none"
    BY <1>1, IdleType DEF Calls
  <2> HIDE DEF r
  <2>4. call' \in [Workers -> Calls] /\ call'[w] = r
        /\ \A x \in Workers : x # w => call'[x] = Moved(d, "blob", "gone")[x]
    BY <2>1, <2>2, <2>3
  <2>5. PutMoves(w, r)
    <3>1. ASSUME NEW x \in Workers \ {w}
          PROVE  /\ call'[x].stage = call[x].stage /\ call'[x].plan = call[x].plan
                 /\ call'[x].args = call[x].args /\ call'[x].resolved = call[x].resolved
                 /\ call'[x].got = call[x].got /\ call'[x].subject = call[x].subject
                 /\ call[x].file = "none" => call'[x].file = "none"
      BY <2>4, MovedIs
    <3> QED BY <2>4, <3>1 DEF PutMoves
  <2>6. /\ blobs' \in [Digests -> {NoFile, Torn, "whole"}]
        /\ temps' \in [Digests -> {NoFile, Torn, "whole"}]
        /\ \A e \in Digests : blobs'[e] = IF e = d THEN temps[d] ELSE blobs[e]
        /\ \A e \in Digests : temps'[e] = IF e = d THEN NoFile ELSE temps[e]
    BY <1>1, <1>3
  <2>7. Kept \subseteq Kept' /\ d \in Kept'
    BY <1>1, <1>3, <2>6 DEF Kept, Present
  <2>8. HasShape(Kept', r, audit[w], w \in lost, vouched[w])
    <3>1. CASE r = IdleCall
      BY <3>1, IdleShape
    <3>2. CASE PlanOf(w) # None /\ r.stage = "emit_open" /\ r.plan = call[w].plan
               /\ r.args = call[w].args /\ r.resolved = call[w].resolved /\ r.file = "none"
      BY <1>1, <2>7, <3>2 DEF HasShape, PutStages, PlanOf
    <3> QED BY <2>3, <3>1, <3>2
  <2>9. /\ \A x \in Workers : \A e : Putting(x, e)' => Putting(x, e)
        /\ \A x \in Workers : Writing(x, d, "temp") => Writing(x, d, "blob")'
        /\ \A x \in Workers : \A e, g : e # d /\ Writing(x, e, g) => Writing(x, e, g)'
    <3>1. \A x \in Workers \ {w} :
            /\ call'[x].stage = call[x].stage /\ call'[x].subject = call[x].subject
            /\ call'[x].file = IF call[x].subject # d THEN call[x].file
                               ELSE IF call[x].file = "temp" THEN "blob"
                               ELSE IF call[x].file = "blob" THEN "gone" ELSE call[x].file
      BY <2>4, MovedIs
    <3>2. call'[w] = r /\ r.stage \notin {"put_write", "put_rename"}
      BY <2>3, <2>4
    <3>3. ASSUME NEW x \in Workers, NEW e, Putting(x, e)' PROVE Putting(x, e)
      <4>1. x # w
        BY <3>2, <3>3 DEF Putting
      <4> QED BY <3>1, <3>3, <4>1 DEF Putting
    <3>4. ASSUME NEW x \in Workers, NEW e, NEW g, Writing(x, e, g)
          PROVE  /\ e # d => Writing(x, e, g)'
                 /\ e = d /\ g = "temp" => Writing(x, d, "blob")'
      <4>1. x # w
        BY <1>1, <3>4 DEF Writing, At
      <4>2. call[x].subject = e /\ call[x].file = g
        BY <3>4 DEF Writing
      <4>3. e # d => Writing(x, e, g)'
        BY <3>1, <3>4, <4>1, <4>2 DEF Writing, At
      <4>4. e = d /\ g = "temp" => Writing(x, d, "blob")'
        <5> SUFFICES ASSUME e = d, g = "temp" PROVE Writing(x, d, "blob")'
          OBVIOUS
        <5>1. call'[x].file = "blob"
          BY <3>1, <4>1, <4>2
        <5> QED BY <3>1, <3>4, <4>1, <4>2, <5>1 DEF Writing, At
      <4> QED BY <4>3, <4>4
    <3> QED BY <3>3, <3>4
  <2>10. ASSUME NEW e \in Digests, e \notin cut PROVE TempWritten(e)' /\ BlobWritten(e)'
    <3>1. TempWritten(e) /\ BlobWritten(e)
      BY <2>10 DEF IInv, PutsInv
    <3>2. TempWritten(e)'
      BY <2>6, <2>9, <3>1, MarkAssumption DEF TempWritten
    <3>3. CASE e # d
      BY <2>6, <2>9, <3>1, <3>2, <3>3 DEF BlobWritten
    <3>4. CASE e = d
      <4>1. Putting(w, d) /\ blobs'[d] = temps[d]
        BY <1>1, <2>6 DEF Putting
      <4>2. temps[d] = Torn => \E y \in Workers : Writing(y, d, "temp")
        BY <3>1, <3>4, <4>1 DEF TempWritten
      <4>3. temps[d] = Torn => \E y \in Workers : Writing(y, d, "blob")'
        BY <2>9, <4>2
      <4>4. BlobWritten(d)'
        BY <4>1, <4>3 DEF BlobWritten
      <4> QED BY <3>2, <3>4, <4>4
    <3> QED BY <3>3, <3>4
  <2>11. PutsInv'
    BY <1>1, <2>10 DEF PutsInv
  <2> QED BY <1>1, <2>5, <2>6, <2>7, <2>8, <2>11, PutStep
<1> QED BY <1>2, <1>3 DEF PutRenames

-----------------------------------------------------------------------------
(* Actions that write a store or a history.                                *)

\* A step of one call that writes caches or histories and touches no blob.
LEMMA WriteStep ==
    ASSUME IInv, NEW w \in Workers, NEW r \in Calls, call' = [call EXCEPT ![w] = r],
           UNCHANGED <<host, files, trusted, cut>>,
           call[w].stage \notin OpenStages, r.stage \notin OpenStages,
           audit' \in [Workers -> Seq(Outcomes)], vouched' \in [Workers -> SUBSET Components],
           lost' \subseteq Workers, trusted \subseteq vouched'[w],
           \A x \in Workers \ {w} : /\ audit'[x] = audit[x] /\ vouched'[x] = vouched[x]
                                    /\ (x \in lost' <=> x \in lost),
           HasShape(Kept, r, audit'[w], w \in lost', vouched'[w]),
           emitCache' \in [Plans -> {NoFile, Torn, "entry"}], EntriesAreKept',
           execCache' \in [Keys -> {NoFile, Torn} \cup Results], EntriesMatchKeys'
    PROVE  IInv'
<1>1. blobs' = blobs /\ temps' = temps
  BY DEF files
<1>2. call' \in [Workers -> Calls] /\ Shape' /\ PutsInv'
  BY <1>1, OneCall
<1>3. TypeOK'
  BY <1>1, <1>2 DEF IInv, TypeOK
<1>4. TrustIsVouched'
  BY DEF IInv, TrustIsVouched
<1> QED BY <1>2, <1>3, <1>4 DEF IInv

LEMMA KeptStays == Kept' = Kept \/ blobs' # blobs
BY DEF Kept, Present

LEMMA BeginInv ==
    ASSUME IInv, NEW w \in Workers, NEW p \in Plans, NEW a \in Args, Begin(w, p, a)
    PROVE  IInv'
<1>1. PICK s \in {"root", "compose", "error"} :
        /\ Starts(w, p, a, s)
        /\ s = "root" => p \in Runtime
        /\ s = "compose" => p \notin Runtime
  BY DEF Begin
<1>2. UNCHANGED stores /\ call[w].stage \in {"idle", "ok", "error"}
  BY DEF Begin, Resting
<1> DEFINE r == [IdleCall EXCEPT !.stage = s, !.plan = p, !.args = a]
<1>3. r \in Calls /\ r.stage = s /\ r.plan = p /\ r.args = a /\ r.resolved = {} /\ r.file = "none"
  BY IdleType DEF Calls
<1>4. call' = [call EXCEPT ![w] = r]
  BY <1>1 DEF Starts
<1> HIDE DEF r
<1>5. HasShape(Kept, r, <<>>, FALSE, trusted)
  BY <1>1, <1>3, MarkAssumption DEF HasShape, Endpoint, PutStages
<1>6. /\ audit' = [audit EXCEPT ![w] = <<>>] /\ vouched' = [vouched EXCEPT ![w] = trusted]
      /\ lost' = lost \ {w} /\ cut' = cut
  BY <1>1 DEF Starts
<1>7. UNCHANGED <<host, files, trusted, emitCache, execCache>> /\ blobs' = blobs
  BY <1>2 DEF stores, files
<1>8. /\ audit' \in [Workers -> Seq(Outcomes)] /\ vouched' \in [Workers -> SUBSET Components]
      /\ audit'[w] = <<>> /\ vouched'[w] = trusted /\ lost' \subseteq Workers /\ w \notin lost'
      /\ \A x \in Workers \ {w} : /\ audit'[x] = audit[x] /\ vouched'[x] = vouched[x]
                                  /\ (x \in lost' <=> x \in lost)
  BY <1>6 DEF IInv, TypeOK
<1>9. EntriesAreKept' /\ EntriesMatchKeys'
  BY <1>7, KeptStays DEF IInv, EntriesMatchKeys, EntriesAreKept
<1>10. HasShape(Kept, r, audit'[w], w \in lost', vouched'[w])
  BY <1>5, <1>8 DEF HasShape
<1>11. emitCache' \in [Plans -> {NoFile, Torn, "entry"}]
         /\ execCache' \in [Keys -> {NoFile, Torn} \cup Results]
  BY <1>7 DEF IInv, TypeOK
<1> QED BY <1>1, <1>2, <1>3, <1>4, <1>6, <1>7, <1>8, <1>9, <1>10, <1>11, WriteStep
           DEF OpenStages

\* A step that writes one of the caches and leaves the histories alone.
LEMMA CacheStep ==
    ASSUME IInv, NEW w \in Workers, NEW r \in Calls, call' = [call EXCEPT ![w] = r],
           UNCHANGED <<host, files, trusted, histories>>,
           call[w].stage \notin OpenStages, r.stage \notin OpenStages,
           HasShape(Kept, r, audit[w], w \in lost, vouched[w]),
           emitCache' \in [Plans -> {NoFile, Torn, "entry"}], EntriesAreKept',
           execCache' \in [Keys -> {NoFile, Torn} \cup Results], EntriesMatchKeys'
    PROVE  IInv'
<1>1. audit' = audit /\ lost' = lost /\ cut' = cut /\ vouched' = vouched
  BY DEF histories
<1>2. /\ audit' \in [Workers -> Seq(Outcomes)] /\ vouched' \in [Workers -> SUBSET Components]
      /\ lost' \subseteq Workers /\ trusted \subseteq vouched'[w]
  BY <1>1 DEF IInv, TypeOK, TrustIsVouched
<1> QED BY <1>1, <1>2, WriteStep

\* Both writes of the emit entry.
LEMMA EmitInv ==
    ASSUME IInv, NEW w \in Workers, EmitOpens(w) \/ EmitWrites(w)
    PROVE  IInv'
<1>1. /\ call[w].stage \in {"emit_open", "emit_write"}
      /\ UNCHANGED <<host, files, trusted, histories>> /\ execCache' = execCache /\ blobs' = blobs
  BY DEF EmitOpens, EmitWrites, At, files
<1>2. HasShape(Kept, call[w], audit[w], w \in lost, vouched[w])
  BY DEF IInv, Shape
<1>3. PICK p \in Plans : p = PlanOf(w) /\ Artifact[p] \in Kept /\ ~Endpoint(p)
  BY <1>1, <1>2, PlanIs DEF HasShape, PlanOf, PutStages
<1>4. emitCache' = emitCache \/ \E e \in {Torn, "entry"} : emitCache' = [emitCache EXCEPT ![p] = e]
  BY <1>3 DEF EmitOpens, EmitWrites
<1>5. /\ emitCache' \in [Plans -> {NoFile, Torn, "entry"}] /\ EntriesAreKept'
      /\ execCache' \in [Keys -> {NoFile, Torn} \cup Results] /\ EntriesMatchKeys'
  <2>1. emitCache \in [Plans -> {NoFile, Torn, "entry"}] /\ EntriesAreKept
    BY DEF IInv, TypeOK
  <2>2. emitCache' \in [Plans -> {NoFile, Torn, "entry"}]
    BY <1>4, <2>1
  <2>3. \A q \in Plans : emitCache'[q] = emitCache[q] \/ q = p
    BY <1>4, <2>1
  <2>4. EntriesAreKept'
    BY <1>1, <1>3, <2>1, <2>3, KeptStays DEF EntriesAreKept
  <2>5. execCache' \in [Keys -> {NoFile, Torn} \cup Results] /\ EntriesMatchKeys'
    BY <1>1, KeptStays DEF IInv, TypeOK, EntriesMatchKeys
  <2> QED BY <2>2, <2>4, <2>5
<1>6. CASE Fails(w)
  <2>1. PICK r \in Calls : /\ call' = [call EXCEPT ![w] = r] /\ r.stage = "error"
                           /\ FailedShape(r, vouched[w])
    BY <1>1, <1>6, FailsIs DEF PutStages
  <2>2. HasShape(Kept, r, audit[w], w \in lost, vouched[w])
    BY <1>1, <1>2, <2>1, PlanIs, MarkAssumption DEF HasShape, FailedShape, PutStages
  <2> QED BY <1>1, <1>5, <2>1, <2>2, CacheStep DEF OpenStages
<1>7. ASSUME NEW s \in {"emit_write", "load", "lookup"}, Goto(w, s), s = "lookup" => p \notin Runtime
      PROVE  IInv'
  <2>1. PICK r \in Calls : /\ call' = [call EXCEPT ![w] = r] /\ r.stage = s
                           /\ r.plan = call[w].plan /\ r.args = call[w].args
                           /\ r.resolved = call[w].resolved /\ r.file = call[w].file
    BY <1>7, GotoIs DEF IInv
  <2>2. HasShape(Kept, r, audit[w], w \in lost, vouched[w])
    BY <1>1, <1>2, <1>3, <1>7, <2>1 DEF HasShape, PlanOf, Linker, PutStages
  <2> QED BY <1>1, <1>5, <2>1, <2>2, CacheStep DEF OpenStages
<1>8. CASE Goto(w, "emit_write")
  BY <1>7, <1>8
<1>9. CASE Goto(w, "load")
  BY <1>7, <1>9
<1>10. CASE Goto(w, "lookup") /\ p \notin Runtime
  BY <1>7, <1>10
<1> QED BY <1>3, <1>6, <1>8, <1>9, <1>10 DEF EmitOpens, EmitWrites, Composed

\* Both writes of the cached result.
LEMMA SaveInv ==
    ASSUME IInv, NEW w \in Workers, SaveOpens(w) \/ SaveWrites(w)
    PROVE  IInv'
<1>1. /\ call[w].stage \in {"save_open", "save_write"}
      /\ UNCHANGED <<host, files, trusted, histories>> /\ emitCache' = emitCache /\ blobs' = blobs
  BY DEF SaveOpens, SaveWrites, At, files
<1>2. HasShape(Kept, call[w], audit[w], w \in lost, vouched[w])
  BY DEF IInv, Shape
<1>3. PICK p \in Plans : p = PlanOf(w)
  BY <1>1, PlanIs DEF PlanOf, PutStages
<1>4. PICK g \in Results : g = call[w].got /\ g.plan = p /\ g.resolved = Key(p).resolved
  BY <1>1, <1>2, <1>3 DEF HasShape, PlanOf
<1>5. \/ execCache' = execCache
      \/ \E e \in {Torn, g} : execCache' = [execCache EXCEPT ![Key(p)] = e]
  BY <1>3, <1>4 DEF SaveOpens, SaveWrites
<1>6. execCache' \in [Keys -> {NoFile, Torn} \cup Results] /\ EntriesMatchKeys'
  <2>1. CASE execCache' = execCache
    BY <2>1 DEF IInv, TypeOK, EntriesMatchKeys
  <2>2. ASSUME NEW e \in {Torn, g}, execCache' = [execCache EXCEPT ![Key(p)] = e]
        PROVE  execCache' \in [Keys -> {NoFile, Torn} \cup Results] /\ EntriesMatchKeys'
    <3>1. execCache' \in [Keys -> {NoFile, Torn} \cup Results]
      BY <2>2 DEF IInv, TypeOK
    <3>2. ASSUME NEW q \in Plans, execCache'[Key(q)] \notin {NoFile, Torn}
          PROVE  execCache'[Key(q)].plan = q /\ execCache'[Key(q)].resolved = Key(q).resolved
      <4>1. CASE q = p
        BY <1>4, <2>2, <3>2, <4>1, KeyResolved DEF IInv, TypeOK
      <4>2. CASE q # p
        <5>1. Key(q) # Key(p) /\ Key(q) \in Keys
          BY <4>2, KeysDiffer, KeyResolved
        <5>2. execCache'[Key(q)] = execCache[Key(q)]
          BY <2>2, <5>1 DEF IInv, TypeOK
        <5> QED BY <3>2, <5>2 DEF IInv, EntriesMatchKeys
      <4> QED BY <4>1, <4>2
    <3>3. \A q \in Plans : Key(q)' = Key(q)
      BY DEF Key
    <3> QED BY <3>1, <3>2, <3>3 DEF EntriesMatchKeys
  <2> QED BY <1>5, <2>1, <2>2
<1>7. EntriesAreKept' /\ emitCache' \in [Plans -> {NoFile, Torn, "entry"}]
  BY <1>1, KeptStays DEF IInv, TypeOK, EntriesAreKept
<1>8. CASE Fails(w)
  <2>1. PICK r \in Calls : /\ call' = [call EXCEPT ![w] = r] /\ r.stage = "error"
                           /\ FailedShape(r, vouched[w])
    BY <1>1, <1>8, FailsIs DEF PutStages
  <2>2. HasShape(Kept, r, audit[w], w \in lost, vouched[w])
    BY <1>1, <1>2, <2>1, PlanIs, MarkAssumption DEF HasShape, FailedShape, PutStages
  <2> QED BY <1>1, <1>6, <1>7, <2>1, <2>2, CacheStep DEF OpenStages
<1>9. ASSUME NEW s \in {"save_write", "log"}, Goto(w, s)
      PROVE  IInv'
  <2>1. PICK r \in Calls : /\ call' = [call EXCEPT ![w] = r] /\ r.stage = s
                           /\ r.plan = call[w].plan /\ r.args = call[w].args
                           /\ r.resolved = call[w].resolved /\ r.got = call[w].got
                           /\ r.file = call[w].file
    BY <1>9, GotoIs DEF IInv
  <2>2. HasShape(Kept, r, audit[w], w \in lost, vouched[w])
    BY <1>1, <1>2, <2>1 DEF HasShape, PutStages
  <2> QED BY <1>1, <1>6, <1>7, <2>1, <2>2, CacheStep DEF OpenStages
<1>10. CASE Goto(w, "save_write")
  BY <1>9, <1>10
<1>11. CASE Goto(w, "log")
  BY <1>9, <1>11
<1> QED BY <1>8, <1>10, <1>11 DEF SaveOpens, SaveWrites

\* Both ends of a call, whether the log takes the record or not.
LEMMA LogsInv ==
    ASSUME IInv, NEW w \in Workers, Logs(w) \/ LogsFailure(w)
    PROVE  IInv'
<1>1. /\ call[w].stage \in {"log", "log_failure"}
      /\ UNCHANGED <<stores, cut, vouched>> /\ UNCHANGED <<host, files, trusted, emitCache, execCache>>
      /\ blobs' = blobs
  BY DEF Logs, LogsFailure, Appends, At, stores, files
<1>2. /\ HasShape(Kept, call[w], audit[w], w \in lost, vouched[w])
      /\ audit[w] = <<>> /\ w \notin lost
  BY <1>1, PlanIs, MarkAssumption DEF IInv, Shape, HasShape, PutStages
<1>3. PICK o \in Outcomes : /\ Appends(w, o)
                            /\ \/ o = "success" /\ Goto(w, "ok") /\ call[w].stage = "log"
                               \/ o = "failure" /\ Fails(w)
  BY DEF Logs, LogsFailure, At
<1>4. /\ audit' \in [Workers -> Seq(Outcomes)] /\ lost' \subseteq Workers
      /\ \A x \in Workers \ {w} : audit'[x] = audit[x] /\ (x \in lost' <=> x \in lost)
      /\ audit'[w] = IF w \in lost' THEN <<>> ELSE <<o>>
  <2>1. CASE audit' = [audit EXCEPT ![w] = Append(@, o)] /\ UNCHANGED lost
    <3>1. Append(<<>>, o) = <<o>> /\ <<o>> \in Seq(Outcomes)
      OBVIOUS
    <3>2. audit' = [audit EXCEPT ![w] = <<o>>]
      BY <1>2, <2>1, <3>1 DEF IInv, TypeOK
    <3> QED BY <1>2, <2>1, <3>1, <3>2 DEF IInv, TypeOK
  <2>2. CASE lost' = lost \cup {w} /\ UNCHANGED audit
    BY <1>2, <2>2 DEF IInv, TypeOK
  <2> QED BY <1>3, <2>1, <2>2 DEF Appends
<1>5. /\ EntriesAreKept' /\ emitCache' \in [Plans -> {NoFile, Torn, "entry"}]
      /\ EntriesMatchKeys' /\ execCache' \in [Keys -> {NoFile, Torn} \cup Results]
      /\ vouched' = vouched /\ vouched' \in [Workers -> SUBSET Components]
      /\ trusted \subseteq vouched'[w]
  BY <1>1, KeptStays DEF IInv, TypeOK, EntriesAreKept, EntriesMatchKeys, TrustIsVouched
<1>6. \E r \in Calls : /\ call' = [call EXCEPT ![w] = r] /\ r.stage \in {"ok", "error"}
                       /\ HasShape(Kept, r, audit'[w], w \in lost', vouched[w])
  <2>1. CASE o = "success" /\ Goto(w, "ok") /\ call[w].stage = "log"
    <3>1. PICK r \in Calls : /\ call' = [call EXCEPT ![w] = r] /\ r.stage = "ok"
                             /\ r.plan = call[w].plan /\ r.args = call[w].args
                             /\ r.resolved = call[w].resolved /\ r.got = call[w].got
                             /\ r.file = call[w].file
      BY <2>1, GotoIs DEF IInv
    <3>2. HasShape(Kept, r, audit'[w], w \in lost', vouched[w])
      BY <1>2, <1>4, <2>1, <3>1 DEF HasShape, PutStages
    <3> QED BY <3>1, <3>2
  <2>2. CASE o = "failure" /\ Fails(w)
    <3>1. PICK r \in Calls : /\ call' = [call EXCEPT ![w] = r] /\ r.stage = "error"
                             /\ FailedShape(r, vouched[w])
      BY <1>1, <2>2, FailsIs DEF PutStages
    <3>2. audit'[w] \in {<<>>, <<"failure">>}
      BY <1>4, <2>2
    <3>3. HasShape(Kept, r, audit'[w], w \in lost', vouched[w])
      BY <3>1, <3>2 DEF FailedShape
    <3> QED BY <3>1, <3>3
  <2> QED BY <1>3, <2>1, <2>2
<1>7. PICK r \in Calls : /\ call' = [call EXCEPT ![w] = r] /\ r.stage \in {"ok", "error"}
                         /\ HasShape(Kept, r, audit'[w], w \in lost', vouched[w])
  BY <1>6
<1>8. UNCHANGED <<host, files, trusted, cut>> /\ HasShape(Kept, r, audit'[w], w \in lost', vouched'[w])
        /\ \A x \in Workers \ {w} : vouched'[x] = vouched[x]
  BY <1>1, <1>5, <1>7
<1> QED BY <1>1, <1>4, <1>5, <1>7, <1>8, WriteStep DEF OpenStages

-----------------------------------------------------------------------------
(* The surroundings.                                                       *)

\* Trust is given and withdrawn.
LEMMA TrustInv ==
    ASSUME IInv, NEW c \in Components, TrustDigest(c) \/ UntrustDigest(c)
    PROVE  IInv'
<1>1. /\ call' = call /\ audit' = audit /\ lost' = lost /\ cut' = cut /\ host' = host
      /\ emitCache' = emitCache /\ execCache' = execCache /\ blobs' = blobs /\ temps' = temps
  BY DEF TrustDigest, UntrustDigest, histories, files
<1>2. /\ trusted' \subseteq Components /\ vouched' \in [Workers -> SUBSET Components]
      /\ \A w \in Workers : vouched[w] \subseteq vouched'[w] /\ trusted' \subseteq vouched'[w]
  BY DEF TrustDigest, UntrustDigest, histories, IInv, TypeOK, TrustIsVouched
<1>3. TypeOK' /\ TrustIsVouched'
  BY <1>1, <1>2 DEF IInv, TypeOK, TrustIsVouched
<1>4. /\ Kept' = Kept
      /\ \A x \in Workers : \A d, f : (Putting(x, d)' <=> Putting(x, d)) /\ (Writing(x, d, f)' <=> Writing(x, d, f))
  BY <1>1 DEF Kept, Present, Putting, Writing, At
<1>5. PutsInv' /\ EntriesMatchKeys' /\ EntriesAreKept'
  BY <1>1, <1>4 DEF IInv, PutsInv, TempWritten, BlobWritten, EntriesMatchKeys, EntriesAreKept
<1>6. Shape'
  BY <1>1, <1>2, <1>4, ShapeGrows DEF IInv, Shape
<1> QED BY <1>3, <1>5, <1>6 DEF IInv

LEMMA DeleteInv ==
    ASSUME IInv, NEW d \in Digests, DeleteBlob(d)
    PROVE  IInv'
<1>1. /\ d \in Deletable /\ blobs' = [blobs EXCEPT ![d] = NoFile]
      /\ call' = Moved(d, "temp", "gone") /\ temps' = temps
      /\ audit' = audit /\ lost' = lost /\ cut' = cut /\ vouched' = vouched
      /\ host' = host /\ trusted' = trusted /\ emitCache' = emitCache /\ execCache' = execCache
  BY DEF DeleteBlob, histories
<1>2. /\ call' \in [Workers -> Calls]
      /\ \A x \in Workers :
           /\ call'[x].stage = call[x].stage /\ call'[x].plan = call[x].plan
           /\ call'[x].args = call[x].args /\ call'[x].resolved = call[x].resolved
           /\ call'[x].got = call[x].got /\ call'[x].subject = call[x].subject
           /\ call'[x].file = IF call[x].subject # d THEN call[x].file
                              ELSE IF call[x].file = "temp" THEN "temp"
                              ELSE IF call[x].file = "blob" THEN "gone" ELSE call[x].file
  <2>1. \A x \in Workers : call'[x] \in Calls
    BY <1>1, MovedIs
  <2>2. call' = [x \in Workers |-> call'[x]]
    BY <1>1 DEF Moved
  <2> QED BY <1>1, <2>1, <2>2, MovedIs
<1>3. blobs' \in [Digests -> {NoFile, Torn, "whole"}]
        /\ \A e \in Digests : blobs'[e] = IF e = d THEN NoFile ELSE blobs[e]
  BY <1>1 DEF IInv, TypeOK
<1>4. Kept' = Kept
  BY <1>1, <1>3 DEF Kept, Present
<1>5. TypeOK' /\ EntriesMatchKeys' /\ TrustIsVouched' /\ EntriesAreKept'
  BY <1>1, <1>2, <1>3, <1>4 DEF IInv, TypeOK, EntriesMatchKeys, TrustIsVouched, EntriesAreKept
<1>6. Shape'
  <2>1. ASSUME NEW x \in Workers
        PROVE  HasShape(Kept', call'[x], audit'[x], x \in lost', vouched'[x])
    <3>1. HasShape(Kept, call[x], audit[x], x \in lost, vouched[x])
      BY DEF IInv, Shape
    <3> QED BY <1>1, <1>2, <1>4, <3>1 DEF HasShape
  <2> QED BY <2>1 DEF Shape
<1>7. /\ \A x \in Workers : \A e : Putting(x, e)' <=> Putting(x, e)
      /\ \A x \in Workers : \A e : Writing(x, e, "temp") => Writing(x, e, "temp")'
      /\ \A x \in Workers : \A e, g : e # d /\ Writing(x, e, g) => Writing(x, e, g)'
  BY <1>2 DEF Putting, Writing, At
<1>8. PutsInv'
  BY <1>1, <1>3, <1>7, MarkAssumption DEF IInv, PutsInv, TempWritten, BlobWritten
<1> QED BY <1>5, <1>6, <1>8 DEF IInv

LEMMA RestartInv ==
    ASSUME IInv, Restart
    PROVE  IInv'
<1>1. blobs' = blobs /\ temps' = temps /\ Kept' = Kept
  BY DEF Restart, files, Kept, Present
<1>2. TypeOK'
  BY <1>1, IdleType DEF IInv, TypeOK, Restart
<1>3. Shape'
  BY IdleShape DEF Shape, Restart
<1>4. \A x \in Workers : \A d : ~Putting(x, d)'
  BY IdleType DEF Restart, Putting
<1>5. PutsInv'
  BY <1>1, <1>4 DEF PutsInv, TempWritten, BlobWritten, Restart
<1>6. EntriesMatchKeys' /\ TrustIsVouched' /\ EntriesAreKept'
  BY <1>1 DEF IInv, EntriesMatchKeys, TrustIsVouched, EntriesAreKept, Restart
<1> QED BY <1>2, <1>3, <1>5, <1>6 DEF IInv

LEMMA NextInv == IInv /\ [Next]_vars => IInv'
<1> SUFFICES ASSUME IInv, [Next]_vars PROVE IInv'
  OBVIOUS
<1>1. CASE UNCHANGED vars
  <2>1. UNCHANGED <<host, blobs, temps, trusted, emitCache, execCache, call, audit, lost, cut, vouched>>
    BY <1>1 DEF vars
  <2>2. /\ Kept' = Kept
        /\ \A x \in Workers : \A d, f : (Putting(x, d)' <=> Putting(x, d)) /\ (Writing(x, d, f)' <=> Writing(x, d, f))
    BY <2>1 DEF Kept, Present, Putting, Writing, At
  <2> QED BY <2>1, <2>2 DEF IInv, TypeOK, Shape, EntriesMatchKeys, TrustIsVouched,
                      PutsInv, TempWritten, BlobWritten, EntriesAreKept
<1>2. ASSUME NEW w \in Workers, WorkerStep(w) PROVE IInv'
  <2>1. CASE PutOpens(w) \/ PutWrites(w) \/ PutRenames(w)
    BY <2>1, PutOpensInv, PutWritesInv, PutRenamesInv
  <2>2. CASE ComposeBegins(w) \/ ComposeReads(w) \/ EmitOpens(w) \/ EmitWrites(w)
    BY <2>2, ComposeBeginsInv, ComposeReadsInv, EmitInv
  <2> QED BY <1>2, <2>1, <2>2, RootLoadsInv, ProviderCheckedInv, GuestResolvesInv,
     LoadsInv, LooksUpInv, RunsInv, RunTrapsInv, GuestInv, SaveInv, LogsInv DEF WorkerStep
<1>3. ASSUME NEW w \in Workers, NEW p \in Plans, NEW a \in Args, Begin(w, p, a) PROVE IInv'
  BY <1>3, BeginInv
<1>4. ASSUME NEW w \in Workers, NEW c \in Components, GuestAsks(w, c) PROVE IInv'
  BY <1>4, GuestAsksInv
<1>5. ASSUME NEW w \in Workers, NEW d \in Digests, PutBlob(w, d) PROVE IInv'
  BY <1>5, PutBlobInv
<1>6. CASE \/ \E c \in Components : TrustDigest(c) \/ UntrustDigest(c)
          \/ \E d \in Digests : DeleteBlob(d)
  BY <1>6, TrustInv, DeleteInv
<1>7. CASE Restart
  BY <1>7, RestartInv
<1> QED BY <1>1, <1>2, <1>3, <1>4, <1>5, <1>6, <1>7 DEF Next

LEMMA SpecInv == Spec => []IInv
BY InitInv, NextInv, PTL DEF Spec

-----------------------------------------------------------------------------

\* Every variable stays in its type, whatever the plans, workers and policies.
THEOREM TypeCorrect == Spec => []TypeOK
<1>1. IInv => TypeOK
  BY DEF IInv
<1> QED BY <1>1, SpecInv, PTL

\* run_cli answers no tenant with the output of a run of another tenant, although
\* all tenants share the cache directory.
THEOREM TenantsIsolated == Spec => []TenantIsolation
<1>1. IInv => TenantIsolation
  BY DEF IInv, Shape, HasShape, TenantIsolation, Answered, At, PlanOf
<1> QED BY <1>1, SpecInv, PTL

\* Every provider behind an answer was trusted during the call that returns it.
THEOREM ProvidersAreVouched == Spec => []ProvidersVouched
<1>1. IInv => ProvidersVouched
  BY DEF IInv, Shape, HasShape, ProvidersVouched, Answered, At
<1> QED BY <1>1, SpecInv, PTL

\* The audit log claims a success only for calls that answer with one, and misses such a
\* call only where the append failed.
THEOREM AuditIsTrue == Spec => []AuditTellsTheTruth
<1>1. IInv => AuditTellsTheTruth
  BY DEF IInv, Shape, HasShape, AuditTellsTheTruth, Answered, At
<1> QED BY <1>1, SpecInv, PTL

\* What an emit entry names is whole in the store, or being written into it, or was
\* deleted; only puts that overlap and are given up half way can leave it torn.
THEOREM EmitCacheIsBacked == Spec => []CachedArtifactIsStored
<1>1. ASSUME IInv, NEW p \in Plans, emitCache[p] = "entry"
      PROVE  \/ Artifact[p] \in Stored \cup Deletable \cup cut
             \/ \E w \in Workers : Writing(w, Artifact[p], "blob")
  <2>1. Artifact[p] \in Digests /\ Artifact[p] \in Present \cup Deletable
    BY <1>1, PlanAssumption DEF IInv, EntriesAreKept, Kept
  <2>2. blobs[Artifact[p]] \in {NoFile, Torn, "whole"}
    BY <1>1, <2>1 DEF IInv, TypeOK
  <2> QED BY <1>1, <2>1, <2>2 DEF IInv, PutsInv, BlobWritten, Present, Stored
<1>2. IInv => CachedArtifactIsStored
  BY <1>1 DEF CachedArtifactIsStored
<1> QED BY <1>2, SpecInv, PTL
=============================================================================
