-------------------------------- MODULE Sandbox --------------------------------
(***************************************************************************)
(* The sandbox in which the compose:host runner and invoker run guests     *)
(* (hosts/wasmtime: compose_host.rs and dynlink.rs): one engine for the    *)
(* process, whose epoch a thread advances every Tick, and instances whose  *)
(* store holds a budget of fuel and a deadline in epochs. Both are set     *)
(* once, when the instance is made; all its calls share them.              *)
(***************************************************************************)
EXTENDS Integers

CONSTANTS
    Handles,     \* invoker instances and command runs, of any orchestrators
    Unset,
    Tick,        \* EPOCH_TICK, in the unit of time of the model
    Late,        \* the thread wakes at most this much after its Tick
    FuelPerMs,
    W,           \* numbers of the width of a u64 are in 0 .. W - 1
    Timeouts,    \* the values of timeout-ms that are asked for, Unset among them
    CpuLimits,   \* the values of cpu-ms
    MaxTime,     \* bound on the time
    MaxSpent     \* bound on what one guest computes

ASSUME SandboxAssumption ==
    /\ Tick \in Nat /\ Tick >= 2 /\ Late \in Nat /\ FuelPerMs \in Nat \ {0}
    /\ MaxTime \in Nat /\ MaxSpent \in Nat
    /\ W \in Nat /\ 4 * Tick <= W /\ MaxTime < W \div 2 /\ MaxSpent < W - 1
    /\ Timeouts \ {Unset} \subseteq 0 .. W - 1 /\ CpuLimits \ {Unset} \subseteq 0 .. W - 1

VARIABLES
    now,
    epoch,      \* of the engine
    slept,      \* how long the thread sleeps already
    ticker,     \* "none" before the first use of the engine, "runs", or "missing"
    inst,       \* handle -> Unset, or the instance (Instances)
    answer      \* handle -> the last answer to a call or a run of it

sandboxVars == <<now, epoch, slept, ticker, inst, answer>>

Answers == {"none", "ok", "exit", "trap", "limit_exceeded", "timed_out",
            "host_error", "invalid_component"}
\* stage: the start functions of the component run; no call; the guest computes, waits
\* in a call of WASI, or has trapped.
InstanceStages == {"start", "idle", "wasm", "wasi", "dead"}
Instances == [kind : {"invoker", "cli"}, stage : InstanceStages,
              timeout : Timeouts, cpu : CpuLimits,
              fuel : 0 .. W - 1, deadline : 0 .. W - 1,
              born : 0 .. MaxTime, spent : 0 .. MaxSpent]
Live == {h \in Handles : inst[h] # Unset}

SandboxInit ==
    /\ now = 0 /\ epoch = 0 /\ slept = 0 /\ ticker = "none"
    /\ inst = [h \in Handles |-> Unset]
    /\ answer = [h \in Handles |-> "none"]

-----------------------------------------------------------------------------
\* sandbox_limits_from

Least(a, b) == IF a < b THEN a ELSE b

\* Variant: the multiplication wraps.
WrappingFuel(cpu) == (cpu * FuelPerMs) % W
Fuel(cpu) == Least(cpu * FuelPerMs, W - 1)

\* Variant: the last tick that is not complete does not count.
RoundDown(timeout) == LET t == timeout \div Tick IN IF t = 0 THEN 1 ELSE t
EpochTicks(timeout) ==
    LET t == Least(timeout + (Tick - 1), W - 1) \div Tick IN IF t = 0 THEN 1 ELSE t

\* Variant: the engine does not count fuel, and the error of set_fuel is not looked at.
NoFuel(cpu) == W - 1
FuelOf(cpu) == IF cpu = Unset THEN W - 1 ELSE Fuel(cpu)

\* Variant: the deadline counts milliseconds.
InMillis(timeout) == IF timeout = Unset THEN W \div 2 ELSE timeout
DeltaOf(timeout) == IF timeout = Unset THEN W \div 2 ELSE EpochTicks(timeout)

-----------------------------------------------------------------------------
\* Time, and the thread that counts it.

\* A guest that computes looks at the epoch and at its fuel at every loop and call.
OutOfTime(i) == epoch >= i.deadline
OutOfFuel(i) == i.fuel = 0
Computes(i) == i.stage \in {"start", "wasm"}
Stops(i) == Computes(i) /\ (OutOfTime(i) \/ OutOfFuel(i))

\* The thread is at most Late, and a guest that has to stop does so at once.
Pass ==
    /\ now < MaxTime
    /\ ticker = "runs" => slept < Tick + Late
    /\ \A h \in Live : ~Stops(inst[h])
    /\ now' = now + 1
    /\ slept' = IF ticker = "runs" THEN slept + 1 ELSE 0
    /\ UNCHANGED <<epoch, ticker, inst, answer>>

TickerWakes ==
    /\ ticker = "runs" /\ slept >= Tick
    /\ epoch' = (epoch + 1) % W
    /\ slept' = 0
    /\ UNCHANGED <<now, ticker, inst, answer>>

\* The first use builds the engine; nobody looks at whether the thread could be made.
SandboxEngine ==
    /\ \/ ticker # "none" /\ ticker' = ticker
       \/ ticker = "none" /\ ticker' \in {"runs", "missing"}
    /\ UNCHANGED <<now, epoch, slept>>

-----------------------------------------------------------------------------
\* Instances, made by instantiate or run_cli.

NewInstance(kind, timeout, cpu) ==
    [kind |-> kind, stage |-> "start", timeout |-> timeout, cpu |-> cpu,
     fuel |-> FuelOf(cpu), deadline |-> (epoch + DeltaOf(timeout)) % W,
     born |-> now, spent |-> 0]

\* The store has its limits before the component is instantiated, and its start
\* functions run under them; the component may be malformed.
Instantiate(h, kind, timeout, cpu) ==
    /\ inst[h] = Unset
    /\ SandboxEngine
    /\ \/ /\ inst' = [inst EXCEPT ![h] = NewInstance(kind, timeout, cpu)]
          /\ answer' = [answer EXCEPT ![h] = "none"]
       \/ /\ answer' = [answer EXCEPT ![h] = "invalid_component"]
          /\ UNCHANGED inst

In(h, stages) == h \in Live /\ inst[h].stage \in stages
Moves(h, stage) == inst' = [inst EXCEPT ![h].stage = stage]
Removed(h) == inst' = [inst EXCEPT ![h] = Unset]
Replied(h, a) == answer' = [answer EXCEPT ![h] = a] /\ UNCHANGED <<now, epoch, slept, ticker>>
Silent == UNCHANGED <<now, epoch, slept, ticker, answer>>

\* The handle is returned, or the command goes on with its run.
Started(h) ==
    /\ In(h, {"start"})
    /\ IF inst[h].kind = "cli" THEN Moves(h, "wasm") /\ Silent
       ELSE Moves(h, "idle") /\ Replied(h, "ok")

\* Whatever stops the start functions is a trap, or for instantiate an invalid component.
StartFails(h) ==
    /\ In(h, {"start"})
    /\ Removed(h)
    /\ Replied(h, IF inst[h].kind = "cli" THEN "trap" ELSE "invalid_component")

\* call_with_cbor: before the guest runs, the export and its arguments are looked up
\* and decoded. A guest that trapped before cannot be entered.
CallWithCbor(h) ==
    \/ In(h, {"idle"}) /\ Moves(h, "wasm") /\ Replied(h, "none")
    \/ In(h, {"idle", "dead"}) /\ UNCHANGED inst /\ Replied(h, "host_error")
    \/ In(h, {"dead"}) /\ UNCHANGED inst /\ Replied(h, "trap")

\* The results of a call that went well may be of a type that has no encoding.
CallReturns(h) ==
    /\ In(h, {"wasm"}) /\ inst[h].kind = "invoker"
    /\ Moves(h, "idle")
    /\ \E a \in {"ok", "host_error"} : Replied(h, a)

\* A command returns or calls exit; its store is dropped with the answer.
RunReturns(h) ==
    /\ In(h, {"wasm"}) /\ inst[h].kind = "cli"
    /\ Removed(h)
    /\ \E a \in {"ok", "exit"} : Replied(h, a)

\* What a trap becomes (exec_error_from_core, and the errors of call_with_cbor).
GuestStops(h, why) ==
    /\ In(h, {"wasm"})
    /\ IF inst[h].kind = "cli" THEN Removed(h) ELSE Moves(h, "dead")
    /\ Replied(h, why)

InstanceTraps(h) == GuestStops(h, "trap")
Interrupted(h) == h \in Live /\ OutOfTime(inst[h]) /\ GuestStops(h, "timed_out")
Exhausted(h) == h \in Live /\ OutOfFuel(inst[h]) /\ GuestStops(h, "limit_exceeded")

\* The guest goes on computing, after the look at its epoch and fuel.
GuestComputes(h) ==
    /\ In(h, {"start", "wasm"}) /\ ~Stops(inst[h]) /\ inst[h].spent < MaxSpent
    /\ inst' = [inst EXCEPT ![h].fuel = @ - 1, ![h].spent = @ + 1]
    /\ Silent

\* In a call of WASI (a sleep, a read) there is no look at the epoch.
GuestWaits(h) == In(h, {"wasm"}) /\ ~Stops(inst[h]) /\ Moves(h, "wasi") /\ Silent
GuestResumes(h) == In(h, {"wasi"}) /\ Moves(h, "wasm") /\ Silent

\* Releasing a handle drops the store.
Drop(h) == In(h, {"idle", "dead"}) /\ Removed(h) /\ Silent

GuestStep(h) ==
    \/ Started(h) \/ StartFails(h) \/ CallReturns(h) \/ RunReturns(h) \/ InstanceTraps(h)
    \/ Interrupted(h) \/ Exhausted(h)
    \/ GuestComputes(h) \/ GuestWaits(h) \/ GuestResumes(h)

SandboxNext ==
    \/ Pass \/ TickerWakes
    \/ \E h \in Handles :
         \/ \E kind \in {"invoker", "cli"}, t \in Timeouts, c \in CpuLimits :
              Instantiate(h, kind, t, c)
         \/ CallWithCbor(h) \/ Drop(h) \/ GuestStep(h)

SandboxSpec == SandboxInit /\ [][SandboxNext]_sandboxVars

\* The clock goes on; the thread, once made, wakes; a guest that runs goes on.
SandboxFairness ==
    /\ WF_sandboxVars(Pass) /\ WF_sandboxVars(TickerWakes)
    /\ \A h \in Handles :
         /\ WF_sandboxVars(GuestComputes(h))
         /\ WF_sandboxVars(Interrupted(h) \/ Exhausted(h) \/ StartFails(h))

-----------------------------------------------------------------------------

SandboxTypeOK ==
    /\ now \in 0 .. MaxTime /\ epoch \in 0 .. W - 1 /\ slept \in 0 .. Tick + Late
    /\ ticker \in {"none", "runs", "missing"}
    /\ inst \in [Handles -> Instances \cup {Unset}]
    /\ answer \in [Handles -> Answers]

Gets(h, a) == answer[h] # a /\ answer'[h] = a

\* A guest is interrupted because of its own timeout, and no more than a tick before it
\* is over: the deadline is in whole ticks, and the first may be almost over.
NotTooEarly ==
    [][\A h \in Handles : Gets(h, "timed_out") =>
         /\ inst[h].timeout # Unset
         /\ now - inst[h].born >= inst[h].timeout - Tick]_sandboxVars

\* A guest is stopped for its use of the CPU only if a limit was asked for and all its
\* calls together have used it up.
FuelIsBudget ==
    [][\A h \in Handles : Gets(h, "limit_exceeded") =>
         /\ inst[h].cpu # Unset
         /\ inst[h].spent >= Least(inst[h].cpu * FuelPerMs, W - 1)]_sandboxVars

\* While a guest computes, time does not pass the point where its timeout, rounded up to
\* ticks that may each be late, is over: if the thread that counts the ticks exists.
RunsOnTime ==
    [][\A h \in Live :
         /\ ticker = "runs" /\ now' > now
         /\ Computes(inst[h]) /\ inst[h].timeout # Unset
         => now - inst[h].born <= EpochTicks(inst[h].timeout) * (Tick + Late)]_sandboxVars

\* A guest whose use of the CPU is limited does not compute for ever, whatever became of
\* the thread: it returns, waits, or is stopped. MaxSpent must be beyond the limit.
Spins(h) == In(h, {"wasm"}) /\ inst[h].cpu # Unset /\ Fuel(inst[h].cpu) <= MaxSpent
SpinnersStop == \A h \in Handles : Spins(h) ~> ~Spins(h)
=============================================================================
