--------------------------- MODULE CounterWindows ---------------------------
(***************************************************************************)
(* sample_tick and update_summary of logger.rs, as far as they turn the    *)
(* kernel's counters into figures of one interval: CPU time of the cgroup  *)
(* (cpu.rs) and traffic of the node (network_delta).  A counter runs while *)
(* ticks fail, the cgroup can be replaced by one that counts from zero,    *)
(* and an interface can go away with what it had counted.                  *)
(*                                                                         *)
(* The clock moves in intervals of the sampler, and no CPU runs more than  *)
(* all of one.  The readings of one tick are taken together: microseconds  *)
(* apart in the code, they concern counters that have nothing in common.   *)
(*                                                                         *)
(* As in NodeLogger, an operator just before another one and used by no    *)
(* action is the wrong code the properties must notice.                    *)
(***************************************************************************)
EXTENDS Integers, FiniteSets, Functions

CONSTANTS
  Cpus,        \* the CPUs of the node
  Unread,      \* no valid reading yet
  MaxTime,     \* bound: intervals in a behaviour
  MaxTraffic   \* bound: traffic of the node in a behaviour

ASSUME CpusAssumption == IsFiniteSet(Cpus)
ASSUME BoundsAssumption == MaxTime \in Nat /\ MaxTraffic \in Nat
ASSUME UnreadAssumption ==
  Unread \notin Nat /\ Unread \notin [at : Nat, cpu : [Cpus -> Nat]]

VARIABLES
  clock, tickStart,  \* now, and when the tick in progress began
  run,               \* whether the run goes on
  version,           \* cgroup v1 counts per CPU, v2 the total only
  cpu,               \* cpuacct.usage_percpu, or usage_usec split by CPU
  prevCpu,           \* the last valid reading and its time
  coreSeconds,       \* cpu_core_seconds of the summary
  byCpu,             \* cpu_core_seconds_by_cpu
  peak,              \* the window behind cpu_pct_sum_peak
  net, prevNet,      \* /proc/net/dev, and the last valid reading
  netTotal,          \* net_recv_bytes_total
  primed,            \* history: new read the CPU counter
  used,              \* history: CPU time since the logger began
  charged,           \* history: the reading at which charging began
  carried,           \* history: traffic since the first valid reading
  steady             \* history: no counter has gone back

cpuState == <<cpu, prevCpu, coreSeconds, byCpu, peak, primed, used, charged>>
netState == <<net, prevNet, netTotal, carried>>
vars == <<clock, tickStart, run, version, cpuState, netState, steady>>

Zero == [c \in Cpus |-> 0]
Total(counts) == SumFunction(counts)

(* new: both counters are primed; a reading that fails is left out.  The   *)
(* job may have been running for a while.                                  *)
Init ==
  /\ clock = 1 /\ tickStart = 1 /\ run = "on" /\ version \in {"v1", "v2"}
  /\ cpu \in [Cpus -> 0..1]
  /\ primed \in BOOLEAN
  /\ prevCpu = IF primed THEN [at |-> clock, cpu |-> cpu] ELSE Unread
  /\ charged = IF primed THEN Total(cpu) ELSE 0
  /\ used = Zero
  /\ coreSeconds = 0 /\ byCpu = Zero /\ peak = [gain |-> 0, dt |-> 1]
  /\ net \in 0..1 /\ prevNet \in {net, Unread}
  /\ netTotal = 0 /\ carried = 0
  /\ steady = TRUE
-----------------------------------------------------------------------------
(* The node, while the run goes on.  A counter goes back once at most.     *)

Interval ==
  /\ run = "on" /\ clock < MaxTime /\ clock' = clock + 1
  /\ \E busy \in [Cpus -> 0..1] :
       /\ cpu' = [c \in Cpus |-> cpu[c] + busy[c]]
       /\ used' = [c \in Cpus |-> used[c] + busy[c]]
  /\ UNCHANGED <<tickStart, run, version, prevCpu, coreSeconds, byCpu, peak,
                 primed, charged, netState, steady>>

Traffic ==
  /\ run = "on" /\ net < MaxTraffic
  /\ net' = net + 1
  /\ carried' = IF prevNet = Unread THEN carried ELSE carried + 1
  /\ UNCHANGED <<clock, tickStart, run, version, cpuState, prevNet, netTotal,
                 steady>>

(* The cgroup is "replaced underneath us (which resets the counters)".     *)
CgroupReplaced ==
  /\ run = "on" /\ steady /\ Total(cpu) > 0
  /\ cpu' = Zero /\ steady' = FALSE
  /\ UNCHANGED <<clock, tickStart, run, version, prevCpu, coreSeconds, byCpu,
                 peak, primed, used, charged, netState>>

InterfaceGone ==
  /\ run = "on" /\ steady
  /\ net' \in 0..(net - 1) /\ steady' = FALSE
  /\ UNCHANGED <<clock, tickStart, run, version, cpuState, prevNet, netTotal,
                 carried>>
-----------------------------------------------------------------------------
(* The arithmetic: saturating_sub, and a window from one valid reading to  *)
(* the next.  Without a first one the window is this tick, from zero.      *)

WrappingGain(prev, now) == now - prev
Gain(prev, now) == IF now > prev THEN now - prev ELSE 0

Baseline == IF prevCpu = Unread THEN [at |-> tickStart, cpu |-> Zero] ELSE prevCpu

WindowOfTick == clock - tickStart
Window == clock - Baseline.at

TotalGain == Gain(Total(Baseline.cpu), Total(cpu))

(* A CPU is busy for at most its window; v2 has no breakdown.              *)
ClampedToTick(gain) == IF gain > clock - tickStart THEN clock - tickStart ELSE gain
Clamped(gain) == IF gain > Window THEN Window ELSE gain
CpuGain(c) ==
  IF version = "v1" THEN Clamped(Gain(Baseline.cpu[c], cpu[c])) ELSE 0

(* The larger rate of two windows.                                         *)
Busier(v, w) == IF w.gain * v.dt > v.gain * w.dt THEN w ELSE v

(* network_delta: the first valid reading counts for nothing, and a failed *)
(* one leaves the last valid one in place.                                 *)
NetGain == IF prevNet = Unread THEN 0 ELSE Gain(prevNet, net)

NetReadFailsToZero == prevNet' = 0
NetReadFails == UNCHANGED prevNet

ReadNetwork ==
  \/ prevNet' = net /\ netTotal' = netTotal + NetGain
  \/ NetReadFails /\ UNCHANGED netTotal
-----------------------------------------------------------------------------
(* update_summary: the CPU time of the window, in all and by CPU, and its  *)
(* rate.  The other figures are plain maxima over the samples, or copies.  *)
UpdateSummary ==
  /\ coreSeconds' = coreSeconds + TotalGain
  /\ byCpu' = [c \in Cpus |-> byCpu[c] + CpuGain(c)]
  /\ peak' = Busier(peak, [gain |-> TotalGain, dt |-> Window])

(* A tick whose CPU counter could be read, and the update of the summary.  *)
Tick ==
  /\ run = "on" /\ clock > tickStart
  /\ tickStart' = clock
  /\ prevCpu' = [at |-> clock, cpu |-> cpu]
  /\ UpdateSummary
  /\ ReadNetwork
  /\ UNCHANGED <<clock, run, version, cpu, primed, used, charged, net, carried,
                 steady>>

(* read_cpu_usage fails and the error ends the tick: nothing was taken.    *)
TakenReading == prevCpu' = Unread
KeptReading == UNCHANGED prevCpu

TickFails ==
  /\ run = "on" /\ clock > tickStart
  /\ tickStart' = clock
  /\ KeptReading
  /\ UNCHANGED <<clock, run, version, cpu, coreSeconds, byCpu, peak, primed,
                 used, charged, netState, steady>>

(* The last of too many lost lines: sampled, but not in the summary.       *)
LastLineLost ==
  /\ run = "on" /\ clock > tickStart
  /\ tickStart' = clock /\ run' = "over"
  /\ prevCpu' = [at |-> clock, cpu |-> cpu]
  /\ prevNet' \in {net, prevNet}
  /\ UNCHANGED <<clock, version, cpu, coreSeconds, byCpu, peak, primed, used,
                 charged, net, netTotal, carried, steady>>

Stop ==
  /\ run = "on" /\ run' = "over"
  /\ UNCHANGED <<clock, tickStart, version, cpuState, netState, steady>>

Over == run = "over" /\ UNCHANGED vars

Next ==
  \/ Interval \/ Traffic \/ CgroupReplaced \/ InterfaceGone
  \/ Tick \/ TickFails \/ LastLineLost \/ Stop \/ Over

Spec == Init /\ [][Next]_vars
-----------------------------------------------------------------------------
(* The type invariant: with wrapping differences a total would go back.    *)
TypeOK ==
  /\ clock \in 1..MaxTime /\ tickStart \in 1..clock /\ run \in {"on", "over"}
  /\ version \in {"v1", "v2"}
  /\ cpu \in [Cpus -> Nat] /\ used \in [Cpus -> Nat] /\ byCpu \in [Cpus -> Nat]
  /\ prevCpu = Unread \/ prevCpu \in [at : 1..clock, cpu : [Cpus -> Nat]]
  /\ coreSeconds \in Nat /\ peak.gain \in Nat /\ peak.dt \in 1..MaxTime
  /\ net \in Nat /\ prevNet \in Nat \union {Unread}
  /\ netTotal \in Nat /\ carried \in Nat
  /\ primed \in BOOLEAN /\ charged \in Nat /\ steady \in BOOLEAN

(* Every unit of CPU time is charged to one window, whatever ticks failed  *)
(* in between: while the run goes on the summary holds exactly what passed *)
(* between the first reading and the last one, and if the cgroup has been  *)
(* replaced never more than the job really used.                           *)
CpuChargedOnce ==
  primed =>
    /\ coreSeconds <= Total(used)
    /\ (steady /\ run = "on") =>
         coreSeconds = Total(Baseline.cpu) - charged

(* The rate is taken over the window the counter covers, "also across"     *)
(* failed ticks: no peak is above what the CPUs of the node can do.        *)
PeakWithinMachine ==
  primed => peak.gain <= peak.dt * Total([c \in Cpus |-> 1])

(* The breakdown by CPU, clamped core by core, adds up to the total, which *)
(* is not; and no core is ever charged with more than it ran.              *)
BreakdownAddsUp ==
  (version = "v1" /\ primed) =>
    /\ steady => Total(byCpu) = coreSeconds
    /\ \A c \in Cpus : byCpu[c] <= used[c]

(* network_delta: a failed reading must not "charge the next sample for    *)
(* all traffic since the node booted"; the total is the traffic since the  *)
(* logger's first valid reading and nothing else.                          *)
NetChargedOnce ==
  /\ netTotal <= carried
  /\ (steady /\ run = "on" /\ prevNet = net) => netTotal = carried
=============================================================================
