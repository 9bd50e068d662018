# logger-rs: a TLA+ model of the telemetry logger and its job wrapper

`logger-rs` measures a batch job. A shell library, `logger-rs.sh`, is sourced
by a PBS or Slurm job script; between `telemetry_start` and `telemetry_stop` it
runs one logger process per node, which samples the cgroup, the processes, the
network and the GPUs and leaves an NDJSON stream and a summary per node on the
shared filesystem. `logger-rs --merge` then builds the job-level summary from
the summaries of the nodes.

What a test can hardly reach here is, first, the *protocol* between these
processes: a file that is the record of the outcome and the shutdown signal at
once, signals from the script and from the scheduler, waits with and without
limits, SIGKILL at any moment, and documents read while they are written; and
then the *ground it measures on*: cgroups that hold other jobs too, processes
that fork and end while they are counted, counters that fail or go back. Both
are modelled. Paths below are relative to the repository, which is `src/`.

## 1. Inventory

| part | where | state it keeps | operations | what makes it correct |
|---|---|---|---|---|
| shell library | `logger-rs.sh` | `_HT_ACTIVE`, pids of the local logger and of the launchers, exit-status file, the caller's traps | `telemetry_start`, traps, `telemetry_stop` | the outcome recorded is this region's; no logger outlives the region; stop returns; the merge is read after the loggers have ended, as far as the waits go |
| logger | `src/logger.rs`, `src/main.rs` | `running` flag, tick and sample counters, error counters, the summary in memory, the output buffer | `new`, `run` (tick, flush, checkpoint), job_end, final summary, `Drop` | bounded loss at SIGKILL; stops when told; summary and stream agree |
| signal handler | `src/main.rs` | the flag | first signal, second signal | a first signal ends the run in order |
| output | `src/output.rs` | a final name, a temporary name | create, write, fsync, rename; NDJSON appends | readers never see a half-written document, nor lose one to a crash |
| merge | `src/merge.rs`, `src/main.rs` | accumulators over the summaries | find, load, accumulate, judge, publish | worst outcome; bounds that bound; every node accounted for |
| measurements | `src/logger.rs` (`sample_tick`, `update_summary`), `src/cpu.rs`, `src/network.rs`, `src/gpu.rs`, `src/process.rs`, `src/cgroup.rs` | previous counters, GPU cache, peaks | one reading per tick | figures that belong to one interval, peaks that were measured |
| cgroup discovery and readers | `src/cgroup.rs` | none: files of the kernel | discover (v1, v2, ranking), explicit path, readers, allowed CPUs, process list | what is measured is this job's and no neighbour's; the whole node only as a last resort |
| process scan | `src/process.rs`, `src/cgroup.rs` | the pids listed so far | list by cgroup or walk by parent, two reads per process, sub-samples | each process once, none that stayed is missed, no stranger |
| start and preflight | `src/main.rs`, `src/cli.rs`, `src/logger.rs` (`new`), `src/check.rs` | the arguments as they stand | resolve, validate, dispatch, check, the steps of `new` | what the preflight promises, the run finds |
| scheduler metadata, booking | `src/scheduler.rs`, `src/cli.rs`, `src/logger.rs` | none | Slurm and PBS variables, times, memory | the booked time is the scheduler's; whose booking it is, is told |
| manifest | `src/manifest.rs`, `src/main.rs` | one file per job | write before the loggers, read by the merge | it decides for its own job only |
| host names | `src/host.rs` | none | look up, filter | a pure function |

Interactions. The script starts a local logger and, through launchers
(`pbs_tmrsh`, `pbsdsh`, `srun`), remote ones. It ends them with the exit-status
file, which every logger polls, and with SIGTERM to its own. Each logger
publishes its summary by rename; the merge reads whatever is there. The
scheduler sends SIGTERM to every process at the walltime limit and SIGKILL a
few seconds later. No process ever waits for an answer from another node: the
shared directory is the only channel back.

Hard behaviours. The file is created before it is written; it is removed while
a slow node may not have looked; two senders of SIGTERM race and a second
SIGTERM means "exit at once"; a launcher ends before or after its logger; a
checkpoint may be the last word of a node; a failed write must not be taken for
a written one; the last three steps of a logger (job_end, final summary, Drop)
each read or write shared state again. The full list, line by line, is in
`hazards` of `PROJECT.json`.

## 2. Modules

### `TelemetryRegion` - one measured region of a job

The shell library, one logger per node, the launchers, the exit-status file,
the merge and the scheduler. `script` is the line the job script has reached;
each step of `telemetry_stop` is an action (`CreateExitFile`, `WriteExitFile`,
`TermLocal`, `WaitLocal`, `Second`/`WaitOver`, `Joined`, `MergeLists`,
`MergeReads`, `MergePublishes`, `Cleanup`), since loggers, launchers and signals
act between any two of them. `echo "$status" > file` is two actions because
other processes can see the file between its creation and its content. A logger
is reduced to what the rest of the region can tell apart: whether it is
`launched`, `up`, `ending` or `gone`, its flag, the outcome it has read (`found`)
and its summary file. It reads the exit status (`LoggerReads`, in `emit_job_end`),
publishes its final summary (`LoggerPublishes`) and returns (`LoggerReturns`) in
separate steps, since the script may fill or remove the file in between. This
reduction is not assumed: `NodeLogger` has the process itself, and both are
checked against `LoggerContract`. `Faults` names what may go wrong outside the
program, so that a run can say exactly which troubles its property tolerates.

Time passes only where the library counts it: `waited` is the number of turns
of the loop in `telemetry_stop`. `PollSecs` is the time within which every
remote logger has looked at the file and ended; `PollSecs` below the waits is
the comment's "they poll every couple of seconds", above them it is a long
`--interval`. With it the scheduler's 30 s and 4 s are `WaitSecs` and
`HurriedSecs`.

### `JobReport` - what a region promises

The abstract specification of a measured region for whoever reads the job-level
summary: a script that runs, has ended its workload or was killed; the nodes that
have left a final summary; and one report, published once, after the workload and
never by a killed script, with no exit status but the workload's, with no node
shown as complete that had not left its final summary, and with the script's own
node shown as it will always be. `KeepsReport` is the refinement: `script` maps to
its three phases, `final` to the nodes with a final file, `complete` to the nodes in
neither `nodes_missing` nor `nodes_partial`. Three invariants of the region stand
behind it and are theorems of their own (`OutcomeIsReal`, `HonestMerge`,
`LocalSettled`); the runs check them through the refinement, which adds the order of
events.

### `NodeLogger` - the logger process

`TelemetryLogger::run` with its counters (`ticks` for the look at the file,
samples modulo `flush_every` and `summary_every`, the two error counters), the
calls of one turn as separate actions in source order (head of the loop, sample
and write, flush, checkpoint), then `emit_job_end`, `write_final_summary` and
`Drop`. Signals, SIGKILL and the script's three uses of the exit-status file
interleave with every one of them. `exit` and `written` are the summary's
`exit_reason` and `summary_written`. A `summary_every` of 0 disables
checkpoints. Unmodelled here: what a sample contains. Three history variables
(`recent`, `lateTicks`, `trouble`) only record what happened, for the
properties.

### `LoggerContract` - what readers may rely on

The abstract specification of one logger, as far as the rest of a region can tell:
its `life`, the outcome it has read (`found`), its summary file, and the exit-status
file it reads (`record`, which the script changes at any time). While the loop runs,
checkpoints replace the file, partial and without an outcome. When it has ended, the
status is read once, from whatever `record` is at that moment. At most one final
summary follows, with the status that was read, or, after a panic, with the one
there is by then; after it the file never changes, and a process that is gone changes
nothing. `NodeLogger` implements it (`KeepsContract`), and so does each logger of
`TelemetryRegion` (`LoggersKeepContract`). `RegionAllowsContract` is the other
direction: every step the contract lets a logger take is a step of the region. With
`KeepsContract` this makes the reduction sound: no process that behaves as
`NodeLogger` can do to the region anything the region's model does not consider.

### `AtomicFile` and `PublishedDocument`

`write_json_atomic` call by call over inodes and names, with a failure, SIGKILL
or a crash of the node between any two calls, after which an inode keeps what
was synced and possibly more. `PublishedDocument` is what it promises: the visible
document only ever changes to a newer whole one. The mapping `Shown` takes a file
that is not whole for no document at all, so `OnlyNewer` fails as soon as a reader
could see half of one.

### `MergeRules`, `MergeSummaries`, `JobMerge`

`MergeRules` holds the outcome rule as an operator, used by `TelemetryRegion`.
`MergeSummaries` is the code's two loops, one element at a time, over an
arbitrary list of summaries with several per host (ranks, or a checkpoint beside
a final one), with saturating addition at `MaxU64`.

`JobMerge` extends it by everything that comes before: the manifest, written or
not, over what an earlier run left there; `find_node_summaries`, by the manifest
or else name by name; `load_node_summaries`, file by file. Loggers publish while
this goes on, each document whole (`AtomicFile`). A name is its place in sorted
order; a body is a summary of some job and node, another document, or broken.
`readable` is a history variable: what a merge had to take when it began. The
loops of `MergeSummaries` then run over the list that was loaded, and its
properties are checked there.

### `CgroupChoice`, `JobBooking`, `LoggerStart`

`CgroupChoice` and `JobBooking` are the pure functions of `cgroup.rs` and
`scheduler.rs` (with the parts of `cli.rs` that fill in arguments). A path is a
sequence of components, so that containment is a prefix; a file of
`/proc/<pid>/cgroup` is a path per controller; a host is what the kernel shows.
A time is its fields, an amount of memory a number and a unit.

`LoggerStart` is the process that uses them: `Resolve`, `Refuse`, `Dispatch`,
then either the preflight or the steps of `TelemetryLogger::new` in their order,
each an action, while the other processes of the node come to their ends in
between (`Exits`). `Submit` is the user who runs the job that was checked.
`MCLoggerStart` gives hosts, files and environments by name.

Three of its properties are about what is read where the kernel's files say one
thing of the job; they are theorems under conditions on the site, which
`LoggerStart` states after them and `MCLoggerStart` assumes of its instance, so
that TLC evaluates them on every host, file and placement of the run:
`NamedIsFollowed`, `NamedThroughout`, `HeldAlike`, `LedAlike`, `DelegatedAlike`
and `TimesReadable` (section 5).

### `ProcessScan`

One scan of the job, by cgroup or by parent, with the table of processes
changing between any two reads: each `cgroup.procs`, `stat`, `io`, `children`
and each `stat` of the fallback is an action, and so is each fork, exit and move
between the job's directories. A process is the number of its birth, its pid may
be reused. `main` says whether it was forked by a main thread, which is what
the kernel's children file lists. Sums are reduced to who was counted. The
history variables `ours`, `steady`, `begun` and `due` say what a scan had to
find, for the properties. `SubSampled` and `EndTick` are the two maxima that
make several scans one figure.

### `CounterWindows`

`sample_tick` and `update_summary` as far as they turn counters into figures of
an interval: the CPU total and its breakdown, the rate behind the peak, and the
network total. The clock moves in sampling intervals; the history variables
`used` and `carried` are what the job and the node really did. `TickFails` is
the early return when the CPU counter cannot be read: the network is not read
either and the next window is longer. `primed` tells whether `new` could read the
CPU counter; without that first reading the code charges the past to the first
tick, and the CPU properties are stated for a primed logger.

### `GpuSampler`

The worker thread step by step (head of its loop, poll, store, sleep), with the
main thread cloning the shared reading in between and dropping its handle at any
moment. The vendors' tools are external: each poll lists every GPU or fails.
Probing, disabling, the mask and the positional peaks of the summary are as in
the code. A listing that changes from poll to poll is left out: there the code
keeps peaks by position and overwrites `gpu_indices`, so a peak can end up under
another GPU's index.

### Slips

In the modules an operator defined just before another one and used by no action
(`KeepExitFile` before `ClearExitFile`, `NoSync` before `ToDisk`, ...) is a
plausible mistake in that code: put in the other's place, it makes the property
listed with it in `mutants` of `PROJECT.json` fail. They are there so that each
property is known to say something; a refinement that covers several promises has
one slip for each of them.

## 3. Runs

Passing:

| run | question | bounds |
|---|---|---|
| `NodeLogger_all` | Can a logger lose more than a checkpoint period, flush late, notice late, contradict its own stream, give up without a full run of errors, return without its final summary, break the contract, begin another tick after a signal, or fail to end when told? | flush and look every 2 ticks, checkpoint every 3 samples, 2 errors, 2 exit codes; history counters stop at `Cap` = 4, past every bound they are compared with |
| `AtomicFile_one` | What can a reader see, and what survives a crash? | 1 writer, 3 documents of 1 to 3 pieces, 3 inodes (both names and one stray) |
| `JobMerge_all` | From the directory to the result: is every readable summary of this job merged once, none of another job, and is the result the worst outcome, with true bounds and an honest `nodes_partial`? | 4 names (an earlier merge's output, two conventional names, one the user chose) with every body each can have, 2 hosts, 3 codes and unknown, sums below, at and above the maximum; a manifest that is broken, another job's, ours, or written now with and without `{host}`; one document published during the merge |
| `LoggerStart_all` | Is what a logger takes for the job the job's, and does the preflight keep its word? | 3 sites (v1 with controllers left at the daemon, v2, hybrid), the logger in the job, in a login session, in the root; the root process in the job, in a neighbour's, in the root; a neighbour whose id contains the job's or does not; hosts where paths cannot be followed, CPU time or I/O cannot be read, no limit is set; every form of Slurm time and memory; refused arguments |
| `ProcessScan_all` | Who is counted when processes fork, end, move and reuse pids between any two reads? | 4 pids, 4 births, 2 events during each of 2 scans, a directory with one below it and a depth of 1; both sources and the fallback |
| `TelemetryRegion_faults` | Does the region keep `JobReport`, and each logger `LoggerContract`, under every fault at once; does `telemetry_stop` go only forward, wait for nobody in vain, and return? | 2 nodes, 3 codes, waits of 3 and 2 turns, all `Faults` |
| `TelemetryRegion_prompt` | Is the wait long enough when loggers look in time, and do all of them end although the file that tells them is removed? | 3 nodes, so that two remote loggers finish in either order; loggers may give up |
| `CounterWindows_all` | Is every unit of CPU time and of traffic charged exactly once, to a window it belongs to? | 2 CPUs, 3 intervals (a window of three after two failed ticks), traffic up to 2, one counter of each kind going back at most, CPU counter primed or not, cgroup v1 and v2 |
| `GpuSampler_all` | Do GPU peaks stay with their GPUs, can a stale reading outlive the polling, and does the worker end? | 2 GPUs, 2 figures, both vendors installed or not, 4 masks, any poll may fail |

The bounds of `ProcessScan_all` are on the behaviour (births, events, scans):
when they are used up the model stops, so this run does not check deadlock. Four
pids are a root, a child, a stranger and a free one; two events are an
exit and the fork that takes its pid. In `LoggerStart_all` the placements vary
with everything about cgroups and nothing about the booking, and the other way
round: no function reads both except `Book`, which takes the limit from one and
the argument from the other. One publication during the merge is enough to come
between the look at a name and its load, for each name in turn.

Two periods of different length (2 and 3) bring the flush and the checkpoint in
and out of step, which is all a longer period would add. Nodes interact only
through the script and the merge, so one remote node meets every interleaving
with the local one; the third node of `TelemetryRegion_prompt` is for the
waits, which end when the *last* launcher returns. The script runs on the
second node, so that the merge reads a remote summary first.

Violations. Each states what a comment of the repository says and shows the
code doing otherwise (`findings` has the quotations):

| run | what happens |
|---|---|
| `TelemetryRegion_leftrunning` | the local logger dies within 0.2 s: `telemetry_start` returns without activating the region, after the remote loggers were launched; nothing ever stops them |
| `TelemetryRegion_term` | at the walltime limit the scheduler and `telemetry_stop` each send the local logger a SIGTERM; the second ends it before its final summary |
| `LoggerStart_scope` | on a node whose cgroup has no memory limit, Slurm's booking for one node is recorded as the whole job's and as coming from PBS |

Other places where the code does something else than a comment says, or than a
reader may expect, met while modelling and left without a run of their own:

* `logger-rs.sh:549-551`: a logger that looks between the creation of the
  exit-status file and its content stops and records an unknown outcome,
  although the script recorded one.
* `logger-rs.sh:613`: with an interval longer than the wait (3600 s is accepted)
  the file is removed before a remote logger has looked, although
  it is "the signal that tells loggers on remote nodes to shut down"
  (`logger-rs.sh:377-378`).
  `LoggersStop` is stated for loggers that look in time.
* `src/merge.rs:335-339`: a node that leaves no summary does not keep the job from
  an exit status of 0; it is listed in `nodes_missing`.
* `src/logger.rs:849-851`: a logger that gave up after too many errors clears
  `partial` ("so the file on disk always says whether it describes a complete
  run") although the job goes on.
* `src/output.rs:33-34` promises readers whole documents, which with the fixed
  temporary name of `src/output.rs:97-103` holds for one writer per path only:
  the assumption `OneWriter` below.
* The preflight looks at its own cgroup, whatever `--cgroup` and `--tree-pid` say:
  `CheckIsHonest` leaves out runs with an explicit path.
* `Cgroup::discover` ranks the root last and takes it when nothing else can be
  followed; `--cgroup /sys/fs/cgroup` is not recognised as the root at all, since
  its path is kept in full.
* A candidate is ranked by whether its path *contains* the job id, so job 12
  cannot tell a directory of job 123 from its own, and takes the deeper one.
  `NamesTell` states the properties where names do tell.
* On a hybrid host a candidate is judged by its v1 path although the v2 one may
  be the one that can be followed.
* `--procs-from cgroup` fails when the cgroup holds only others' processes and
  they end while the logger starts; `CheckIsHonest` names that case.
* `src/process.rs:282-293`: the fallback that reads every `stat` runs where the
  children file is missing, so that a worker forked by a thread other than the
  main one is not found where the file exists. `SteadyCounted` is stated for the
  processes within reach (`main`).

## 4. Fairness

Safety runs assume none. `FairSpec` of `NodeLogger` is weak fairness of the main
thread: a thread that can run is eventually scheduled. It assumes nothing about
signals, failures or the script. `FairSpec` of `TelemetryRegion` adds the shell
(a sequential program that is runnable whenever it is not waiting), each logger
(the previous assumption, as `NodeLogger` shows it ends once told) and each
launcher once it has nothing left to hold or was sent SIGTERM: this last one is
an assumption about `pbs_tmrsh`, `pbsdsh` and `srun`, and `telemetry_stop` does
depend on it, since it waits for them without a limit. Only the runs that check
a liveness property use it: `TelemetryRegion_faults` for `StopReturns`,
`TelemetryRegion_prompt` for `LoggersStop`, and `TelemetryRegion_leftrunning`.
`FairSpec` of `GpuSampler` schedules the worker thread and assumes that the
vendor's tool returns, which the code waits for without a limit; it assumes
nothing of the main thread.

## 5. Proofs

Each of these holds for every value of the constants that meets the named
assumptions; a formula that a run checks too, on a small instance, is the `property`
of its theorem in `PROJECT.json`. Every invariant, every action property and every
refinement of a passing run is the subject of a theorem.

* `AtomicFile_proofs`: `NeverHalfWritten`, `VisibleIsDurable`, and that
  `AtomicFile` implements `PublishedDocument` (`OnlyNewer`). The properties are not inductive:
  they speak of the final name, and a rename brings whatever the temporary one
  has become. `Inductive` adds that a writer's open file *is* the temporary one and
  holds exactly the pieces written so far, and that a synced one is whole,
  durable and newer than what is visible. Assumes `OneWriter`, which is what a
  region provides: one logger per node under a `{host}` name, one merge.
* `NodeLogger_proofs`: `TypeOK`, `CheckpointBoundsLoss`, `FlushBoundsLag`,
  `NoticesFileInTime`, `GivesUpOnlyOnARun`, `JobEndAgrees`, `ReturnLeavesFinal`, and
  that `NodeLogger` implements `LoggerContract`, for any periods, error limit and
  codes. `JobEndAgrees` relates two writes made steps apart, so `Outcome` follows
  the outcome between them: nothing is taken before the loop is over, what
  `job_end` recorded is what the summary will say, and a final summary exists
  only where `summary_written` is set or `Drop` is done; `LastWord` carries on from
  there to the process that returned. `Loss` and `Lag` say why a
  checkpoint and a flush bound the loss: what is not on disk is what came since
  the last one, except between the sample that completes a period and the write
  at its end. `Late` ties the ticks begun under the file to the tick counter that
  throttles the look, and `Runs` an error counter to the failures in a row
  (it reaches its limit only on the way out of the loop: `Limits`). `ObeysSignal` is
  what `SignalStops` rests on, as far as it can be said without fairness: from the
  first signal on every step of the main thread takes it nearer to its end, by a
  measure that starts at 8 at most, and no other step takes it away from there.
* `TelemetryRegion_proofs`, for any set of nodes, codes, waits and faults: `TypeOK`;
  `OutcomeIsReal`, `HonestMerge` and `LocalSettled`; that every logger keeps the
  contract `NodeLogger` is proved to implement (`LoggersKeepContract`) and that the
  region has every step of the contract (`RegionAllowsContract`); that the region
  implements `JobReport` (`KeepsReport`); `StopGoesForward` and `NeverWaitsInVain`. Four
  parts are added to the type invariant: before a region is launched nothing has been
  written (`Begun`); the exit-status file, what a logger has read and every summary's
  outcome are the status `telemetry_stop` was given, and none of them exists before it
  was (`Outcomes`); a final summary is the last word of a logger that is ending or
  gone, and what the merge has read is what was in the file or an earlier checkpoint of
  it (`Files`); and the local logger is gone once a merge has been published
  (`Merging`). For the refinements three more facts are carried along: only a logger
  that is ending has read a status (`Reading`), a summary that was found is there to
  be read, and what was published stays published (`Lasting`). Every step is first
  seen from one node (`SeenFromItsNode`): a step of its own logger, the launch, an end
  by a signal or a loss, or nothing. Assumes that the nodes are ordered and that every
  non-empty set of them has a first (a finite list has), and that exit codes differ
  from the markers.

  `StopGoesForward` and `NeverWaitsInVain` are what `StopReturns` rests on, as far as
  it can be said without fairness: each step of `telemetry_stop` passes to a later
  stage, counts a second of a bounded wait or reads one more summary, and nothing that
  loggers, launchers or the scheduler do sets it back; and the one wait without a
  limit for a logger is for one that has gone or holds a signal it cannot lose.

  `WaitIsEnough` is proved of regions in which nothing is lost (`NothingLost`: the one
  trouble is a logger that gives up, and loggers look within the shorter wait), which
  is where the comment claims it; the strengthening `Undisturbed` says that nobody is
  signalled but the local logger, by `telemetry_stop`; that a launcher which has
  returned leaves no logger running and a logger that is gone has left a final file;
  and that the wait ends only when every launcher has returned, so that every summary
  is there to be read. Of the same regions `NobodyIsLeft`, the safety half of
  `LoggersStop`: no logger is left when the merge begins or the file is removed.
* `JobMerge_proofs`: of the loops, `WorstOutcome`, `PeaksBracket` and
  `CompleteHostsAreFinal`, by what the accumulators are worth after each prefix
  of the list; a host is complete only if no prefix had a checkpoint of it. Of
  the whole merge, `OnlyThisJobOnce`, `NothingReadableIgnored`, and that the
  three properties of the loops hold of the list that is found and
  loaded. `MergeInv` adds: what is still to load is without repetition and
  disjoint from what was loaded or failed; whatever the merge had to take when it
  began is found, still to be looked at, or loaded; and a name that is good stays
  good, of the same host, whatever loggers publish. That every document is
  merged once rests on the names being sorted and deduplicated, and on the
  search going up the names.
* `ProcessScan_proofs`: `CountedOnce`, `ForeignOnlyByReuse`, `SteadyCounted` and
  `PeakKeepsBursts`, for any set of
  pids, any tree and any number of events. `Once` is the strengthening for the
  first: the queue
  holds no pid twice nor the one being read, and a process that was counted and
  still lives is past, that is, its pid is not queued and, in the walk, already
  met; so a process counted twice would have to be queued again. It needs
  `Table` (births are told apart, a process is younger than its parent and in
  the same job) and `Control`. For the strangers: every pid
  still to be read is of a process that is ours or was born since the scan
  began (`Scanning`). For the steady ones, `SteadyInv`: one that is neither counted
  nor queued is in a directory still to be listed, or has a parent, steady itself,
  still to be met or to be asked for its children; when nothing is left to read
  there can be none, since the chain of parents goes up in age and would have an
  oldest. Assumes of the start a finite set of pids, processes
  younger than their parents and in the same job, and directories of the job
  apart from the others.
* `CounterWindows_proofs`: `NetChargedOnce`, `CpuChargedOnce`, `PeakWithinMachine` and
  `BreakdownAddsUp`, for any finite set of CPUs and any ticks that fail. What the
  network total still lacks is at
  least what the next reading would add, and exactly that while no counter has
  gone back; before the first valid reading nothing is charged. For the CPUs the
  same is so of each one (`CpuInv`), and the totals follow because a sum over the
  CPUs is additive.
* `GpuSampler_proofs`: `TypeOK`, `GpuPeaksBelong` and `NoGhostReading`, for any GPUs,
  masks and tools that fail. Indices and peaks are lists that are only compared by
  position, so the invariant says of every place a listing
  passes through (the tool's answer, the shared reading, the peaks of the summary)
  that it is empty or the visible part of the listing, place by place (`NthIsOne`,
  `FilterKeeps`), with no figure above the one the asked vendor showed
  (`Readings`, `Summary`); and a sampler that is disabled has stored its last, empty
  answer before its worker looks at the flag (`Disabled`). `WorkerNearsEnd`: once the
  handle is dropped every step of the worker is nearer to its end. Assumes that a vendor always lists the same GPUs
  (section 2).
* `LoggerStart_proofs`, of every node: `RootOnlyAsLastResort` and `SlurmLimitIsBooked`.
  `FoundInv` says that the cgroup was discovered among the files of
  processes that were alive together, and `DiscoverTakes` that discovery takes a
  file that ranks in no later bucket than any other that leads somewhere; for the
  times, the three forms come out in seconds (`LimitIsParsed`) and the text they are
  carried in says the same (`ClockAddsUp`), below the width of a `u64`.

  And of the sites where one thing the code looks at says what it takes it to say:

  | theorem | property | holds where |
  |---|---|---|
  | `NeighboursAreLeftOut` | `NoNeighbourMeasured` | a file that names the job can be followed if any can (`NamedIsFollowed`); a job named by any controller's path is named by the path the file is judged by, and the unified path of a file judged to name it does too or is the root (`NamedThroughout`) |
  | `CpusAreThoseOfTheJob` | `CpusAreTheJobs` | `NamedIsFollowed`; the processes of a job, and the directories their files lead to, have the same CPUs (`HeldAlike`) |
  | `CheckKeepsItsWord` | `CheckIsHonest` | of files judged to lead below the root none leads to it, and CPU time is readable in all or none (`LedAlike`); what is delegated to the logger in its job is delegated to every process as much of the job by its path (`DelegatedAlike`); PBS's time variables have a time (`TimesReadable`) |

  These conditions were found by the proofs, and each is one the code does not
  look at and needs. Without `NamedIsFollowed` discovery passes the job's own file
  over and takes a lower-ranked one, which may be the directory of the scheduler's
  service with other jobs in it; without `NamedThroughout` a hybrid host's v2 path is
  taken on the word of its v1 path; without `LedAlike` a check that looked at the
  logger's file promises what the file of `--tree-pid` does not keep. They are facts
  of kernels and schedulers (one mount namespace, a job's directory under the same
  name in every hierarchy), true of the hosts of the run and not of every
  conceivable one.

Sums and what is below a process are recursive functions, and the theorems of the
library about induction have an operator as a parameter, which the provers cannot
instantiate. The proofs get by with sets: every nonempty set of numbers has a least
one (`LeastNumber`, from well-foundedness), hence a set of numbers with 0 and every
successor is all of them (`AllNumbers`), hence the same for the subsets of a finite
set (`AllSubsets`).

Assumptions on the constants are named where the constants are declared. Those that
say something of the world: CPUs and nodes are finitely many; what a
vendor lists is numbers; a depth is a number; the marks for a missing value are no
values (`UnsetAssumption`, `UnreadAssumption`, `NoPathAssumption`); the starts, files,
job ids and limits have the shapes the parsers return (`StartsAssumption`,
`FilesAssumption`, `JobIdsAssumption`, `LimitsAssumption`).

`TypeOK` is a theorem for `NodeLogger`, `TelemetryRegion` and `GpuSampler` and a part of
`Inductive` in `AtomicFile`. In the other modules it describes the state for the
reader; TLC finds it true on the instances of the runs (of `MergeSummaries`, from the
phase at which its loops begin).

Model-checked only: liveness, which is out of the provers' reach (`SignalStops`,
`FileStops`, `StopReturns`, `LoggersStop`, `WorkerStops`). What of it can be said
without fairness is proved: `ObeysSignal`, `NoticesFileInTime`, `StopGoesForward` with
`NeverWaitsInVain`, `NobodyIsLeft` and `WorkerNearsEnd`, in this order. What remains is
fairness, and that some step is enabled.

## 6. Not modelled

* The parsers of cgroup files, of `/proc`, of the mount table, of vendor tools
  and of node lists: each is reduced to what it returns, a failure included.
* The declarations of the options (clap's), the texts that are printed, and the
  normalised forms kept beside a value; the message of a merge that found
  nothing (`find_node_logs`); the preflight's warnings about node-local paths and
  about the node file.
* Floating-point totals of the merge and the averages of the summary; the plain
  maxima of the summary that are one assignment each.
* Host names (`host.rs`): one lookup and a character filter.
* Traps of the caller that are saved and restored, and a second region in one
  script. An exit-status file left by an earlier region is modelled.
* A listing of GPUs that changes from poll to poll (see `GpuSampler`).

`components` in `PROJECT.json` gives the reason for each.

## 7. Plan

The order of work was: the region and the logger, whose protocol is the heart of
the system; the two things they rest on, atomic publication and the merge; the
measurements; the ground they are taken on, from the choice of the cgroup to the
scan of its processes; the merge from its directory; then the proofs, component by
component, and last the refinements that tie them together (`LoggerContract` between
the process and the region, `JobReport` above the region). What could come next:

1. Traps: saved and restored handlers, a signal inside `telemetry_stop` with the
   caller's own trap, and a second region in one script.
2. Proofs: `TypeOK` of the modules where it is not a theorem.
3. The rest of `update_summary` (thread and file peaks, I/O totals from two
   sources), if a property about them is found that one assignment does not
   give.
