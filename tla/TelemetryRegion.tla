-------------------------- MODULE TelemetryRegion --------------------------
(***************************************************************************)
(* One measured region of a job: the shell library logger-rs.sh on the     *)
(* head node (telemetry_start, its traps, telemetry_stop), a logger on     *)
(* every node, the launchers (pbs_tmrsh, pbsdsh, srun) that hold the       *)
(* remote ones, the exit-status file and the summaries on the shared       *)
(* filesystem, the merge at the end, and the scheduler's signals.          *)
(*                                                                         *)
(* A logger is what LoggerContract says it is: NodeLogger has the process  *)
(* itself.  Time passes only where the library counts it, in the wait for  *)
(* the remote loggers; PollSecs says how long they may take.               *)
(***************************************************************************)
EXTENDS MergeRules

CONSTANTS
  Nodes,      \* the allocation, in the order their summaries are read
  Local,      \* the node the job script runs on
  Codes,      \* exit statuses, Success and Terminated among them
  Terminated, \* 143
  Hurried,    \* the statuses that mean SIGKILL is near
  WaitSecs, HurriedSecs,  \* the two waits of telemetry_stop
  PollSecs,   \* seconds until every remote logger has looked and ended
  Faults      \* what may go wrong outside the program

(* start: a logger's start-up fails; late: 0.2 s is too short for it;      *)
(* launch: a node has no launcher; launcher: one returns before its        *)
(* logger; crash: a process or a node is lost; giveup: the error limit;    *)
(* disk: a write fails; term, kill: the scheduler's signals.               *)
FaultKinds == {"start", "late", "launch", "launcher", "crash", "giveup", "disk",
               "term", "kill"}

ASSUME NodesAssumption ==
  /\ Nodes \subseteq Int /\ Local \in Nodes
  /\ \A S \in SUBSET Nodes : S # {} => \E i \in S : \A j \in S : i <= j
ASSUME CodesAssumption ==
  /\ {Success, Terminated} \cup Hurried \subseteq Codes
  /\ (Codes \cup {None}) \cap {"unset", "unknown", "absent", "empty"} = {}
  /\ None \notin Codes
ASSUME TimeAssumption ==
  /\ WaitSecs \in Nat /\ HurriedSecs \in Nat /\ HurriedSecs <= WaitSecs
  /\ PollSecs \in Nat
ASSUME FaultsAssumption == Faults \subseteq FaultKinds

Remotes == Nodes \ {Local}

VARIABLES
  script,    \* where the job script is
  active,    \* _HT_ACTIVE
  status,    \* what telemetry_stop was given
  exitFile,  \* the exit-status file: absent, empty or a code
  waited,    \* seconds spent waiting for the launchers
  logger,    \* each node's logger process
  told,      \* loggers whose running flag is cleared
  found,     \* the outcome each has read, "unset" before and after
  file,      \* each node's summary
  launcher,  \* each remote node's launcher
  warned,    \* the scheduler's SIGTERM to the script: no, sent, taken
  pending,   \* loggers the scheduler's SIGTERM has still to reach
  listed,    \* --merge: nodes whose summary was found
  seen,      \* --merge: what was read
  merged     \* the job-level summary

shell     == <<script, active, status, exitFile, waited>>
processes == <<logger, told, found, file, launcher>>
signals   == <<warned, pending>>
merge     == <<listed, seen, merged>>
vars == <<shell, processes, signals, merge>>

Stopping == {"record", "write", "signal", "waitlocal", "poll", "join", "list",
             "read", "cleanup"}
Scripts  == {"start", "check", "work", "done", "killed"} \union Stopping

Summary == [kind : {"none", "partial", "final"},
            exit : Codes \union {"unset", "unknown"}]
NoSummary == [kind |-> "none", exit |-> "unset"]
NoMerge == [done |-> FALSE, exit |-> None, missing |-> {}, partial |-> {}]

(* An earlier region may have left its exit-status file, but no summaries. *)
Init ==
  /\ script = "start" /\ active = FALSE /\ status = Success
  /\ exitFile \in Codes \union {"absent"} /\ waited = 0
  /\ logger = [n \in Nodes |-> "off"] /\ told = {}
  /\ found = [n \in Nodes |-> "unset"]
  /\ file = [n \in Nodes |-> NoSummary]
  /\ launcher = [r \in Remotes |-> "none"]
  /\ warned = "no" /\ pending = {}
  /\ listed = {} /\ seen = [n \in Nodes |-> NoSummary] /\ merged = NoMerge

(* As in NodeLogger, an operator just before another one, named for a slip *)
(* and used by no action, is the wrong code the properties must notice.    *)
-----------------------------------------------------------------------------
(* telemetry_start.                                                        *)

(* No binary, or no output directory: the job runs unmeasured.             *)
StartUnavailable ==
  /\ script = "start"
  /\ script' = "work"
  /\ UNCHANGED <<active, status, exitFile, waited, processes, signals, merge>>

(* The file of an earlier region of the job is removed before any logger   *)
(* can take it for this one's; then the local logger and the remote ones,  *)
(* some of which may have no launcher.                                     *)
KeepExitFile == UNCHANGED exitFile
ClearExitFile == exitFile' = "absent"

Launch ==
  /\ script = "start"
  /\ script' = "check"
  /\ ClearExitFile
  /\ \E S \in SUBSET Remotes :
       /\ S = Remotes \/ "launch" \in Faults
       /\ logger' = [n \in Nodes |-> IF n \in S \union {Local} THEN "launched"
                                     ELSE "off"]
       /\ launcher' = [r \in Remotes |-> IF r \in S THEN "up" ELSE "none"]
  /\ UNCHANGED <<active, status, waited, told, found, file, signals, merge>>

(* kill -0 on the local logger, 0.2 s later; then the traps.               *)
StartFinds ==
  /\ script = "check" /\ logger[Local] # "gone"
  /\ logger[Local] # "launched" \/ "late" \in Faults
  /\ script' = "work" /\ active' = TRUE
  /\ UNCHANGED <<status, exitFile, waited, processes, signals, merge>>

StartFindsNothing ==
  /\ script = "check" /\ logger[Local] = "gone"
  /\ script' = "work"
  /\ UNCHANGED <<active, status, exitFile, waited, processes, signals, merge>>
-----------------------------------------------------------------------------
(* telemetry_stop, called by the script, at its exit or by a trap.         *)

StopWith(given) ==
  /\ status' = given
  /\ script' = IF active THEN "record" ELSE "done"
  /\ active' = FALSE

WorkloadEnds ==
  /\ script = "work"
  /\ \E given \in Codes : StopWith(given)
  /\ UNCHANGED <<exitFile, waited, processes, signals, merge>>

(* `echo "$status" > file`: the file appears, then its content; either     *)
(* step may fail, and the shutdown goes on.                                *)
CreateExitFile ==
  /\ script = "record"
  /\ \/ exitFile' = "empty" /\ script' = "write"
     \/ "disk" \in Faults /\ script' = "signal" /\ UNCHANGED exitFile
  /\ UNCHANGED <<active, status, waited, processes, signals, merge>>

WriteExitFile ==
  /\ script = "write"
  /\ exitFile' \in {status} \union (IF "disk" \in Faults THEN {"empty"} ELSE {})
  /\ script' = "signal"
  /\ UNCHANGED <<active, status, waited, processes, signals, merge>>

(* A process is over, and with it what it had read.                        *)
Gone(n) ==
  /\ logger' = [logger EXCEPT ![n] = "gone"]
  /\ found' = [found EXCEPT ![n] = "unset"]

(* A signal at logger n: the first clears its flag, the second ends it     *)
(* where it is, and one before the handler is installed kills it.          *)
SignalledInTime(n) ==
  /\ told' = told \union {m \in {n} : logger[m] \in {"up", "ending"}}
  /\ UNCHANGED <<logger, found>>
Signalled(n) ==
  IF logger[n] \in {"up", "ending"} /\ n \notin told
    THEN told' = told \union {n} /\ UNCHANGED <<logger, found>>
  ELSE IF logger[n] = "off" THEN UNCHANGED <<logger, told, found>>
  ELSE Gone(n) /\ UNCHANGED told

TermLocal ==
  /\ script = "signal"
  /\ Signalled(Local)
  /\ script' = "waitlocal"
  /\ UNCHANGED <<active, status, exitFile, waited, file, launcher, signals,
                 merge>>

LocalNotAwaited == TRUE
LocalEnded == logger[Local] = "gone"

WaitLocal ==
  /\ script = "waitlocal" /\ LocalEnded
  /\ script' = "poll" /\ waited' = 0
  /\ UNCHANGED <<active, status, exitFile, processes, signals, merge>>

(* One turn of the wait: kill -0 on every launcher, then a second's sleep. *)
Wait == IF status \in Hurried THEN HurriedSecs ELSE WaitSecs
LastLauncherGone == \E r \in Remotes : launcher[r] # "up"
LaunchersGone == \A r \in Remotes : launcher[r] # "up"

(* Assumption: it takes the remote loggers PollSecs at most to see the     *)
(* file, write their summaries and end, and their launchers to return.     *)
SecondTooMany == waited <= Wait
SecondsLeft == waited < Wait

Second ==
  /\ script = "poll" /\ ~LaunchersGone /\ SecondsLeft
  /\ waited < PollSecs
  /\ waited' = waited + 1
  /\ UNCHANGED <<script, active, status, exitFile, processes, signals, merge>>

WaitOver ==
  /\ script = "poll" /\ (LaunchersGone \/ ~SecondsLeft)
  /\ script' = "join"
  /\ UNCHANGED <<active, status, exitFile, waited, processes, signals, merge>>

(* `wait` for the launchers that kill -TERM has been sent to, then the     *)
(* merge, unless --no-merge was given.                                     *)
Joined ==
  /\ script = "join" /\ LaunchersGone
  /\ script' \in {"list", "cleanup"}
  /\ UNCHANGED <<active, status, exitFile, waited, processes, signals, merge>>
-----------------------------------------------------------------------------
(* --merge: find the summaries, read them one by one, publish the result.  *)

MergeLists ==
  /\ script = "list"
  /\ listed' = {n \in Nodes : file[n].kind # "none"}
  /\ script' = IF listed' = {} THEN "cleanup" ELSE "read"
  /\ UNCHANGED <<active, status, exitFile, waited, processes, signals, seen,
                 merged>>

MergeReads(n) ==
  /\ script = "read" /\ n \in listed /\ seen[n] = NoSummary
  /\ \A m \in listed : m < n => seen[m] # NoSummary
  /\ seen' = [seen EXCEPT ![n] = file[n]]
  /\ UNCHANGED <<shell, processes, signals, listed, merged>>

(* A summary's exit_status, absent in a checkpoint and when unknown.       *)
Recorded(s) == IF s.exit \in Codes THEN s.exit ELSE None

PartialFirst == {n \in listed : n = Least(listed) /\ seen[n].kind = "partial"}
PartialNodes == {n \in listed : seen[n].kind = "partial"}

MergePublishes ==
  /\ script = "read" /\ \A n \in listed : seen[n] # NoSummary
  /\ merged' = [done |-> TRUE,
                exit |-> MergedExit(listed, [n \in listed |-> Recorded(seen[n])]),
                missing |-> Missing(Nodes, listed),
                partial |-> PartialNodes]
  /\ script' = "cleanup"
  /\ UNCHANGED <<active, status, exitFile, waited, processes, signals, listed,
                 seen>>

Cleanup ==
  /\ script = "cleanup"
  /\ exitFile' = "absent" /\ script' = "done"
  /\ UNCHANGED <<active, status, waited, processes, signals, merge>>
-----------------------------------------------------------------------------
(* The loggers, as LoggerContract has them.                                *)

LoggerStarts(n) ==
  /\ logger[n] = "launched"
  /\ logger' = [logger EXCEPT ![n] = "up"]
  /\ UNCHANGED <<shell, told, found, file, launcher, signals, merge>>

LoggerStartFails(n) ==
  /\ "start" \in Faults /\ logger[n] = "launched"
  /\ Gone(n)
  /\ UNCHANGED <<shell, told, file, launcher, signals, merge>>

CheckpointWritten(n) ==
  /\ logger[n] = "up"
  /\ file' = [file EXCEPT ![n] = [kind |-> "partial", exit |-> "unset"]]
  /\ UNCHANGED <<shell, logger, told, found, launcher, signals, merge>>

(* The loop ends: the flag, the exit-status file, or the error limit.      *)
WorkloadFinished == exitFile \in Codes /\ status = Success
WorkloadHasFinished == exitFile # "absent"

LoggerStops(n) ==
  /\ logger[n] = "up"
  /\ n \in told \/ WorkloadHasFinished
  /\ logger' = [logger EXCEPT ![n] = "ending"]
  /\ UNCHANGED <<shell, told, found, file, launcher, signals, merge>>

LoggerGivesUp(n) ==
  /\ "giveup" \in Faults /\ logger[n] = "up"
  /\ logger' = [logger EXCEPT ![n] = "ending"]
  /\ UNCHANGED <<shell, told, found, file, launcher, signals, merge>>

(* emit_job_end: read_exit_status, for the summary too.                    *)
ReadExitStatusOrZero == IF exitFile \in Codes THEN exitFile ELSE Success
ReadExitStatus == IF exitFile \in Codes THEN exitFile ELSE "unknown"

LoggerReads(n) ==
  /\ logger[n] = "ending" /\ found[n] = "unset"
  /\ found' = [found EXCEPT ![n] = ReadExitStatus]
  /\ UNCHANGED <<shell, logger, told, file, launcher, signals, merge>>

(* write_final_summary: in run, or in Drop as the process goes away, which *)
(* after a panic reads the status only now.                                *)
StatusForFinal(n) == IF found[n] = "unset" THEN ReadExitStatus ELSE found[n]

StillPartial(n) == [kind |-> "partial", exit |-> StatusForFinal(n)]
FinalSummary(n) == [kind |-> "final", exit |-> StatusForFinal(n)]

LoggerPublishes(n) ==
  /\ logger[n] = "ending" /\ file[n].kind # "final"
  /\ file' = [file EXCEPT ![n] = FinalSummary(n)]
  /\ \/ found' = [found EXCEPT ![n] = StatusForFinal(n)] /\ UNCHANGED logger
     \/ Gone(n)
  /\ UNCHANGED <<shell, told, launcher, signals, merge>>

(* The process returns, with its summary unless Drop's write failed too.   *)
LoggerReturns(n) ==
  /\ logger[n] = "ending"
  /\ file[n].kind = "final" \/ "disk" \in Faults
  /\ Gone(n)
  /\ UNCHANGED <<shell, told, file, launcher, signals, merge>>

(* The process or its whole node is lost, whatever it was doing.           *)
LoggerCrashes(n) ==
  /\ "crash" \in Faults /\ logger[n] \notin {"off", "gone"}
  /\ Gone(n)
  /\ UNCHANGED <<shell, told, file, launcher, signals, merge>>

(* A launcher returns after its logger, on its own account, or when it is  *)
(* sent a SIGTERM, which it may or may not forward.                        *)
LauncherReturns(r) ==
  /\ launcher[r] = "up" /\ (logger[r] = "gone" \/ "launcher" \in Faults)
  /\ launcher' = [launcher EXCEPT ![r] = "gone"]
  /\ UNCHANGED <<shell, logger, told, found, file, signals, merge>>

NoLauncherTermed == FALSE
LauncherTermed == script = "join" \/ warned # "no"

LauncherKilled(r) ==
  /\ launcher[r] = "up" /\ LauncherTermed
  /\ launcher' = [launcher EXCEPT ![r] = "gone"]
  /\ Signalled(r) \/ UNCHANGED <<logger, told, found>>
  /\ UNCHANGED <<shell, file, signals, merge>>
-----------------------------------------------------------------------------
(* The scheduler at the walltime limit: SIGTERM to every process of the    *)
(* job, each taking it in its own time, and SIGKILL at any moment.         *)

SchedulerTerm ==
  /\ "term" \in Faults /\ warned = "no" /\ script # "start"
  /\ warned' = "sent"
  /\ pending' = {n \in Nodes : logger[n] \notin {"off", "gone"}}
  /\ UNCHANGED <<shell, processes, merge>>

TermReachesLogger(n) ==
  /\ n \in pending
  /\ pending' = pending \ {n}
  /\ Signalled(n)
  /\ UNCHANGED <<shell, file, launcher, warned, merge>>

(* The TERM trap while the region is active; the default action otherwise. *)
TrapLeftSet == script \in {"work"} \union Stopping
TrapSet == script = "work" /\ active

TermReachesScript ==
  /\ warned = "sent" /\ warned' = "taken"
  /\ IF TrapSet
       THEN StopWith(Terminated)
       ELSE /\ script' = IF script = "done" THEN "done" ELSE "killed"
            /\ UNCHANGED <<active, status>>
  /\ UNCHANGED <<exitFile, waited, processes, pending, merge>>

ScriptKilled ==
  /\ "kill" \in Faults /\ script # "done"
  /\ script' = "killed"
  /\ UNCHANGED <<active, status, exitFile, waited, processes, signals, merge>>
-----------------------------------------------------------------------------
TelemetryStart == StartUnavailable \/ Launch \/ StartFinds \/ StartFindsNothing

TelemetryStop ==
  \/ CreateExitFile \/ WriteExitFile \/ TermLocal \/ WaitLocal
  \/ Second \/ WaitOver \/ Joined
  \/ MergeLists \/ (\E n \in Nodes : MergeReads(n)) \/ MergePublishes
  \/ Cleanup

LoggerStep(n) ==
  \/ LoggerStarts(n) \/ LoggerStops(n)
  \/ LoggerReads(n) \/ LoggerPublishes(n) \/ LoggerReturns(n)

LauncherStep(r) == LauncherReturns(r) \/ LauncherKilled(r)

Trouble ==
  \/ \E n \in Nodes : LoggerStartFails(n) \/ LoggerGivesUp(n) \/ LoggerCrashes(n)
  \/ SchedulerTerm \/ (\E n \in Nodes : TermReachesLogger(n))
  \/ TermReachesScript \/ ScriptKilled

(* The job script is over, and the region with it.                         *)
Ended == script \in {"done", "killed"} /\ UNCHANGED vars

Next ==
  \/ TelemetryStart \/ WorkloadEnds \/ TelemetryStop \/ Ended
  \/ \E n \in Nodes : LoggerStep(n) \/ CheckpointWritten(n)
  \/ \E r \in Remotes : LauncherStep(r)
  \/ Trouble

Spec == Init /\ [][Next]_vars

(* The kernels run the processes they have: the shell library, every       *)
(* logger, and a launcher that has been told or has nothing left to hold.  *)
LauncherDue(r) ==
  \/ logger[r] = "gone" /\ LauncherReturns(r)
  \/ script = "join" /\ LauncherKilled(r)

Fairness ==
  /\ WF_vars(TelemetryStart \/ TelemetryStop)
  /\ \A n \in Nodes : WF_vars(LoggerStep(n))
  /\ \A r \in Remotes : WF_vars(LauncherDue(r))

FairSpec == Spec /\ Fairness
-----------------------------------------------------------------------------
ShellOK ==
  /\ script \in Scripts /\ active \in BOOLEAN /\ status \in Codes
  /\ exitFile \in Codes \union {"absent", "empty"}
  /\ waited \in Nat /\ waited <= Wait

ProcessesOK ==
  /\ logger \in [Nodes -> {"off", "launched", "up", "ending", "gone"}]
  /\ told \subseteq Nodes
  /\ found \in [Nodes -> Codes \union {"unset", "unknown"}]
  /\ file \in [Nodes -> Summary]
  /\ launcher \in [Remotes -> {"none", "up", "gone"}]
  /\ warned \in {"no", "sent", "taken"} /\ pending \subseteq Nodes

MergeOK ==
  /\ listed \subseteq Nodes
  /\ seen \in [Nodes -> Summary]
  /\ merged \in [done : BOOLEAN, exit : Codes \union {None},
                 missing : SUBSET Nodes, partial : SUBSET Nodes]

(* The type invariant; waited stays within telemetry_stop's limit.         *)
TypeOK == ShellOK /\ ProcessesOK /\ MergeOK

(* The job-level exit status, when there is one, is the status the         *)
(* workload ended with: no summary took it from an earlier region's file,  *)
(* from a file not yet written, or from one already removed.               *)
OutcomeIsReal == merged.exit # None => merged.exit = status

(* A node the job-level summary shows as neither missing nor partial has   *)
(* left its final summary, whichever of the loggers were cut short and     *)
(* whatever they published while the merge was reading.                    *)
HonestMerge ==
  merged.done =>
    \A n \in Nodes \ (merged.missing \union merged.partial) :
      file[n].kind = "final"

(* telemetry_stop waits for the logger it started: the merge reads the     *)
(* local node's last word, which nothing can follow.                       *)
LocalSettled ==
  (script \in {"list", "read"} \/ merged.done) =>
    /\ logger[Local] = "gone"
    /\ Local \in listed => seen[Local] \in {NoSummary, file[Local]}

(* "They poll every couple of seconds, so 30s is generous": when nothing   *)
(* is lost, the wait covers every remote logger's final summary, in the    *)
(* short wait too.                                                         *)
WaitIsEnough ==
  merged.done => merged.missing = {} /\ merged.partial = {}

(* telemetry_stop returns, although it waits for processes on every node   *)
(* without a limit, unless the script itself is killed.                    *)
StopReturns == (script \in Stopping) ~> (script \in {"done", "killed"})

(* Once the exit status is recorded no logger is left running, on any      *)
(* node, although the file that says so is removed again.                  *)
LoggersStop ==
  (script = "signal") ~> (\A n \in Nodes : logger[n] \in {"off", "gone"})

(* Each logger is what LoggerContract says, whatever is sent to it and     *)
(* whatever becomes of the file it reads: what NodeLogger is, too.         *)
Life(n) == IF logger[n] = "off" THEN "launched" ELSE logger[n]
OneLogger(n) ==
  INSTANCE LoggerContract WITH
    life <- Life(n), found <- found[n], file <- file[n], record <- exitFile
LoggersKeepContract ==
  /\ \A n \in Nodes : OneLogger(n)!Init
  /\ [][\A n \in Nodes :
          [OneLogger(n)!Next]_<<Life(n), found[n], file[n], exitFile>>]_vars

(* What the reader of the job-level summary may rely on, in JobReport:     *)
(* telemetry_stop publishes it once, with the status the workload ended    *)
(* with whatever signals arrive, and never after the script was killed.    *)
ScriptState ==
  CASE script \in {"start", "check", "work"} -> "running"
    [] script = "killed" -> "killed"
    [] OTHER -> "ended"
FinalNodes == {n \in Nodes : file[n].kind = "final"}
Complete == IF merged.done THEN Nodes \ (merged.missing \union merged.partial)
            ELSE {}
Report ==
  INSTANCE JobReport WITH
    state <- ScriptState, final <- FinalNodes,
    report <- [done |-> merged.done, exit |-> merged.exit, complete |-> Complete]
KeepsReport == Report!Spec

(* telemetry_stop, which waits on processes without a limit of its own,    *)
(* goes only forward: each of its steps passes to a later stage, counts a  *)
(* second of the wait, or reads one more summary, and nothing that loggers *)
(* and launchers do meanwhile sets it back.                                *)
Stage ==
  [s \in Scripts |->
     CASE s = "record" -> 1 [] s = "write" -> 2 [] s = "signal" -> 3
       [] s = "waitlocal" -> 4 [] s = "poll" -> 5 [] s = "join" -> 6
       [] s = "list" -> 7 [] s = "read" -> 8 [] s = "cleanup" -> 9
       [] s \in {"done", "killed"} -> 10
       [] OTHER -> 0]
Unread == {n \in listed : seen[n] = NoSummary}
Advances ==
  \/ Stage[script'] > Stage[script]
  \/ /\ script = "poll" /\ UNCHANGED <<script, status>>
     /\ waited < waited' /\ waited' <= Wait
  \/ /\ script = "read" /\ UNCHANGED <<script, listed>>
     /\ Unread' \subseteq Unread /\ Unread' # Unread
StopGoesForward ==
  [][/\ TelemetryStop => Advances
     /\ script \in Stopping =>
          Advances \/ UNCHANGED <<script, status, waited, listed, seen>>]_vars

(* `wait "$_HT_LOCAL_PID"` has no limit: the logger it waits for has gone  *)
(* or has a signal it cannot lose, even one sent as it was starting.       *)
NeverWaitsInVain ==
  script = "waitlocal" =>
    \/ logger[Local] = "gone"
    \/ logger[Local] \in {"up", "ending"} /\ Local \in told

(* telemetry_start, when the local logger is dead: "continuing WITHOUT     *)
(* telemetry".  A job that runs unmeasured has no loggers.                 *)
UnmeasuredIsQuiet ==
  (script = "work" /\ ~active)
    ~> (\A n \in Nodes : logger[n] \in {"off", "gone"})

(* main: the handler is there because without it a SIGTERM meant losing    *)
(* "the job_end line, the summary, and any buffered samples".  A local     *)
(* logger that only SIGTERM has ended leaves no checkpoint as its last     *)
(* word, although the scheduler and telemetry_stop both send it one.       *)
TermKeepsSummary ==
  logger[Local] = "gone" => file[Local].kind # "partial"
=============================================================================
