----------------------------- MODULE NodeLogger -----------------------------
(***************************************************************************)
(* One logger process: TelemetryLogger::run and the signal handler of      *)
(* main, the exit-status file the job script writes next to it, and what   *)
(* it leaves on disk (its NDJSON stream and its summary file).             *)
(*                                                                         *)
(* The main thread, the signal-handler thread, the job script's file and   *)
(* the kernel (SIGKILL) interleave at every step.  The sample count is     *)
(* kept only as the residues and differences the code's decisions depend   *)
(* on: since the last flush, since the last checkpoint, not yet on disk.   *)
(* Replacing a file is one step here; AtomicFile opens that step up.       *)
(***************************************************************************)
EXTENDS Integers, Sequences

CONSTANTS
  FlushEvery,     \* ticks between flushes and between looks at the file
  SummaryEvery,   \* samples between checkpoints, 0 to disable them
  MaxErrors,      \* MAX_CONSECUTIVE_ERRORS
  Codes,          \* exit statuses a job script can record
  Cap             \* bound: unsaved and buffered stop counting here

ASSUME FlushAssumption == FlushEvery \in Nat \ {0}
ASSUME SummaryAssumption == SummaryEvery \in Nat
ASSUME ErrorsAssumption == MaxErrors \in Nat \ {0}
ASSUME CapAssumption == Cap \in Nat /\ Cap > FlushEvery /\ Cap > SummaryEvery
ASSUME CodesAssumption ==
  Codes \cap {"unset", "unknown", "absent", "empty"} = {}

VARIABLES
  pc,           \* where the main thread is, or how the process ended
  running,      \* the flag the handler clears
  hasCgroup,    \* FALSE: stub mode, nothing to measure
  hasExitFile,  \* --exit-status-file was given
  ticks,        \* ticks_since_stop_check
  sinceFlush,   \* samples % flush_every
  sinceCkpt,    \* samples % summary_every
  errs,         \* consecutive_errors
  werrs,        \* consecutive_write_errors
  exit,         \* summary.exit_status / exit_reason
  written,      \* summary_written
  exitFile,     \* the exit-status file: absent, empty or a code
  summaryFile,  \* the summary on disk
  unsaved,      \* samples the summary on disk does not cover
  buffered,    \* lines still in the BufWriter
  jobEnd,       \* the status of the job_end line, "none" before it
  noticed,      \* history: the loop ended because the file was there
  lateTicks,    \* history: ticks begun since the file appeared
  recent,       \* history: outcomes of the last MaxErrors ticks
  trouble       \* history: which kinds of output have failed

process   == <<pc, running, hasCgroup, hasExitFile>>
counters  == <<ticks, sinceFlush, sinceCkpt, errs, werrs>>
outcome   == <<exit, written>>
stored    == <<summaryFile, unsaved, buffered, jobEnd>>
history   == <<noticed, lateTicks, recent, trouble>>
vars == <<process, counters, outcome, exitFile, stored, history>>

Steps   == {"new", "loop", "tick", "flush", "checkpoint", "end", "final",
            "drop"}
Endings == {"returned", "unstarted", "forced", "killed"}
Alive   == pc \in Steps

Capped(n) == IF n < Cap THEN n ELSE Cap
-----------------------------------------------------------------------------
(* Some operators have a twin just before them, named for the slip it makes *)
(* and used by no action: the wrong code that the properties must notice.  *)

FinishedWhenReadable == hasExitFile /\ exitFile \in Codes

(* workload_has_finished: only the presence of the file is looked at.      *)
WorkloadHasFinished == hasExitFile /\ exitFile # "absent"

(* read_exit_status: no file, an absent file and an unparseable one are    *)
(* all "unknown", each with a reason that is not the initial one.          *)
ReadExitStatus ==
  IF hasExitFile /\ exitFile \in Codes THEN exitFile ELSE "unknown"

Remember(o) ==
  recent' = IF Len(recent) < MaxErrors THEN Append(recent, o)
            ELSE Append(Tail(recent), o)

Init ==
  /\ pc = "new" /\ running = TRUE
  /\ hasCgroup \in BOOLEAN /\ hasExitFile \in BOOLEAN
  /\ ticks = 0 /\ sinceFlush = 0 /\ sinceCkpt = 0 /\ errs = 0 /\ werrs = 0
  /\ exit = "unset" /\ written = FALSE
  /\ exitFile = "absent"
  /\ summaryFile = [kind |-> "none", exit |-> "unset"]
  /\ unsaved = 0 /\ buffered = 0 /\ jobEnd = "none"
  /\ noticed = FALSE /\ lateTicks = 0 /\ recent = <<>> /\ trouble = {}

(* TelemetryLogger::new, then emit_job_start.                              *)
Start ==
  /\ pc = "new"
  /\ pc' = "loop"
  /\ UNCHANGED <<running, hasCgroup, hasExitFile, counters, outcome, exitFile,
                 stored, history>>

(* new returns an error: no logger was built, so no Drop and no summary.   *)
StartFails ==
  /\ pc = "new"
  /\ pc' = "unstarted"
  /\ UNCHANGED <<running, hasCgroup, hasExitFile, counters, outcome, exitFile,
                 stored, history>>

(* The head of the loop: the flag, then the throttled look at the file.    *)
LookDueOneLate == ticks + 1 > FlushEvery
LookDue == ticks + 1 >= FlushEvery
Noticed == LookDue /\ WorkloadHasFinished

CountTickForever == ticks' = ticks + 1
CountTick == ticks' = IF LookDue THEN 0 ELSE ticks + 1

StillRunningWhileNoFile == running \/ (hasExitFile /\ exitFile = "absent")
StillRunning == running

LoopHead ==
  /\ pc = "loop" /\ StillRunning
  /\ CountTick
  /\ noticed' = Noticed
  /\ pc' = IF Noticed THEN "end" ELSE "tick"
  /\ lateTicks' = IF exitFile # "absent" /\ ~Noticed
                    THEN Capped(lateTicks + 1) ELSE lateTicks
  /\ UNCHANGED <<running, hasCgroup, hasExitFile, sinceFlush, sinceCkpt, errs,
                 werrs, outcome, exitFile, stored, recent, trouble>>

LoopEnds ==
  /\ pc = "loop" /\ ~StillRunning
  /\ pc' = "end"
  /\ UNCHANGED <<running, hasCgroup, hasExitFile, counters, outcome, exitFile,
                 stored, history>>

(* Stub mode: sleep and count a sample; nothing is written.                *)
StubTick ==
  /\ pc = "tick" /\ ~hasCgroup
  /\ unsaved' = Capped(unsaved + 1)
  /\ sinceFlush' = (sinceFlush + 1) % FlushEvery
  /\ pc' = "loop"
  /\ UNCHANGED <<running, hasCgroup, hasExitFile, ticks, sinceCkpt, errs,
                 werrs, outcome, exitFile, summaryFile, buffered, jobEnd,
                 history>>

(* update_summary, samples += 1; sinceCkpt stays 0 when disabled.          *)
CountSample ==
  /\ unsaved' = Capped(unsaved + 1)
  /\ sinceFlush' = (sinceFlush + 1) % FlushEvery
  /\ sinceCkpt' = IF SummaryEvery = 0 THEN 0 ELSE (sinceCkpt + 1) % SummaryEvery

(* A good sample ends a run of sampling errors, whatever happens to its    *)
(* line; a good write ends a run of write errors.                          *)
SamplingNeverRecovers == errs' = errs
SamplingRecovered == errs' = 0
WritingRecovered == werrs' = 0

(* A sample whose line the buffer took; a full buffer went out first.      *)
SampleWritten ==
  /\ pc = "tick" /\ hasCgroup
  /\ SamplingRecovered /\ WritingRecovered
  /\ CountSample
  /\ buffered' \in {Capped(buffered + 1), 1}
  /\ pc' = "flush"
  /\ Remember("ok")
  /\ UNCHANGED <<running, hasCgroup, hasExitFile, ticks, outcome, exitFile,
                 summaryFile, jobEnd, noticed, lateTicks, trouble>>

(* A sample whose line was lost, short of the limit: counted all the same. *)
WriteFails ==
  /\ pc = "tick" /\ hasCgroup
  /\ werrs + 1 < MaxErrors
  /\ SamplingRecovered /\ werrs' = werrs + 1
  /\ CountSample
  /\ pc' = "flush"
  /\ Remember("lost")
  /\ trouble' = trouble \union {"stream"}
  /\ UNCHANGED <<running, hasCgroup, hasExitFile, ticks, outcome, exitFile,
                 summaryFile, buffered, jobEnd, noticed, lateTicks>>

(* The MaxErrors-th lost line in a row: break before update_summary.       *)
WriteGivesUp ==
  /\ pc = "tick" /\ hasCgroup
  /\ werrs + 1 >= MaxErrors
  /\ SamplingRecovered /\ werrs' = werrs + 1
  /\ pc' = "end"
  /\ Remember("lost")
  /\ trouble' = trouble \union {"stream"}
  /\ UNCHANGED <<running, hasCgroup, hasExitFile, ticks, sinceFlush, sinceCkpt,
                 outcome, exitFile, stored, noticed, lateTicks>>

(* sample_tick returned an error: back off, or give up at the limit.       *)
SampleFails ==
  /\ pc = "tick" /\ hasCgroup
  /\ errs' = errs + 1
  /\ pc' = IF errs + 1 >= MaxErrors THEN "end" ELSE "loop"
  /\ Remember("error")
  /\ UNCHANGED <<running, hasCgroup, hasExitFile, ticks, sinceFlush, sinceCkpt,
                 werrs, outcome, exitFile, stored, noticed, lateTicks, trouble>>

(* A panic inside the tick unwinds to Drop.                                *)
Panic ==
  /\ pc = "tick"
  /\ pc' = "drop"
  /\ UNCHANGED <<running, hasCgroup, hasExitFile, counters, outcome, exitFile,
                 stored, history>>

(* The flush every flush_every samples; its failure is ignored.            *)
FlushDueWithCheckpoint == sinceFlush = 0 /\ sinceCkpt = 0
FlushDue == sinceFlush = 0

Flush ==
  /\ pc = "flush"
  /\ pc' = "checkpoint"
  /\ \/ FlushDue /\ buffered' = 0 /\ UNCHANGED trouble
     \/ FlushDue /\ trouble' = trouble \union {"stream"}
        /\ UNCHANGED buffered
     \/ ~FlushDue /\ UNCHANGED <<buffered, trouble>>
  /\ UNCHANGED <<running, hasCgroup, hasExitFile, counters, outcome, exitFile,
                 summaryFile, unsaved, jobEnd, noticed, lateTicks, recent>>

(* Publish the summary as it is now, or fail and leave the old one.        *)
Publish(kind, status) ==
  /\ summaryFile' = [kind |-> kind, exit |-> status]
  /\ unsaved' = 0

PublishFails(which) ==
  /\ trouble' = trouble \union {which}
  /\ UNCHANGED <<summaryFile, unsaved>>

(* write_checkpoint_summary every summary_every samples.                   *)
CheckpointDueWithFlush == SummaryEvery > 0 /\ sinceCkpt = 0 /\ sinceFlush = 0
CheckpointDue == SummaryEvery > 0 /\ sinceCkpt = 0

CheckpointStatusRead == ReadExitStatus
CheckpointStatus == exit

Checkpoint ==
  /\ pc = "checkpoint"
  /\ pc' = "loop"
  /\ \/ CheckpointDue /\ ~written /\ Publish("partial", CheckpointStatus)
        /\ UNCHANGED trouble
     \/ CheckpointDue /\ ~written /\ PublishFails("checkpoint")
     \/ (~CheckpointDue \/ written) /\ UNCHANGED <<summaryFile, unsaved, trouble>>
  /\ UNCHANGED <<running, hasCgroup, hasExitFile, counters, outcome, exitFile,
                 buffered, jobEnd, noticed, lateTicks, recent>>

(* emit_job_end and the flush after it.  The status is taken into the      *)
(* summary even when the line cannot be written.                           *)
EmitJobEnd ==
  /\ pc = "end"
  /\ exit' = ReadExitStatus
  /\ \/ jobEnd' = ReadExitStatus /\ buffered' = 0 /\ UNCHANGED trouble
     \/ trouble' = trouble \union {"stream"} /\ UNCHANGED <<jobEnd, buffered>>
  /\ pc' = "final"
  /\ UNCHANGED <<running, hasCgroup, hasExitFile, counters, written, exitFile,
                 summaryFile, unsaved, noticed, lateTicks, recent>>

(* write_final_summary: the status is read again only if nobody has read   *)
(* it yet; summary_written is set only after the file is in place.         *)
StatusReadAgain == ReadExitStatus
StatusForFinal == IF exit = "unset" THEN ReadExitStatus ELSE exit

WriteFinalSummaryMarkedFirst(which) ==
  /\ exit' = StatusForFinal /\ written' = TRUE
  /\ \/ Publish("final", StatusForFinal) /\ UNCHANGED trouble
     \/ PublishFails(which)

WriteFinalSummary(which) ==
  /\ exit' = StatusForFinal
  /\ \/ Publish("final", StatusForFinal) /\ written' = TRUE
        /\ UNCHANGED trouble
     \/ PublishFails(which) /\ UNCHANGED written

FinalSummary ==
  /\ pc = "final"
  /\ WriteFinalSummary("final")
  /\ pc' = "drop"
  /\ UNCHANGED <<running, hasCgroup, hasExitFile, counters, exitFile, buffered,
                 jobEnd, noticed, lateTicks, recent>>

(* Drop: the last-resort summary, then the buffer's own drop.              *)
Drop ==
  /\ pc = "drop"
  /\ IF written THEN UNCHANGED <<outcome, summaryFile, unsaved, trouble>>
     ELSE WriteFinalSummary("drop")
  /\ buffered' \in {0, buffered}
  /\ pc' = "returned"
  /\ UNCHANGED <<running, hasCgroup, hasExitFile, counters, exitFile, jobEnd,
                 noticed, lateTicks, recent>>

(* The handler thread: the first signal clears the flag, the second ends   *)
(* the process where it stands, without unwinding.                         *)
Signal ==
  /\ Alive /\ running
  /\ running' = FALSE
  /\ UNCHANGED <<pc, hasCgroup, hasExitFile, counters, outcome, exitFile,
                 stored, history>>

SecondSignal ==
  /\ Alive /\ ~running
  /\ pc' = "forced"
  /\ UNCHANGED <<running, hasCgroup, hasExitFile, counters, outcome, exitFile,
                 stored, history>>

Kill ==
  /\ Alive
  /\ pc' = "killed"
  /\ UNCHANGED <<running, hasCgroup, hasExitFile, counters, outcome, exitFile,
                 stored, history>>

(* The job script's `echo "$status" > file` creates the file and then      *)
(* writes it; the file is removed when the script has merged.              *)
ScriptCreatesFile ==
  /\ exitFile = "absent" /\ hasExitFile
  /\ exitFile' = "empty"
  /\ lateTicks' = 0
  /\ UNCHANGED <<process, counters, outcome, stored, noticed, recent, trouble>>

ScriptWritesFile ==
  /\ exitFile = "empty"
  /\ exitFile' \in Codes
  /\ UNCHANGED <<process, counters, outcome, stored, history>>

ScriptRemovesFile ==
  /\ exitFile \in Codes
  /\ exitFile' = "absent"
  /\ UNCHANGED <<process, counters, outcome, stored, history>>

MainThread ==
  \/ Start \/ StartFails \/ LoopHead \/ LoopEnds
  \/ StubTick \/ SampleWritten \/ WriteFails \/ WriteGivesUp \/ SampleFails
  \/ Panic \/ Flush \/ Checkpoint \/ EmitJobEnd \/ FinalSummary \/ Drop

Environment ==
  \/ Signal \/ SecondSignal \/ Kill
  \/ ScriptCreatesFile \/ ScriptWritesFile \/ ScriptRemovesFile

Ended == ~Alive /\ UNCHANGED vars

Next == MainThread \/ Environment \/ Ended

(* The kernel schedules the main thread, and every step of it returns.     *)
Fairness == WF_vars(MainThread)

Spec == Init /\ [][Next]_vars
FairSpec == Spec /\ Fairness
-----------------------------------------------------------------------------
Statuses == Codes \union {"unset", "unknown"}
Outcomes == {"ok", "lost", "error"}

ProcessOK ==
  /\ pc \in Steps \union Endings
  /\ running \in BOOLEAN /\ hasCgroup \in BOOLEAN /\ hasExitFile \in BOOLEAN
  /\ exit \in Statuses /\ written \in BOOLEAN

CountersOK ==
  /\ ticks \in 0..(FlushEvery - 1)
  /\ sinceFlush \in 0..(FlushEvery - 1)
  /\ sinceCkpt \in Nat /\ (SummaryEvery > 0 => sinceCkpt < SummaryEvery)
  /\ errs \in 0..MaxErrors /\ werrs \in 0..MaxErrors

FilesOK ==
  /\ exitFile \in Codes \union {"absent", "empty"}
  /\ summaryFile \in [kind : {"none", "partial", "final"}, exit : Statuses]
  /\ unsaved \in 0..Cap /\ buffered \in 0..Cap
  /\ jobEnd \in Statuses \union {"none"}

HistoryOK ==
  /\ noticed \in BOOLEAN /\ lateTicks \in 0..Cap
  /\ recent \in Seq(Outcomes) /\ Len(recent) <= MaxErrors
  /\ trouble \subseteq {"stream", "checkpoint", "final", "drop"}

(* The type invariant; the counters of run stay below their limits.        *)
TypeOK == ProcessOK /\ CountersOK /\ FilesOK /\ HistoryOK

(* write_checkpoint_summary: "A checkpoint bounds that loss to one         *)
(* interval instead of the entire job": wherever the process is killed,    *)
(* the summary on disk lacks at most one period of samples.                *)
CheckpointBoundsLoss ==
  (hasCgroup /\ SummaryEvery > 0 /\ trouble \cap {"checkpoint", "final"} = {})
    => unsaved <= SummaryEvery

(* MAX_FLUSH_LAG: the stream on disk is at most one flush period behind    *)
(* the samples, at every instant and so in every crash.                    *)
FlushBoundsLag == (hasCgroup /\ "stream" \notin trouble) => buffered <= FlushEvery

(* The look at the exit-status file is throttled but not lost: fewer than  *)
(* flush_every ticks begin while the file is there.                        *)
NoticesFileInTime == lateTicks < FlushEvery

(* The job_end line and the final summary record one outcome, although the *)
(* file may appear, change or go between the two writes.                   *)
JobEndAgrees ==
  (jobEnd # "none" /\ summaryFile.kind = "final") => summaryFile.exit = jobEnd

(* A logger nobody told to stop ends its loop only after MaxErrors ticks   *)
(* in a row failed, or after MaxErrors lines with no good one among them.  *)
GivesUpOnlyOnARun ==
  (pc = "end" /\ running /\ ~noticed) =>
     /\ Len(recent) = MaxErrors
     /\ \A i \in 1..MaxErrors : recent[i] # "ok"
     /\ \/ recent[MaxErrors] = "lost"
        \/ \A i \in 1..MaxErrors : recent[i] = "error"

(* A process that ended by returning, panics and failed writes included,   *)
(* has left a final summary of every sample, unless Drop's write failed.   *)
ReturnLeavesFinal ==
  (pc = "returned" /\ "drop" \notin trouble) =>
     summaryFile.kind = "final" /\ unsaved = 0

(* The first signal lets the tick that runs come to its end and no other   *)
(* begin: from then on each step of the main thread is nearer to the last, *)
(* and nothing but the end of the process comes between them.              *)
StepsLeft ==
  [s \in Steps \union Endings |->
     CASE s = "new" -> 8 [] s = "tick" -> 7 [] s = "flush" -> 6
       [] s = "checkpoint" -> 5 [] s = "loop" -> 4 [] s = "end" -> 3
       [] s = "final" -> 2 [] s = "drop" -> 1 [] OTHER -> 0]
ObeysSignal ==
  [][~running => /\ ~running'
                 /\ MainThread => StepsLeft[pc'] < StepsLeft[pc]
                 /\ pc' = pc \/ StepsLeft[pc'] < StepsLeft[pc]]_vars

(* After the first signal the logger stops, whatever the filesystem does.  *)
SignalStops == ~running ~> ~Alive

(* Once the file is there, even empty, the logger stops or the file goes.  *)
FileStops == (exitFile # "absent") ~> (~Alive \/ exitFile = "absent")

(* What a region may take a logger for, and its readers rely on.           *)
Life ==
  CASE pc = "new" -> "launched"
    [] pc \in {"loop", "tick", "flush", "checkpoint"} -> "up"
    [] pc \in {"end", "final", "drop"} -> "ending"
    [] OTHER -> "gone"
Contract ==
  INSTANCE LoggerContract WITH
    life <- Life, found <- IF Alive THEN exit ELSE "unset", file <- summaryFile,
    record <- IF hasExitFile THEN exitFile ELSE "absent"
KeepsContract == Contract!Spec
=============================================================================
