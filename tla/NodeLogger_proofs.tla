-------------------------- MODULE NodeLogger_proofs --------------------------
(***************************************************************************)
(* For any periods, any error limit and any exit codes: the logger's state *)
(* is well typed, its stream and its summary agree, a checkpoint and a     *)
(* flush bound what a SIGKILL can lose, the exit-status file is seen in    *)
(* time, nothing but a run of failures ends the loop untold, a process     *)
(* that returns leaves its final summary, and the process keeps the        *)
(* contract that the readers of its summary rely on.                       *)
(***************************************************************************)
EXTENDS NodeLogger, TLAPS

USE FlushAssumption, SummaryAssumption, ErrorsAssumption, CapAssumption

(* Counting modulo a period: the remainder is reset at the period.         *)
LEMMA NextRemainder ==
  ASSUME NEW P \in Nat \ {0}, NEW n \in 0..(P - 1)
  PROVE  (n + 1) % P = IF n + 1 = P THEN 0 ELSE n + 1
<1>1. CASE n + 1 = P
  <2>1. P % P = 0
    BY SMTT(30)
  <2>2. QED
    BY <1>1, <2>1
<1>2. CASE n + 1 < P
  BY <1>2, SMTT(30)
<1>3. QED
  BY <1>1, <1>2
-----------------------------------------------------------------------------
(* The main thread before it has looked for an outcome, and while it is in *)
(* the loop.                                                               *)
Early == {"new", "loop", "tick", "flush", "checkpoint", "end", "unstarted"}
Looping == {"new", "loop", "tick", "flush", "checkpoint"}

(* Below the error limits there is a tick to come.                         *)
Limits == pc \in Looping => errs < MaxErrors /\ werrs < MaxErrors

(* The outcome is taken once, after the loop; a final summary has it, is   *)
(* known to be written, and is the last thing but Drop.                    *)
Outcome ==
  /\ pc \in Early => exit = "unset" /\ ~written /\ jobEnd = "none"
  /\ pc = "final" => ~written /\ exit # "unset"
  /\ jobEnd # "none" => jobEnd # "unset" /\ exit = jobEnd
  /\ summaryFile.kind = "final" =>
       /\ pc \notin Early /\ pc # "final"
       /\ pc = "drop" => written
       /\ summaryFile.exit = exit

(* Until its checkpoint a period of samples is missing at most; otherwise  *)
(* those since the last checkpoint.                                        *)
Loss ==
  (hasCgroup /\ SummaryEvery > 0 /\ trouble \cap {"checkpoint", "final"} = {})
    => IF pc \in {"flush", "checkpoint"} /\ sinceCkpt = 0
         THEN unsaved <= SummaryEvery
         ELSE unsaved <= SummaryEvery /\ (pc \in Looping => unsaved <= sinceCkpt)

Inductive == TypeOK /\ Limits /\ Outcome /\ Loss

USE DEF Early, Looping, Steps, Endings, Statuses, Outcomes

LEMMA InitHolds == Init => Inductive
<1> SUFFICES ASSUME Init
             PROVE  Inductive
  OBVIOUS
<1>1. ProcessOK
  BY DEF Init, ProcessOK
<1>2. CountersOK
  BY DEF Init, CountersOK
<1>3. FilesOK
  BY DEF Init, FilesOK
<1>4. HistoryOK
  <2>1. recent \in Seq(Outcomes) /\ Len(recent) = 0
    BY DEF Init
  <2>2. noticed \in BOOLEAN
    BY DEF Init
  <2>3. lateTicks \in 0..Cap
    BY DEF Init
  <2>4. trouble \subseteq {"stream", "checkpoint", "final", "drop"}
    BY DEF Init
  <2>5. QED
    BY <2>1, <2>2, <2>3, <2>4 DEF HistoryOK
<1>5. Limits /\ Outcome /\ Loss
  BY DEF Init, Limits, Outcome, Loss
<1>6. QED
  BY <1>1, <1>2, <1>3, <1>4, <1>5 DEF Inductive, TypeOK

(* Appending to the record of the last MaxErrors outcomes.                 *)
LEMMA RememberKeeps ==
  ASSUME HistoryOK, NEW o \in Outcomes, Remember(o)
  PROVE  recent' \in Seq(Outcomes) /\ Len(recent') <= MaxErrors
<1> USE DEF HistoryOK
<1>1. CASE Len(recent) < MaxErrors
  BY <1>1 DEF Remember
<1>2. CASE Len(recent) = MaxErrors
  <2>1. recent # <<>>
    BY <1>2
  <2>2. /\ Tail(recent) \in Seq(Outcomes)
        /\ Len(Tail(recent)) = Len(recent) - 1
    BY <2>1
  <2>3. QED
    BY <1>2, <2>2 DEF Remember
<1>3. QED
  BY <1>1, <1>2

(* The steps that are all control: they move the main thread, end the      *)
(* process, clear the flag or change the job script's file.                *)
USE DEF process, counters, outcome, stored, history

LEMMA ControlKeeps ==
  ASSUME Inductive,
         \/ Start \/ StartFails \/ LoopEnds \/ Panic
         \/ Signal \/ SecondSignal \/ Kill
         \/ ScriptCreatesFile \/ ScriptWritesFile \/ ScriptRemovesFile
  PROVE  Inductive'
<1> USE DEF Inductive, TypeOK, ProcessOK, CountersOK, FilesOK, HistoryOK,
            Limits, Outcome, Loss
<1>1. CASE Start
  BY <1>1 DEF Start
<1>2. CASE StartFails
  BY <1>2 DEF StartFails
<1>3. CASE LoopEnds
  BY <1>3 DEF LoopEnds
<1>4. CASE Panic
  BY <1>4 DEF Panic
<1>5. CASE Signal
  <2>1. ProcessOK'
    BY <1>5 DEF Signal
  <2>2. (CountersOK /\ FilesOK /\ HistoryOK)'
    BY <1>5 DEF Signal
  <2>3. (Limits /\ Outcome /\ Loss)'
    BY <1>5 DEF Signal
  <2>4. QED
    BY <2>1, <2>2, <2>3
<1>6. CASE SecondSignal
  BY <1>6 DEF SecondSignal
<1>7. CASE Kill
  BY <1>7 DEF Kill
<1>8. CASE ScriptCreatesFile
  BY <1>8 DEF ScriptCreatesFile
<1>9. CASE ScriptWritesFile
  BY <1>9 DEF ScriptWritesFile
<1>10. CASE ScriptRemovesFile
  BY <1>10 DEF ScriptRemovesFile
<1>11. QED
  BY <1>1, <1>2, <1>3, <1>4, <1>5, <1>6, <1>7, <1>8, <1>9, <1>10

(* The head of the loop.                                                   *)
LEMMA LoopHeadKeeps ==
  ASSUME Inductive, LoopHead PROVE Inductive'
<1> USE DEF Inductive, TypeOK
<1>1. ProcessOK'
  BY DEF ProcessOK, LoopHead, CountTick, LookDue, Noticed, StillRunning,
     Capped
<1>2. CountersOK'
  BY DEF CountersOK, LoopHead, CountTick, LookDue, Noticed, StillRunning,
     Capped
<1>3. FilesOK'
  BY DEF ProcessOK, FilesOK, LoopHead, CountTick, LookDue, Noticed,
     StillRunning, Capped
<1>4. HistoryOK'
  BY DEF HistoryOK, LoopHead, CountTick, LookDue, Noticed, StillRunning,
     Capped
<1>5. Limits'
  BY DEF CountersOK, Limits, LoopHead, CountTick, LookDue, Noticed,
     StillRunning, Capped
<1>6. Outcome'
  BY DEF FilesOK, Outcome, LoopHead, CountTick, LookDue, Noticed,
     StillRunning, Capped
<1>7. Loss'
  BY DEF CountersOK, FilesOK, Loss, LoopHead, CountTick, LookDue, Noticed,
     StillRunning, Capped
<1>8. QED
  BY <1>1, <1>2, <1>3, <1>4, <1>5, <1>6, <1>7

(* A tick with nothing to measure.                                         *)
LEMMA StubTickKeeps ==
  ASSUME Inductive, StubTick PROVE Inductive'
<1> USE DEF Inductive, TypeOK
<1>1. ProcessOK'
  BY DEF ProcessOK, StubTick, Capped
<1>2. CountersOK'
  BY NextRemainder DEF CountersOK, StubTick, Capped
<1>3. FilesOK'
  BY DEF ProcessOK, FilesOK, StubTick, Capped
<1>4. HistoryOK'
  BY DEF HistoryOK, StubTick, Capped
<1>5. Limits'
  BY DEF CountersOK, Limits, StubTick, Capped
<1>6. Outcome'
  BY DEF FilesOK, Outcome, StubTick, Capped
<1>7. Loss'
  BY DEF CountersOK, FilesOK, Loss, StubTick, Capped
<1>8. QED
  BY <1>1, <1>2, <1>3, <1>4, <1>5, <1>6, <1>7

(* A sample counted, with its line.                                        *)
LEMMA SampleWrittenKeeps ==
  ASSUME Inductive, SampleWritten PROVE Inductive'
<1> USE DEF Inductive, TypeOK
<1>1. ProcessOK'
  BY DEF ProcessOK, SampleWritten, SamplingRecovered, WritingRecovered,
     CountSample, Capped
<1>2. CountersOK'
  BY NextRemainder DEF CountersOK, SampleWritten, SamplingRecovered,
     WritingRecovered, CountSample, Capped
<1>3. FilesOK'
  BY DEF ProcessOK, FilesOK, SampleWritten, SamplingRecovered,
     WritingRecovered, CountSample, Capped
<1>4. HistoryOK'
  <2>1. recent' \in Seq(Outcomes) /\ Len(recent') <= MaxErrors
    BY RememberKeeps DEF SampleWritten
  <2>2. QED
    BY <2>1 DEF HistoryOK, SampleWritten, SamplingRecovered, WritingRecovered,
       CountSample, Capped
<1>5. Limits'
  BY DEF CountersOK, Limits, SampleWritten, SamplingRecovered,
     WritingRecovered, CountSample, Capped
<1>6. Outcome'
  BY DEF FilesOK, Outcome, SampleWritten, SamplingRecovered, WritingRecovered,
     CountSample, Capped
<1>7. Loss'
  BY NextRemainder DEF CountersOK, FilesOK, Loss, SampleWritten,
     SamplingRecovered, WritingRecovered, CountSample, Capped
<1>8. QED
  BY <1>1, <1>2, <1>3, <1>4, <1>5, <1>6, <1>7

(* A sample counted without its line.                                      *)
LEMMA WriteFailsKeeps ==
  ASSUME Inductive, WriteFails PROVE Inductive'
<1> USE DEF Inductive, TypeOK
<1>1. ProcessOK'
  BY DEF ProcessOK, WriteFails, SamplingRecovered, CountSample, Capped
<1>2. CountersOK'
  BY NextRemainder DEF CountersOK, WriteFails, SamplingRecovered, CountSample,
     Capped
<1>3. FilesOK'
  BY DEF ProcessOK, FilesOK, WriteFails, SamplingRecovered, CountSample,
     Capped
<1>4. HistoryOK'
  <2>1. recent' \in Seq(Outcomes) /\ Len(recent') <= MaxErrors
    BY RememberKeeps DEF WriteFails
  <2>2. QED
    BY <2>1 DEF HistoryOK, WriteFails, SamplingRecovered, CountSample, Capped
<1>5. Limits'
  BY DEF CountersOK, Limits, WriteFails, SamplingRecovered, CountSample,
     Capped
<1>6. Outcome'
  BY DEF FilesOK, Outcome, WriteFails, SamplingRecovered, CountSample, Capped
<1>7. Loss'
  BY NextRemainder DEF CountersOK, FilesOK, Loss, WriteFails,
     SamplingRecovered, CountSample, Capped
<1>8. QED
  BY <1>1, <1>2, <1>3, <1>4, <1>5, <1>6, <1>7

(* The last lost line.                                                     *)
LEMMA WriteGivesUpKeeps ==
  ASSUME Inductive, WriteGivesUp PROVE Inductive'
<1> USE DEF Inductive, TypeOK
<1>1. ProcessOK'
  BY DEF ProcessOK, WriteGivesUp, SamplingRecovered
<1>2. CountersOK'
  BY DEF CountersOK, Limits, WriteGivesUp, SamplingRecovered
<1>3. FilesOK'
  BY DEF ProcessOK, FilesOK, WriteGivesUp, SamplingRecovered
<1>4. HistoryOK'
  <2>1. recent' \in Seq(Outcomes) /\ Len(recent') <= MaxErrors
    BY RememberKeeps DEF WriteGivesUp
  <2>2. QED
    BY <2>1 DEF HistoryOK, WriteGivesUp, SamplingRecovered
<1>5. Limits'
  BY DEF CountersOK, Limits, WriteGivesUp, SamplingRecovered
<1>6. Outcome'
  BY DEF FilesOK, Outcome, WriteGivesUp, SamplingRecovered
<1>7. Loss'
  BY DEF CountersOK, FilesOK, Loss, WriteGivesUp, SamplingRecovered
<1>8. QED
  BY <1>1, <1>2, <1>3, <1>4, <1>5, <1>6, <1>7

(* A sample that failed.                                                   *)
LEMMA SampleFailsKeeps ==
  ASSUME Inductive, SampleFails PROVE Inductive'
<1> USE DEF Inductive, TypeOK
<1>1. ProcessOK'
  BY DEF ProcessOK, SampleFails
<1>2. CountersOK'
  BY DEF CountersOK, Limits, SampleFails
<1>3. FilesOK'
  BY DEF ProcessOK, FilesOK, SampleFails
<1>4. HistoryOK'
  <2>1. recent' \in Seq(Outcomes) /\ Len(recent') <= MaxErrors
    BY RememberKeeps DEF SampleFails
  <2>2. QED
    BY <2>1 DEF HistoryOK, SampleFails
<1>5. Limits'
  BY DEF CountersOK, Limits, SampleFails
<1>6. Outcome'
  BY DEF FilesOK, Outcome, SampleFails
<1>7. Loss'
  BY DEF CountersOK, FilesOK, Loss, SampleFails
<1>8. QED
  BY <1>1, <1>2, <1>3, <1>4, <1>5, <1>6, <1>7

(* The flush.                                                              *)
LEMMA FlushKeeps ==
  ASSUME Inductive, Flush PROVE Inductive'
<1> USE DEF Inductive, TypeOK
<1>1. ProcessOK'
  BY DEF ProcessOK, Flush, FlushDue
<1>2. CountersOK'
  BY DEF CountersOK, Flush, FlushDue
<1>3. FilesOK'
  BY DEF ProcessOK, FilesOK, Flush, FlushDue
<1>4. HistoryOK'
  BY DEF HistoryOK, Flush, FlushDue
<1>5. Limits'
  BY DEF CountersOK, Limits, Flush, FlushDue
<1>6. Outcome'
  BY DEF FilesOK, Outcome, Flush, FlushDue
<1>7. Loss'
  BY DEF CountersOK, FilesOK, Loss, Flush, FlushDue
<1>8. QED
  BY <1>1, <1>2, <1>3, <1>4, <1>5, <1>6, <1>7

(* The checkpoint: published, failed or not due.                           *)
LEMMA CheckpointKeeps ==
  ASSUME Inductive, Checkpoint PROVE Inductive'
<1> USE DEF Inductive, TypeOK
<1>1. ProcessOK'
  BY DEF ProcessOK, Checkpoint, CheckpointDue, CheckpointStatus, Publish,
     PublishFails
<1>2. CountersOK'
  BY DEF CountersOK, Checkpoint, CheckpointDue, CheckpointStatus, Publish,
     PublishFails
<1>3. FilesOK'
  BY DEF ProcessOK, FilesOK, Checkpoint, CheckpointDue, CheckpointStatus,
     Publish, PublishFails
<1>4. HistoryOK'
  BY DEF HistoryOK, Checkpoint, CheckpointDue, CheckpointStatus, Publish,
     PublishFails
<1>5. Limits'
  BY DEF CountersOK, Limits, Checkpoint, CheckpointDue, CheckpointStatus,
     Publish, PublishFails
<1>6. Outcome'
  BY DEF FilesOK, Outcome, Checkpoint, CheckpointDue, CheckpointStatus,
     Publish, PublishFails
<1>7. Loss'
  <2>1. CASE unsaved' = 0
    BY <2>1 DEF CountersOK, Loss, Checkpoint
  <2>2. CASE "checkpoint" \in trouble'
    BY <2>2 DEF Loss
  <2>3. CASE (~CheckpointDue \/ written) /\ UNCHANGED <<unsaved, trouble>>
    <3>1. ~written /\ pc' = "loop" /\ UNCHANGED <<hasCgroup, sinceCkpt>>
      BY DEF Checkpoint, Outcome
    <3>2. SummaryEvery > 0 => sinceCkpt # 0
      BY <2>3, <3>1 DEF CheckpointDue
    <3>3. QED
      BY <2>3, <3>1, <3>2 DEF Loss, Checkpoint
  <2>4. QED
    BY <2>1, <2>2, <2>3 DEF Checkpoint, Publish, PublishFails
<1>8. QED
  BY <1>1, <1>2, <1>3, <1>4, <1>5, <1>6, <1>7

(* The outcome is taken.                                                   *)
LEMMA EmitJobEndKeeps ==
  ASSUME Inductive, EmitJobEnd PROVE Inductive'
<1> USE DEF Inductive, TypeOK
<1>1. ProcessOK'
  BY DEF ProcessOK, EmitJobEnd, ReadExitStatus
<1>2. CountersOK'
  BY DEF CountersOK, EmitJobEnd, ReadExitStatus
<1>3. FilesOK'
  BY DEF ProcessOK, FilesOK, EmitJobEnd, ReadExitStatus
<1>4. HistoryOK'
  BY DEF HistoryOK, EmitJobEnd, ReadExitStatus
<1>5. Limits'
  BY DEF CountersOK, Limits, EmitJobEnd, ReadExitStatus
<1>6. Outcome'
  BY CodesAssumption DEF FilesOK, Outcome, EmitJobEnd, ReadExitStatus
<1>7. Loss'
  BY DEF CountersOK, FilesOK, Loss, EmitJobEnd, ReadExitStatus
<1>8. QED
  BY <1>1, <1>2, <1>3, <1>4, <1>5, <1>6, <1>7

(* The final summary.                                                      *)
LEMMA FinalSummaryKeeps ==
  ASSUME Inductive, FinalSummary PROVE Inductive'
<1> USE DEF Inductive, TypeOK
<1>1. ProcessOK'
  BY DEF ProcessOK, FinalSummary, WriteFinalSummary, StatusForFinal,
     ReadExitStatus, Publish, PublishFails
<1>2. CountersOK'
  BY DEF CountersOK, FinalSummary, WriteFinalSummary, StatusForFinal,
     ReadExitStatus, Publish, PublishFails
<1>3. FilesOK'
  BY DEF ProcessOK, FilesOK, FinalSummary, WriteFinalSummary, StatusForFinal,
     ReadExitStatus, Publish, PublishFails
<1>4. HistoryOK'
  BY DEF HistoryOK, FinalSummary, WriteFinalSummary, StatusForFinal,
     ReadExitStatus, Publish, PublishFails
<1>5. Limits'
  BY DEF CountersOK, Limits, FinalSummary, WriteFinalSummary, StatusForFinal,
     ReadExitStatus, Publish, PublishFails
<1>6. Outcome'
  BY DEF FilesOK, Outcome, FinalSummary, WriteFinalSummary, StatusForFinal,
     ReadExitStatus, Publish, PublishFails
<1>7. Loss'
  BY DEF CountersOK, FilesOK, Loss, FinalSummary, WriteFinalSummary,
     StatusForFinal, ReadExitStatus, Publish, PublishFails
<1>8. QED
  BY <1>1, <1>2, <1>3, <1>4, <1>5, <1>6, <1>7

(* The last-resort summary.                                                *)
LEMMA DropKeeps ==
  ASSUME Inductive, Drop PROVE Inductive'
<1> USE DEF Inductive, TypeOK
<1>1. ProcessOK'
  BY DEF ProcessOK, Drop, WriteFinalSummary, StatusForFinal, ReadExitStatus,
     Publish, PublishFails
<1>2. CountersOK'
  BY DEF CountersOK, Drop, WriteFinalSummary, StatusForFinal, ReadExitStatus,
     Publish, PublishFails
<1>3. FilesOK'
  BY DEF ProcessOK, FilesOK, Drop, WriteFinalSummary, StatusForFinal,
     ReadExitStatus, Publish, PublishFails
<1>4. HistoryOK'
  BY DEF HistoryOK, Drop, WriteFinalSummary, StatusForFinal, ReadExitStatus,
     Publish, PublishFails
<1>5. Limits'
  BY DEF CountersOK, Limits, Drop, WriteFinalSummary, StatusForFinal,
     ReadExitStatus, Publish, PublishFails
<1>6. Outcome'
  BY DEF FilesOK, Outcome, Drop, WriteFinalSummary, StatusForFinal,
     ReadExitStatus, Publish, PublishFails
<1>7. Loss'
  BY DEF CountersOK, FilesOK, Loss, Drop, WriteFinalSummary, StatusForFinal,
     ReadExitStatus, Publish, PublishFails
<1>8. QED
  BY <1>1, <1>2, <1>3, <1>4, <1>5, <1>6, <1>7
-----------------------------------------------------------------------------
(* Every step of the main thread, of the signal handler, of the kernel and *)
(* of the job script preserves the inductive invariant.                    *)
LEMMA StepKeeps == Inductive /\ [Next]_vars => Inductive'
<1> SUFFICES ASSUME Inductive, [Next]_vars PROVE Inductive'
  OBVIOUS
<1>1. CASE UNCHANGED vars
  <2>1. (ProcessOK /\ CountersOK /\ FilesOK /\ HistoryOK)'
    BY <1>1 DEF vars, Inductive, TypeOK, ProcessOK, CountersOK, FilesOK,
                HistoryOK
  <2>2. (Limits /\ Outcome /\ Loss)'
    BY <1>1 DEF vars, Inductive, Limits, Outcome, Loss
  <2>3. QED
    BY <2>1, <2>2 DEF Inductive, TypeOK
<1>2. CASE Ended
  BY <1>1, <1>2 DEF Ended
<1>3. CASE MainThread
  BY <1>3, ControlKeeps, LoopHeadKeeps, StubTickKeeps, SampleWrittenKeeps,
     WriteFailsKeeps, WriteGivesUpKeeps, SampleFailsKeeps, FlushKeeps,
     CheckpointKeeps, EmitJobEndKeeps, FinalSummaryKeeps, DropKeeps
     DEF MainThread
<1>4. CASE Environment
  BY <1>4, ControlKeeps DEF Environment
<1>5. QED
  BY <1>1, <1>2, <1>3, <1>4 DEF Next

(* The inductive invariant holds throughout.                               *)
THEOREM AlwaysInductive == Spec => []Inductive
<1>1. QED
  BY InitHolds, StepKeeps, PTL DEF Spec

(* Every counter of run stays below its limit, and every file holds what   *)
(* the code can have put there.                                            *)
THEOREM TypeCorrect == Spec => []TypeOK
<1>1. Inductive => TypeOK
  BY DEF Inductive
<1>2. QED
  BY <1>1, AlwaysInductive, PTL

(* emit_job_end and write_final_summary, or Drop in its place, record one  *)
(* outcome, whatever the job script does to its file between them.         *)
THEOREM OneOutcome == Spec => []JobEndAgrees
<1>1. Inductive => JobEndAgrees
  BY DEF Inductive, Outcome, JobEndAgrees
<1>2. QED
  BY <1>1, AlwaysInductive, PTL

(* Wherever SIGKILL falls, the summary on disk lacks at most one period of *)
(* samples.                                                                *)
THEOREM LossIsBounded == Spec => []CheckpointBoundsLoss
<1>1. Inductive => CheckpointBoundsLoss
  BY DEF Inductive, Loss, CheckpointBoundsLoss
<1>2. QED
  BY <1>1, AlwaysInductive, PTL
-----------------------------------------------------------------------------
(* What the remaining invariants need, each next to the proof that every   *)
(* step keeps it.  Lines are only in the buffer since the last flush; at a *)
(* flush that is due the buffer holds a whole period.                      *)
Lag ==
  (hasCgroup /\ "stream" \notin trouble) =>
    /\ buffered <= FlushEvery
    /\ (pc \in Looping /\ ~(pc = "flush" /\ sinceFlush = 0))
         => buffered <= sinceFlush

(* The ticks begun since the file appeared are among those counted since   *)
(* the last look.                                                          *)
Late ==
  /\ lateTicks < FlushEvery
  /\ exitFile # "absent" =>
       hasExitFile /\ (pc \in Looping => lateTicks <= ticks)

(* The error counters are the lengths of runs that end the record; a loop  *)
(* that ended by itself ended at a full counter.                           *)
Runs ==
  /\ errs <= Len(recent) /\ werrs <= Len(recent)
  /\ \A i \in 1..Len(recent) :
       /\ i > Len(recent) - errs => recent[i] = "error"
       /\ i > Len(recent) - werrs => recent[i] # "ok"
  /\ pc \in Looping => ~noticed
  /\ (pc = "end" /\ running /\ ~noticed) =>
       \/ errs = MaxErrors
       \/ werrs = MaxErrors /\ recent[Len(recent)] = "lost"

(* summary_written says that the final summary is there with every sample; *)
(* nothing is sampled or published after it.                               *)
LastWord ==
  /\ written =>
       /\ pc \notin Looping \union {"end", "final"}
       /\ summaryFile.kind = "final" /\ unsaved = 0
  /\ pc = "returned" => written \/ "drop" \in trouble

LEMMA LagKept == Inductive /\ Lag /\ [Next]_vars => Lag'
<1> SUFFICES ASSUME Inductive, Lag, [Next]_vars PROVE Lag'
  OBVIOUS
<1> USE DEF Lag
<1>1. /\ sinceFlush \in 0..(FlushEvery - 1)
      /\ buffered \in 0..Cap
  BY DEF Inductive, TypeOK, CountersOK, FilesOK
<1>2. CASE UNCHANGED vars \/ Ended
  BY <1>2 DEF vars, Ended
<1>3. CASE \/ Start \/ StartFails \/ LoopHead \/ LoopEnds \/ Panic
           \/ WriteGivesUp \/ SampleFails \/ FinalSummary
  BY <1>3 DEF Start, StartFails, LoopHead, LoopEnds, Panic, WriteGivesUp,
     SampleFails, FinalSummary, WriteFinalSummary, Publish, PublishFails
<1>4. CASE Environment
  BY <1>4 DEF Environment, Signal, SecondSignal, Kill, ScriptCreatesFile,
     ScriptWritesFile, ScriptRemovesFile
<1>5. CASE StubTick
  BY <1>5 DEF StubTick
<1>6. CASE SampleWritten
  <2>1. sinceFlush' = IF sinceFlush + 1 = FlushEvery THEN 0 ELSE sinceFlush + 1
    BY <1>1, <1>6, NextRemainder DEF SampleWritten, CountSample
  <2>2. CASE "stream" \notin trouble /\ hasCgroup
    <3>1. buffered <= sinceFlush
      BY <1>6, <2>2 DEF SampleWritten
    <3>2. buffered' \in Nat /\ buffered' <= sinceFlush + 1
      BY <1>1, <1>6, <3>1 DEF SampleWritten, Capped
    <3>3. pc' = "flush"
      BY <1>6 DEF SampleWritten
    <3>4. QED
      BY <1>1, <2>1, <3>2, <3>3
  <2>3. QED
    BY <1>6, <2>2 DEF SampleWritten
<1>7. CASE WriteFails
  BY <1>7 DEF WriteFails
<1>8. CASE Flush
  BY <1>1, <1>8 DEF Flush, FlushDue
<1>9. CASE Checkpoint
  BY <1>1, <1>9 DEF Checkpoint, Publish, PublishFails
<1>10. CASE EmitJobEnd
  BY <1>1, <1>10 DEF EmitJobEnd
<1>11. CASE Drop
  BY <1>1, <1>11 DEF Drop, WriteFinalSummary, Publish, PublishFails
<1>12. QED
  BY <1>2, <1>3, <1>4, <1>5, <1>6, <1>7, <1>8, <1>9, <1>10, <1>11
     DEF Next, MainThread

LEMMA LateKept == Inductive /\ Late /\ [Next]_vars => Late'
<1> SUFFICES ASSUME Inductive, Late, [Next]_vars PROVE Late'
  OBVIOUS
<1> USE DEF Late
<1>1. ticks \in 0..(FlushEvery - 1) /\ lateTicks \in 0..Cap
  BY DEF Inductive, TypeOK, CountersOK, HistoryOK
<1>2. CASE UNCHANGED vars \/ Ended
  BY <1>2 DEF vars, Ended
<1>3. CASE LoopHead
  BY <1>1, <1>3 DEF LoopHead, CountTick, LookDue, Noticed,
     WorkloadHasFinished, Capped
<1>4. CASE \/ Start \/ StartFails \/ LoopEnds \/ Panic \/ StubTick
           \/ SampleWritten \/ WriteFails \/ WriteGivesUp \/ SampleFails
           \/ Flush \/ Checkpoint \/ EmitJobEnd \/ FinalSummary \/ Drop
  <2>1. UNCHANGED <<ticks, exitFile, lateTicks, hasExitFile>>
    BY <1>4 DEF Start, StartFails, LoopEnds, Panic, StubTick, SampleWritten,
       WriteFails, WriteGivesUp, SampleFails, Flush, Checkpoint, EmitJobEnd,
       FinalSummary, Drop
  <2>2. pc' \in Looping => pc \in Looping
    BY <1>4 DEF Start, StartFails, LoopEnds, Panic, StubTick, SampleWritten,
       WriteFails, WriteGivesUp, SampleFails, Flush, Checkpoint, EmitJobEnd,
       FinalSummary, Drop
  <2>3. QED
    BY <2>1, <2>2
<1>5. CASE Signal \/ SecondSignal \/ Kill
  BY <1>5 DEF Signal, SecondSignal, Kill
<1>6. CASE ScriptCreatesFile
  BY <1>1, <1>6 DEF ScriptCreatesFile
<1>7. CASE ScriptWritesFile
  BY <1>7 DEF ScriptWritesFile
<1>8. CASE ScriptRemovesFile
  BY <1>8 DEF ScriptRemovesFile
<1>9. QED
  BY <1>2, <1>3, <1>4, <1>5, <1>6, <1>7, <1>8 DEF Next, MainThread,
     Environment

(* The record after one more outcome: that one last, the others one place  *)
(* further from the end, and no shorter than it was.                       *)
LEMMA RememberShifts ==
  ASSUME HistoryOK, NEW o \in Outcomes, Remember(o)
  PROVE  /\ Len(recent') = IF Len(recent) < MaxErrors THEN Len(recent) + 1
                           ELSE Len(recent)
         /\ recent'[Len(recent')] = o
         /\ \A j \in 1..(Len(recent') - 1) :
              recent'[Len(recent') - j] = recent[Len(recent) + 1 - j]
<1> USE DEF HistoryOK
<1>1. CASE Len(recent) < MaxErrors
  BY <1>1 DEF Remember
<1>2. CASE Len(recent) = MaxErrors
  <2> DEFINE rest == Tail(recent)
  <2>1. recent # <<>>
    BY <1>2
  <2>2. /\ rest \in Seq(Outcomes)
        /\ Len(rest) = Len(recent) - 1
        /\ \A i \in 1..(Len(recent) - 1) : rest[i] = recent[i + 1]
    BY <2>1
  <2>3. recent' = Append(rest, o)
    BY <1>2 DEF Remember
  <2> HIDE DEF rest
  <2>4. /\ Len(recent') = Len(recent)
        /\ recent'[Len(recent')] = o
        /\ \A i \in 1..(Len(recent) - 1) : recent'[i] = rest[i]
    BY <2>2, <2>3
  <2>5. \A j \in 1..(Len(recent) - 1) :
          /\ Len(recent) - j \in 1..(Len(recent) - 1)
          /\ (Len(recent) - j) + 1 = Len(recent) + 1 - j
    OBVIOUS
  <2>6. QED
    BY <1>2, <2>2, <2>4, <2>5
<1>3. QED
  BY <1>1, <1>2

(* A run of k outcomes of S that ends the record r.                        *)
RunOf(r, k, S) ==
  /\ k <= Len(r)
  /\ \A i \in 1..Len(r) : i > Len(r) - k => r[i] \in S

(* A run that is not broken is one longer.                                 *)
LEMMA RunGrows ==
  ASSUME HistoryOK, NEW o \in Outcomes, Remember(o),
         NEW S, o \in S, NEW k \in 0..(MaxErrors - 1), RunOf(recent, k, S)
  PROVE  RunOf(recent', k + 1, S)
<1> USE DEF RunOf
<1>1. Len(recent) \in Nat /\ Len(recent') \in Nat
  BY RememberKeeps DEF HistoryOK
<1>2. k + 1 <= Len(recent')
  BY <1>1, RememberShifts DEF HistoryOK
<1>3. ASSUME NEW i \in 1..Len(recent'), i > Len(recent') - (k + 1)
      PROVE  recent'[i] \in S
  <2>1. CASE i = Len(recent')
    BY <2>1, RememberShifts
  <2>2. CASE i < Len(recent')
    <3> DEFINE j == Len(recent') - i
    <3>1. j \in 1..(Len(recent') - 1) /\ i = Len(recent') - j /\ j <= k
      BY <1>1, <1>3, <2>2
    <3>2. recent'[i] = recent[Len(recent) + 1 - j]
      BY <3>1, RememberShifts
    <3>3. Len(recent) + 1 - j \in 1..Len(recent)
          /\ Len(recent) + 1 - j > Len(recent) - k
      BY <1>1, <3>1
    <3>4. QED
      BY <3>2, <3>3
  <2>3. QED
    BY <1>1, <1>3, <2>1, <2>2
<1>4. QED
  BY <1>2, <1>3

(* Runs, in these words.                                                   *)
LEMMA RunsAreRuns ==
  ASSUME Inductive
  PROVE  Runs <=> /\ RunOf(recent, errs, {"error"})
                  /\ RunOf(recent, werrs, {"error", "lost"})
                  /\ pc \in Looping => ~noticed
                  /\ (pc = "end" /\ running /\ ~noticed) =>
                       \/ errs = MaxErrors
                       \/ werrs = MaxErrors /\ recent[Len(recent)] = "lost"
<1>1. \A i \in 1..Len(recent) : recent[i] \in Outcomes
  BY DEF Inductive, TypeOK, HistoryOK
<1>2. QED
  BY <1>1 DEF Runs, RunOf

LEMMA RunsKept == Inductive /\ Runs /\ [Next]_vars => Runs'
<1> SUFFICES ASSUME Inductive, Runs, [Next]_vars PROVE Runs'
  OBVIOUS
<1>0. Inductive'
  BY StepKeeps
<1>a. /\ HistoryOK /\ HistoryOK'
      /\ errs \in 0..MaxErrors /\ werrs \in 0..MaxErrors
      /\ Len(recent) \in Nat /\ Len(recent') \in Nat
  BY <1>0 DEF Inductive, TypeOK, HistoryOK, CountersOK
<1>b. RunOf(recent, errs, {"error"}) /\ RunOf(recent, werrs, {"error", "lost"})
  BY RunsAreRuns
<1>c. pc \in Looping => /\ errs \in 0..(MaxErrors - 1) /\ ~noticed
                        /\ werrs \in 0..(MaxErrors - 1)
  BY <1>a DEF Inductive, Limits, Runs
<1>1. CASE UNCHANGED vars \/ Ended
  BY <1>1 DEF vars, Ended, Runs
<1>2. CASE SampleWritten
  <2>1. errs' = 0 /\ werrs' = 0 /\ pc' = "flush" /\ UNCHANGED noticed
        /\ pc \in Looping
    BY <1>2 DEF SampleWritten, SamplingRecovered, WritingRecovered
  <2>2. QED
    BY <1>a, <1>c, <2>1 DEF Runs
<1>3. CASE WriteFails \/ WriteGivesUp
  <2>1. /\ errs' = 0 /\ werrs' = werrs + 1 /\ Remember("lost")
        /\ UNCHANGED noticed /\ pc \in Looping
        /\ pc' = "flush" \/ (pc' = "end" /\ werrs + 1 >= MaxErrors)
    BY <1>3 DEF WriteFails, WriteGivesUp, SamplingRecovered
  <2>2. RunOf(recent', werrs', {"error", "lost"})
    BY <1>a, <1>b, <1>c, <2>1, RunGrows
  <2>3. recent'[Len(recent')] = "lost"
    BY <1>a, <2>1, RememberShifts
  <2>4. RunOf(recent', errs', {"error"})
    BY <1>a, <2>1 DEF RunOf
  <2>5. pc' = "end" => werrs' = MaxErrors
    BY <1>c, <2>1
  <2>6. QED
    BY <1>c, <2>1, <2>2, <2>3, <2>4, <2>5 DEF RunOf, Runs
<1>4. CASE SampleFails
  <2>1. /\ errs' = errs + 1 /\ werrs' = werrs /\ Remember("error")
        /\ UNCHANGED noticed /\ pc \in Looping
        /\ pc' = "loop" \/ (pc' = "end" /\ errs + 1 >= MaxErrors)
    BY <1>4 DEF SampleFails
  <2>2. RunOf(recent', errs', {"error"})
    BY <1>a, <1>b, <1>c, <2>1, RunGrows
  <2>3. RunOf(recent', werrs + 1, {"error", "lost"})
    BY <1>a, <1>b, <1>c, <2>1, RunGrows
  <2>4. QED
    BY <1>a, <1>c, <2>1, <2>2, <2>3 DEF RunOf, Runs
<1>5. CASE LoopHead
  BY <1>c, <1>5 DEF LoopHead, Noticed, Runs
<1>6. CASE \/ Start \/ StartFails \/ Panic \/ StubTick \/ Flush \/ Checkpoint
           \/ EmitJobEnd \/ FinalSummary \/ Drop
  <2>1. /\ UNCHANGED <<errs, werrs, recent, noticed>> /\ pc' # "end"
        /\ pc' \in Looping => pc \in Looping
    BY <1>6 DEF Start, StartFails, Panic, StubTick, Flush, Checkpoint,
       EmitJobEnd, FinalSummary, Drop
  <2>2. QED
    BY <2>1 DEF Runs
<1>7. CASE LoopEnds
  BY <1>7 DEF LoopEnds, StillRunning, Runs
<1>8. CASE Environment
  BY <1>8 DEF Environment, Signal, SecondSignal, Kill, ScriptCreatesFile,
     ScriptWritesFile, ScriptRemovesFile, Runs
<1>9. QED
  BY <1>1, <1>2, <1>3, <1>4, <1>5, <1>6, <1>7, <1>8 DEF Next, MainThread

LEMMA LastWordKept == Inductive /\ LastWord /\ [Next]_vars => LastWord'
<1> SUFFICES ASSUME Inductive, LastWord, [Next]_vars PROVE LastWord'
  OBVIOUS
<1> USE DEF LastWord
<1>1. CASE UNCHANGED vars \/ Ended
  BY <1>1 DEF vars, Ended
<1>2. CASE \/ Start \/ StartFails \/ LoopHead \/ LoopEnds \/ Panic \/ StubTick
           \/ SampleWritten \/ WriteFails \/ WriteGivesUp \/ SampleFails
           \/ Flush \/ Checkpoint \/ EmitJobEnd
  <2>1. ~written /\ ~written' /\ pc' # "returned"
    BY <1>2 DEF Start, StartFails, LoopHead, LoopEnds, Panic, StubTick,
       SampleWritten, WriteFails, WriteGivesUp, SampleFails, Flush,
       Checkpoint, EmitJobEnd
  <2>2. QED
    BY <2>1
<1>3. CASE Environment
  BY <1>3 DEF Environment, Signal, SecondSignal, Kill, ScriptCreatesFile,
     ScriptWritesFile, ScriptRemovesFile
<1>4. CASE FinalSummary
  BY <1>4 DEF FinalSummary, WriteFinalSummary, Publish, PublishFails
<1>5. CASE Drop
  BY <1>5 DEF Drop, WriteFinalSummary, Publish, PublishFails
<1>6. QED
  BY <1>1, <1>2, <1>3, <1>4, <1>5 DEF Next, MainThread

(* The stream on disk is at most one flush period behind the samples, for  *)
(* any period and any point at which the process is killed.                *)
THEOREM StreamLagIsBounded == Spec => []FlushBoundsLag
<1>1. Init => Lag
  BY DEF Init, Lag
<1>2. Lag => FlushBoundsLag
  BY DEF Lag, FlushBoundsLag
<1>3. QED
  BY <1>1, <1>2, LagKept, AlwaysInductive, PTL DEF Spec

(* Fewer than flush_every ticks begin while the exit-status file is there. *)
THEOREM FileIsSeenInTime == Spec => []NoticesFileInTime
<1>1. Init => Late
  BY DEF Init, Late
<1>2. Late => NoticesFileInTime
  BY DEF Late, NoticesFileInTime
<1>3. QED
  BY <1>1, <1>2, LateKept, AlwaysInductive, PTL DEF Spec

(* A logger nobody stopped gives up only on a full run of failures.        *)
THEOREM OnlyARunEndsIt == Spec => []GivesUpOnlyOnARun
<1>1. Init => Runs
  BY DEF Init, Runs
<1>2. ASSUME Inductive, Runs PROVE GivesUpOnlyOnARun
  <2>1. Len(recent) \in Nat /\ Len(recent) <= MaxErrors
    BY <1>2 DEF Inductive, TypeOK, HistoryOK
  <2>2. QED
    BY <1>2, <2>1 DEF Runs, GivesUpOnlyOnARun
<1>3. QED
  BY <1>1, <1>2, RunsKept, AlwaysInductive, PTL DEF Spec

(* A process that returned, by whichever path, left a final summary of all *)
(* its samples unless the write in Drop failed.                            *)
THEOREM ReturningLeavesSummary == Spec => []ReturnLeavesFinal
<1>1. Init => LastWord
  BY DEF Init, LastWord
<1>2. LastWord => ReturnLeavesFinal
  <2>1. SUFFICES ASSUME LastWord, pc = "returned", "drop" \notin trouble
                 PROVE  summaryFile.kind = "final" /\ unsaved = 0
    BY DEF ReturnLeavesFinal
  <2>2. QED
    BY <2>1 DEF LastWord
<1>3. QED
  BY <1>1, <1>2, LastWordKept, AlwaysInductive, PTL DEF Spec
-----------------------------------------------------------------------------
(* What the rest of a region can tell apart of a step.                     *)
found == IF Alive THEN exit ELSE "unset"
record == IF hasExitFile THEN exitFile ELSE "absent"
seen == <<Life, found, summaryFile, record>>

LEMMA LifeIs ==
  /\ pc = "new" => Alive /\ Life = "launched"
  /\ pc \in {"loop", "tick", "flush", "checkpoint"} => Alive /\ Life = "up"
  /\ pc \in {"end", "final", "drop"} => Alive /\ Life = "ending"
  /\ pc \in Endings => ~Alive /\ Life = "gone"
  BY DEF Life, Alive

(* The status that a process reads is the one the contract lets it find.   *)
LEMMA StatusIs ==
  ASSUME Inductive, Alive
  PROVE  /\ ReadExitStatus = Contract!Readable
         /\ StatusForFinal = Contract!Outcome
<1>1. ReadExitStatus = Contract!Readable
  BY CodesAssumption DEF ReadExitStatus, Contract!Readable
<1>2. QED
  BY <1>1 DEF StatusForFinal, Contract!Outcome

(* The loop and what comes before it, checkpoints apart.                   *)
LEMMA LoopImplements ==
  ASSUME Inductive,
         \/ Start \/ StartFails \/ LoopHead \/ LoopEnds \/ StubTick \/ SampleWritten
         \/ WriteFails \/ WriteGivesUp \/ SampleFails \/ Panic \/ Flush
  PROVE  [Contract!Next]_seen
<1> USE DEF Contract!Next, Contract!Step
<1>1. UNCHANGED <<exit, summaryFile, record>>
  BY DEF Start, StartFails, LoopHead, LoopEnds, StubTick, SampleWritten, WriteFails,
     WriteGivesUp, SampleFails, Panic, Flush, record
<1>2. CASE Start
  <2>1. pc = "new" /\ pc' = "loop"
    BY <1>2 DEF Start
  <2>2. Life = "launched" /\ Life' = "up" /\ UNCHANGED found
    BY <1>1, <2>1, LifeIs DEF Life, Alive, found
  <2>3. QED
    BY <1>1, <2>2 DEF found, record, Contract!Start
<1>3. CASE StartFails
  <2>1. pc = "new" /\ pc' = "unstarted"
    BY <1>3 DEF StartFails
  <2>2. Life = "launched" /\ Life' = "gone" /\ found' = "unset"
    BY <2>1 DEF Life, Alive, found
  <2>3. QED
    BY <1>1, <2>2 DEF found, record, Contract!Stop
<1>4. CASE ~Start /\ ~StartFails
  <2>1. /\ pc \in {"loop", "tick", "flush"}
        /\ pc' \in {"loop", "tick", "flush", "checkpoint", "end", "drop"}
    BY <1>4 DEF LoopHead, LoopEnds, StubTick, SampleWritten, WriteFails, WriteGivesUp,
       SampleFails, Panic, Flush
  <2>2. Life = "up" /\ Life' \in {"up", "ending"} /\ UNCHANGED found
    BY <1>1, <2>1 DEF Life, Alive, found
  <2>3. QED
    BY <1>1, <2>2 DEF seen, found, record, Contract!LeaveLoop
<1>5. QED
  BY <1>2, <1>3, <1>4

(* A checkpoint carries no outcome: nobody has looked for one.             *)
LEMMA CheckpointImplements ==
  ASSUME Inductive, Checkpoint
  PROVE  [Contract!Next]_seen
<1>1. pc = "checkpoint" /\ pc' = "loop" /\ UNCHANGED <<exit, record>>
  BY DEF Checkpoint, record
<1>2. Life = "up" /\ Life' = "up" /\ UNCHANGED found
  BY <1>1 DEF Life, Alive, found
<1>3. exit = "unset"
  BY <1>1 DEF Inductive, Outcome
<1>4. CASE Publish("partial", CheckpointStatus)
  BY <1>1, <1>2, <1>3, <1>4 DEF Publish, CheckpointStatus, found, record,
     Contract!PublishCheckpoint, Contract!Step, Contract!Next
<1>5. CASE UNCHANGED summaryFile
  BY <1>1, <1>2, <1>5 DEF seen
<1>6. QED
  BY <1>4, <1>5 DEF Checkpoint, PublishFails

(* The exit status is read for the first time.                             *)
LEMMA EmitJobEndImplements ==
  ASSUME Inductive, EmitJobEnd
  PROVE  Contract!ReadStatus
<1>1. /\ pc = "end" /\ pc' = "final" /\ exit' = ReadExitStatus
      /\ UNCHANGED <<summaryFile, record>>
  BY DEF EmitJobEnd, record
<1>2. exit = "unset"
  BY <1>1 DEF Inductive, Outcome
<1>3. Alive /\ Life = "ending" /\ Life' = "ending" /\ found = "unset" /\ found' = exit'
  BY <1>1, <1>2 DEF Life, Alive, found
<1>4. ReadExitStatus = Contract!Readable
  BY <1>3, StatusIs
<1>5. QED
  BY <1>1, <1>3, <1>4 DEF found, record, Contract!ReadStatus

(* The final summary, with the process still up; it has what was read.     *)
LEMMA FinalSummaryImplements ==
  ASSUME Inductive, FinalSummary
  PROVE  [Contract!Next]_seen
<1>1. /\ pc = "final" /\ pc' = "drop" /\ exit' = StatusForFinal /\ UNCHANGED record
  BY DEF FinalSummary, WriteFinalSummary, record
<1>2. summaryFile.kind # "final" /\ StatusForFinal = exit
  BY <1>1 DEF Inductive, Outcome, StatusForFinal
<1>3. Alive /\ Life = "ending" /\ Life' = "ending" /\ found = exit /\ found' = exit'
  BY <1>1 DEF Life, Alive, found
<1>4. StatusForFinal = Contract!Outcome
  BY <1>3, StatusIs
<1>5. CASE Publish("final", StatusForFinal)
  BY <1>1, <1>2, <1>3, <1>4, <1>5 DEF Publish, found, record, Contract!PublishFinal,
     Contract!Step, Contract!Next
<1>6. CASE UNCHANGED summaryFile
  BY <1>1, <1>2, <1>3, <1>6 DEF seen
<1>7. QED
  BY <1>5, <1>6 DEF FinalSummary, WriteFinalSummary, PublishFails

(* The last call of the main thread publishes a first final summary, or    *)
(* leaves the file and goes away.                                          *)
LEMMA DropImplements ==
  ASSUME Inductive, Drop
  PROVE  Contract!PublishFinal \/ Contract!Stop
<1>1. pc = "drop" /\ pc' = "returned" /\ UNCHANGED record
  BY DEF Drop, record
<1>2. Alive /\ Life = "ending" /\ Life' = "gone" /\ found' = "unset"
  BY <1>1 DEF Life, Alive, found
<1>3. CASE UNCHANGED summaryFile
  BY <1>1, <1>2, <1>3 DEF found, record, Contract!Stop
<1>4. CASE ~written /\ Publish("final", StatusForFinal)
  <2>1. summaryFile.kind # "final"
    BY <1>1, <1>4 DEF Inductive, Outcome
  <2>2. StatusForFinal = Contract!Outcome
    BY <1>2, StatusIs
  <2>3. QED
    BY <1>1, <1>2, <1>4, <2>1, <2>2 DEF Publish, found, record, Contract!PublishFinal
<1>5. QED
  BY <1>3, <1>4 DEF Drop, WriteFinalSummary, PublishFails

LEMMA EnvironmentImplements ==
  ASSUME Inductive, Environment
  PROVE  [Contract!Next]_seen
<1>1. CASE SecondSignal \/ Kill
  <2>1. Alive /\ pc' \in Endings /\ UNCHANGED <<summaryFile, record>>
    BY <1>1 DEF SecondSignal, Kill, record
  <2>2. Life # "gone" /\ Life' = "gone" /\ found' = "unset"
    BY <2>1 DEF Life, Alive, found
  <2>3. QED
    BY <2>1, <2>2 DEF found, record, Contract!Stop, Contract!Step, Contract!Next
<1>2. CASE ~SecondSignal /\ ~Kill
  <2>1. UNCHANGED <<pc, exit, summaryFile, hasExitFile>>
    BY <1>2 DEF Environment, Signal, ScriptCreatesFile, ScriptWritesFile,
       ScriptRemovesFile
  <2>2. UNCHANGED <<Life, found>>
    BY <2>1 DEF Life, Alive, found
  <2>3. QED
    BY <2>1, <2>2 DEF seen, found, record, Contract!ScriptActs, Contract!Next
<1>3. QED
  BY <1>1, <1>2

(* One logger process, its signals, its kills and its job script implement *)
(* the contract that the readers of its summary rely on.                   *)
THEOREM Implements == Spec => KeepsContract
<1>1. Init => Contract!Init
  BY DEF Init, Contract!Init, Life, Alive
<1>2. ASSUME Inductive, [Next]_vars
      PROVE  [Contract!Next]_seen
  <2>1. CASE UNCHANGED vars \/ Ended
    BY <2>1 DEF vars, Ended, Alive, Life, seen, found, record
  <2>2. CASE MainThread
    BY <1>2, <2>2, LoopImplements, CheckpointImplements, EmitJobEndImplements,
       FinalSummaryImplements, DropImplements DEF MainThread, Contract!Step, Contract!Next
  <2>3. CASE Environment
    BY <1>2, <2>3, EnvironmentImplements
  <2>4. QED
    BY <1>2, <2>1, <2>2, <2>3 DEF Next
<1>3. QED
  BY <1>1, <1>2, AlwaysInductive, PTL
     DEF Spec, KeepsContract, Contract!Spec, seen, found, record
-----------------------------------------------------------------------------
LEMMA StepsLeftIs ==
  /\ StepsLeft["new"] = 8 /\ StepsLeft["tick"] = 7 /\ StepsLeft["flush"] = 6
  /\ StepsLeft["checkpoint"] = 5 /\ StepsLeft["loop"] = 4 /\ StepsLeft["end"] = 3
  /\ StepsLeft["final"] = 2 /\ StepsLeft["drop"] = 1
  /\ \A s \in Endings : StepsLeft[s] = 0
  BY DEF StepsLeft, Steps, Endings

LEMMA MainThreadNearsEnd ==
  ASSUME ~running, MainThread
  PROVE  ~running' /\ StepsLeft[pc'] < StepsLeft[pc]
<1>1. CASE Start \/ StartFails \/ LoopHead \/ LoopEnds
  BY <1>1, StepsLeftIs DEF Start, StartFails, LoopHead, StillRunning, LoopEnds, Endings
<1>2. CASE StubTick \/ SampleWritten \/ WriteFails \/ WriteGivesUp \/ SampleFails \/ Panic
  BY <1>2, StepsLeftIs DEF StubTick, SampleWritten, WriteFails, WriteGivesUp,
     SampleFails, Panic
<1>3. CASE Flush \/ Checkpoint \/ EmitJobEnd \/ FinalSummary \/ Drop
  BY <1>3, StepsLeftIs DEF Flush, Checkpoint, EmitJobEnd, FinalSummary, Drop, Endings
<1>4. QED
  BY <1>1, <1>2, <1>3 DEF MainThread

(* After the first signal at most eight steps of the main thread remain,   *)
(* with any periods, any error limit and whatever fails: no other tick     *)
(* begins, and no failure or file brings the loop back.                    *)
THEOREM SignalIsObeyed == Spec => ObeysSignal
<1>1. [Next]_vars =>
        [~running => /\ ~running'
                     /\ MainThread => StepsLeft[pc'] < StepsLeft[pc]
                     /\ pc' = pc \/ StepsLeft[pc'] < StepsLeft[pc]]_vars
  <2> SUFFICES ASSUME Next, ~running
               PROVE  /\ ~running'
                      /\ MainThread => StepsLeft[pc'] < StepsLeft[pc]
                      /\ pc' = pc \/ StepsLeft[pc'] < StepsLeft[pc]
    OBVIOUS
  <2>1. CASE MainThread
    BY <2>1, MainThreadNearsEnd
  <2>2. CASE ~MainThread /\ (SecondSignal \/ Kill)
    <3>1. Alive /\ pc' \in Endings /\ ~running'
      BY <2>2 DEF SecondSignal, Kill, Endings
    <3>2. StepsLeft[pc'] < StepsLeft[pc]
      BY <3>1, StepsLeftIs DEF Alive, Steps
    <3>3. QED
      BY <2>2, <3>1, <3>2
  <2>3. CASE ~MainThread /\ ~(SecondSignal \/ Kill)
    BY <2>3 DEF Next, Environment, Signal, ScriptCreatesFile, ScriptWritesFile,
       ScriptRemovesFile, Ended, vars, process
  <2>4. QED
    BY <2>1, <2>2, <2>3
<1>2. QED
  BY <1>1, PTL DEF Spec, ObeysSignal
=============================================================================
