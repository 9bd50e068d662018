----------------------- MODULE TelemetryRegion_proofs -----------------------
(***************************************************************************)
(* The safety of the region for every allocation, every set of statuses    *)
(* and every combination of faults: TypeOK, OutcomeIsReal, HonestMerge and *)
(* LocalSettled; each logger keeps the contract NodeLogger is proved to    *)
(* implement, and no step of the contract is missing; the region           *)
(* implements JobReport; telemetry_stop goes only forward and waits for    *)
(* nobody in vain.  In a region where nothing is lost, WaitIsEnough.       *)
(*                                                                         *)
(* OutcomeIsReal is not inductive: the status travels from the script to   *)
(* the file, from there into what a logger has read and into summaries,    *)
(* and on into the merge.  Outcomes follows it at every station, and says  *)
(* that until it is recorded no logger can find any status, not even an    *)
(* earlier region's.                                                       *)
(***************************************************************************)
EXTENDS TelemetryRegion, TLAPS

(* The script has given its status; it takes no other.                     *)
Past == {"signal", "waitlocal", "poll", "join", "list", "read", "cleanup",
         "done", "killed"}

Quiet == \A n \in Nodes : logger[n] = "off"

Begun ==
  /\ script = "start" => Quiet
  /\ (active \/ script = "check" \/ script \in Stopping) => logger[Local] # "off"
  /\ script \in {"poll", "join", "list", "read", "cleanup"} => logger[Local] = "gone"
  /\ script \in {"start", "check", "work"} => waited = 0

Outcomes ==
  /\ exitFile \in Codes => Quiet \/ (script \in Past /\ exitFile = status)
  /\ \A n \in Nodes : found[n] \in Codes => script \in Past /\ found[n] = status
  /\ \A n \in Nodes : file[n].exit \in Codes => script \in Past /\ file[n].exit = status
  /\ \A n \in Nodes : seen[n].exit \in Codes => script \in Past /\ seen[n].exit = status
  /\ merged.exit # None => script \in Past /\ merged.exit = status

Files ==
  /\ \A n \in Nodes : file[n].kind = "final" => logger[n] \in {"ending", "gone"}
  /\ \A n \in Nodes : file[n].kind = "none" => file[n] = NoSummary
  /\ \A n \in Nodes : seen[n].kind = "none" => seen[n] = NoSummary
  /\ \A n \in Nodes : seen[n].kind = "final" => file[n].kind = "final"
  /\ seen[Local] = NoSummary \/ (logger[Local] = "gone" /\ seen[Local] = file[Local])

Merging ==
  /\ script = "read" => listed # {}
  /\ merged.done => logger[Local] = "gone"
  /\ HonestMerge

Inductive == TypeOK /\ Begun /\ Outcomes /\ Files /\ Merging
-----------------------------------------------------------------------------
LEMMA Initially == Init => Inductive
<1> SUFFICES ASSUME Init PROVE Inductive
  OBVIOUS
<1> USE NodesAssumption, CodesAssumption, TimeAssumption DEF Init, NoSummary
<1>1. NoSummary \in Summary /\ "unset" \notin Codes
  BY DEF Summary
<1>2. ShellOK
  <2>1. waited \in Nat /\ waited <= Wait
    BY DEF Wait
  <2>2. script \in Scripts /\ status \in Codes /\ exitFile \in Codes \union {"absent", "empty"}
    BY DEF Scripts
  <2>3. active \in BOOLEAN
    BY Zenon
  <2>4. QED
    BY <2>1, <2>2, <2>3, Zenon DEF ShellOK
<1>3. ProcessesOK
  BY <1>1 DEF ProcessesOK
<1>4. MergeOK
  BY <1>1 DEF MergeOK, NoMerge
<1>5. Begun
  BY DEF Begun, Quiet, Stopping
<1>6. Outcomes
  BY <1>1 DEF Outcomes, Quiet, NoMerge
<1>7. Files
  BY DEF Files
<1>8. Merging
  BY DEF Merging, HonestMerge, NoMerge
<1>9. QED
  BY <1>2, <1>3, <1>4, <1>5, <1>6, <1>7, <1>8 DEF Inductive, TypeOK

(* What a step must not do when it touches no summary and no merge: start  *)
(* or revive a logger, take a second status, put another status into the   *)
(* exit-status file.                                                       *)
LEMMA Frame ==
  ASSUME Inductive, UNCHANGED <<file, listed, seen, merged>>,
         ShellOK', ProcessesOK', Begun',
         \A n \in Nodes : logger'[n] = "off" <=> logger[n] = "off",
         \A n \in Nodes : logger[n] \in {"ending", "gone"} => logger'[n] \in {logger[n], "gone"},
         \A n \in Nodes : found'[n] \in {found[n], "unset"},
         exitFile' \in Codes => Quiet \/ (script' \in Past /\ exitFile' = status'),
         script \in Past => script' \in Past /\ status' = status,
         script' = "read" => script = "read"
  PROVE  Inductive'
<1>1. TypeOK'
  BY DEF Inductive, TypeOK, MergeOK
<1>2. Quiet' <=> Quiet
  BY DEF Quiet
<1>3. Outcomes'
  BY <1>2, CodesAssumption DEF Inductive, Outcomes
<1>4. Files'
  BY NodesAssumption DEF Inductive, Files
<1>5. Merging'
  BY NodesAssumption DEF Inductive, Merging, HonestMerge
<1>6. QED
  BY <1>1, <1>3, <1>4, <1>5 DEF Inductive

(* The same for a step that leaves the script alone.                       *)
LEMMA ProcessFrame ==
  ASSUME Inductive, UNCHANGED <<shell, file, merge>>, ProcessesOK',
         \A n \in Nodes : logger'[n] = "off" <=> logger[n] = "off",
         \A n \in Nodes : logger[n] \in {"ending", "gone"} => logger'[n] \in {logger[n], "gone"},
         \A n \in Nodes : found'[n] \in {found[n], "unset"}
  PROVE  Inductive'
<1>1. UNCHANGED <<script, active, status, exitFile, waited, file, listed, seen, merged>>
  BY DEF shell, merge
<1>2. ShellOK'
  BY <1>1 DEF Inductive, TypeOK, ShellOK, Wait
<1>3. Begun'
  BY <1>1, NodesAssumption DEF Inductive, Begun, Quiet
<1>4. exitFile' \in Codes => Quiet \/ (script' \in Past /\ exitFile' = status')
  BY <1>1 DEF Inductive, Outcomes
<1>5. QED
  BY <1>1, <1>2, <1>3, <1>4, Frame

(* A process that is over; a signal starts and revives nothing.            *)
LEMMA GoneIs ==
  ASSUME ProcessesOK, NEW n \in Nodes, Gone(n), logger[n] # "off"
  PROVE  /\ logger' \in [Nodes -> {"off", "launched", "up", "ending", "gone"}]
         /\ found' \in [Nodes -> Codes \union {"unset", "unknown"}]
         /\ \A m \in Nodes : logger'[m] = "off" <=> logger[m] = "off"
         /\ \A m \in Nodes : logger'[m] \in {logger[m], "gone"}
         /\ \A m \in Nodes : found'[m] \in {found[m], "unset"}
  BY DEF Gone, ProcessesOK

LEMMA SignalledIs ==
  ASSUME ProcessesOK, NEW n \in Nodes, Signalled(n)
  PROVE  /\ logger' \in [Nodes -> {"off", "launched", "up", "ending", "gone"}]
         /\ found' \in [Nodes -> Codes \union {"unset", "unknown"}]
         /\ told' \subseteq Nodes
         /\ \A m \in Nodes : logger'[m] = "off" <=> logger[m] = "off"
         /\ \A m \in Nodes : logger'[m] \in {logger[m], "gone"}
         /\ \A m \in Nodes : found'[m] \in {found[m], "unset"}
<1>1. CASE told' \in {told, told \union {n}} /\ UNCHANGED <<logger, found>>
  BY <1>1 DEF ProcessesOK
<1>2. CASE logger[n] # "off" /\ Gone(n) /\ UNCHANGED told
  BY <1>2, GoneIs DEF ProcessesOK
<1>3. QED
  BY <1>1, <1>2 DEF Signalled

(* MergedExit is one of the statuses it is given, or None.                 *)
LEMMA MergedExitIs ==
  ASSUME NEW S \in SUBSET Nodes, S # {}, NEW e
  PROVE  MergedExit(S, e) = None \/ \E n \in S : MergedExit(S, e) = e[n]
<1>1. CASE Failed(S, e) # {}
  <2>1. Failed(S, e) \in SUBSET Nodes
    BY DEF Failed
  <2>2. \E i \in Failed(S, e) : \A j \in Failed(S, e) : i <= j
    BY <1>1, <2>1, NodesAssumption
  <2>3. Least(Failed(S, e)) \in Failed(S, e)
    BY <2>2 DEF Least
  <2>4. QED
    BY <1>1, <2>3 DEF MergedExit, Failed
<1>2. CASE Failed(S, e) = {}
  <2>1. \A n \in S : e[n] \in {Success, None}
    BY <1>2 DEF Failed
  <2>2. QED
    BY <1>2, <2>1 DEF MergedExit
<1>3. QED
  BY <1>1, <1>2
-----------------------------------------------------------------------------
(* The steps of the script that touch no logger.                           *)
ScriptSteps ==
  \/ StartUnavailable \/ StartFinds \/ StartFindsNothing \/ WorkloadEnds
  \/ CreateExitFile \/ WriteExitFile \/ WaitLocal \/ Second \/ WaitOver
  \/ Joined \/ Cleanup \/ TermReachesScript \/ ScriptKilled

LEMMA ScriptStepsFrame ==
  ASSUME Inductive, ScriptSteps,
         ShellOK', Begun',
         exitFile' \in Codes => Quiet \/ (script' \in Past /\ exitFile' = status'),
         script \in Past => script' \in Past /\ status' = status,
         script' = "read" => script = "read"
  PROVE  Inductive'
<1>1. UNCHANGED <<logger, told, found, file, launcher, pending, listed, seen, merged>>
      /\ warned' \in {"no", "sent", "taken"}
  BY DEF ScriptSteps, StartUnavailable, StartFinds, StartFindsNothing, WorkloadEnds,
     CreateExitFile, WriteExitFile, WaitLocal, Second, WaitOver, Joined, Cleanup,
     TermReachesScript, ScriptKilled, processes, signals, merge, Inductive, TypeOK,
     ProcessesOK
<1>2. ProcessesOK'
  BY <1>1 DEF Inductive, TypeOK, ProcessesOK
<1>3. QED
  BY <1>1, <1>2, Frame DEF Inductive, TypeOK, ProcessesOK

(* Those that leave the exit-status file, the status and _HT_ACTIVE alone. *)
LEMMA ScriptMovesOn ==
  ASSUME Inductive,
         StartUnavailable \/ StartFindsNothing \/ WaitLocal \/ Second
           \/ WaitOver \/ Joined \/ ScriptKilled
  PROVE  Inductive'
<1>1. ScriptSteps /\ UNCHANGED <<active, status, exitFile, logger>>
  BY DEF ScriptSteps, StartUnavailable, StartFindsNothing, WaitLocal, Second,
     WaitOver, Joined, ScriptKilled, processes
<1>2. Begun /\ Outcomes /\ ShellOK
  BY DEF Inductive, TypeOK
<1>3. Begun' /\ script' \in Scripts
  <2>1. CASE StartUnavailable
    BY <1>1, <1>2, <2>1 DEF StartUnavailable, Begun, Quiet, Stopping, Scripts
  <2>2. CASE StartFindsNothing
    BY <1>1, <1>2, <2>2 DEF StartFindsNothing, Begun, Quiet, Stopping, Scripts
  <2>3. CASE WaitLocal
    BY <1>1, <1>2, <2>3 DEF WaitLocal, LocalEnded, Begun, Quiet, Stopping, Scripts
  <2>4. CASE Second
    BY <1>1, <1>2, <2>4 DEF Second, Begun, Quiet, Stopping, Scripts
  <2>5. CASE WaitOver
    BY <1>1, <1>2, <2>5 DEF WaitOver, Begun, Quiet, Stopping, Scripts
  <2>6. CASE Joined
    BY <1>1, <1>2, <2>6 DEF Joined, Begun, Quiet, Stopping, Scripts
  <2>7. CASE ScriptKilled
    BY <1>1, <1>2, <2>7 DEF ScriptKilled, Begun, Quiet, Stopping, Scripts
  <2>8. QED
    BY <2>1, <2>2, <2>3, <2>4, <2>5, <2>6, <2>7
<1>4. waited' \in Nat /\ waited' <= Wait'
  <2>1. Wait' = Wait /\ Wait \in Nat /\ waited \in Nat /\ waited <= Wait
    BY <1>1, <1>2, TimeAssumption DEF Wait, ShellOK
  <2>2. CASE Second
    BY <2>1, <2>2 DEF Second, SecondsLeft
  <2>3. waited' \in {0, waited} \/ Second
    BY DEF StartUnavailable, StartFindsNothing, WaitLocal, WaitOver, Joined, ScriptKilled
  <2>4. QED
    BY <2>1, <2>2, <2>3
<1>5. ShellOK'
  BY <1>1, <1>2, <1>3, <1>4, Zenon DEF ShellOK
<1>6. script \in Past => script' \in Past
  BY DEF Past, StartUnavailable, StartFindsNothing, WaitLocal, Second, WaitOver,
     Joined, ScriptKilled
<1>7. script' = "read" => script = "read"
  BY DEF StartUnavailable, StartFindsNothing, WaitLocal, Second, WaitOver, Joined,
     ScriptKilled
<1>8. exitFile' \in Codes => Quiet \/ (script' \in Past /\ exitFile' = status')
  BY <1>1, <1>2, <1>6 DEF Outcomes
<1>9. QED
  BY <1>1, <1>3, <1>5, <1>6, <1>7, <1>8, ScriptStepsFrame

LEMMA StartFindsPreserves ==
  ASSUME Inductive, StartFinds
  PROVE  Inductive'
<1>1. /\ ScriptSteps /\ UNCHANGED <<status, exitFile, waited, logger>>
      /\ script = "check" /\ script' = "work" /\ active' = TRUE
  BY DEF ScriptSteps, StartFinds, processes
<1>2. Begun /\ Outcomes /\ ShellOK
  BY DEF Inductive, TypeOK
<1>3. Begun'
  BY <1>1, <1>2 DEF Begun, Quiet, Stopping
<1>4. ShellOK'
  <2>1. waited' \in Nat /\ waited' <= Wait' /\ script' \in Scripts
    BY <1>1, <1>2 DEF ShellOK, Wait, Scripts
  <2>2. active' \in BOOLEAN
    BY <1>1, Zenon
  <2>3. QED
    BY <1>1, <1>2, <2>1, <2>2, Zenon DEF ShellOK
<1>5. exitFile' \in Codes => Quiet \/ (script' \in Past /\ exitFile' = status')
  BY <1>1, <1>2 DEF Outcomes, Past
<1>6. QED
  BY <1>1, <1>3, <1>4, <1>5, ScriptStepsFrame DEF Past

(* telemetry_stop is entered: until then no status was to be found.        *)
LEMMA StopPreserves ==
  ASSUME Inductive, ScriptSteps, script = "work",
         NEW given \in Codes, StopWith(given),
         UNCHANGED <<exitFile, waited, logger>>
  PROVE  Inductive'
<1>1. Begun /\ Outcomes /\ ShellOK
  BY DEF Inductive, TypeOK
<1>2. status' = given /\ active' = FALSE
      /\ script' = IF active THEN "record" ELSE "done"
  BY DEF StopWith
<1>3. Begun'
  BY <1>1, <1>2 DEF Begun, Quiet, Stopping
<1>4. ShellOK'
  <2>1. waited' \in Nat /\ waited' <= Wait'
    BY <1>1, TimeAssumption DEF ShellOK, Begun, Wait
  <2>2. script' \in Scripts
    BY <1>2 DEF Scripts, Stopping
  <2>3. active' \in BOOLEAN
    BY <1>2, Zenon
  <2>4. QED
    BY <1>1, <1>2, <2>1, <2>2, <2>3, Zenon DEF ShellOK
<1>5. exitFile' \in Codes => Quiet
  BY <1>1 DEF Outcomes, Past
<1>6. QED
  BY <1>2, <1>3, <1>4, <1>5, ScriptStepsFrame DEF Past

LEMMA RecordPreserves ==
  ASSUME Inductive, CreateExitFile \/ WriteExitFile \/ Cleanup
  PROVE  Inductive'
<1>1. /\ ScriptSteps /\ UNCHANGED <<active, status, waited, logger>>
      /\ script \in {"record", "write", "cleanup"}
      /\ script' \in {"write", "signal", "done"}
      /\ script = "cleanup" <=> script' = "done"
  BY DEF ScriptSteps, CreateExitFile, WriteExitFile, Cleanup, processes
<1>2. Begun /\ Outcomes /\ ShellOK
  BY DEF Inductive, TypeOK
<1>3. Begun'
  BY <1>1, <1>2 DEF Begun, Quiet, Stopping
<1>4. exitFile' = exitFile \/ exitFile' \in {"absent", "empty"}
      \/ (exitFile' = status /\ script' = "signal")
  BY DEF CreateExitFile, WriteExitFile, Cleanup
<1>5. ShellOK'
  <2>1. waited' \in Nat /\ waited' <= Wait' /\ script' \in Scripts
    BY <1>1, <1>2 DEF ShellOK, Wait, Scripts, Stopping
  <2>2. exitFile' \in Codes \union {"absent", "empty"}
    BY <1>2, <1>4 DEF ShellOK
  <2>3. QED
    BY <1>1, <1>2, <2>1, <2>2, Zenon DEF ShellOK
<1>6. exitFile' \in Codes => Quiet \/ (script' \in Past /\ exitFile' = status')
  BY <1>1, <1>2, <1>4, CodesAssumption DEF Outcomes, Past
<1>7. QED
  BY <1>1, <1>3, <1>5, <1>6, ScriptStepsFrame DEF Past

LEMMA TermReachesScriptPreserves ==
  ASSUME Inductive, TermReachesScript
  PROVE  Inductive'
<1>1. ScriptSteps /\ UNCHANGED <<exitFile, waited, logger>>
  BY DEF ScriptSteps, TermReachesScript, processes
<1>2. CASE script = "work" /\ active
  BY <1>1, <1>2, StopPreserves, CodesAssumption DEF TermReachesScript, TrapSet
<1>3. CASE ~(script = "work" /\ active)
  <2>1. /\ script' = IF script = "done" THEN "done" ELSE "killed"
        /\ UNCHANGED <<active, status>>
    BY <1>3 DEF TermReachesScript, TrapSet
  <2>2. Begun /\ Outcomes /\ ShellOK
    BY DEF Inductive, TypeOK
  <2>3. Begun'
    BY <1>1, <2>1, <2>2 DEF Begun, Quiet, Stopping
  <2>4. ShellOK'
    <3>1. waited' \in Nat /\ waited' <= Wait' /\ script' \in Scripts
      BY <1>1, <2>1, <2>2 DEF ShellOK, Wait, Scripts
    <3>2. QED
      BY <1>1, <2>1, <2>2, <3>1, Zenon DEF ShellOK
  <2>5. script' \in Past /\ script' # "read"
    BY <2>1 DEF Past
  <2>6. exitFile' \in Codes => Quiet \/ (script' \in Past /\ exitFile' = status')
    BY <1>1, <2>1, <2>2, <2>5 DEF Outcomes
  <2>7. QED
    BY <1>1, <2>1, <2>3, <2>4, <2>5, <2>6, ScriptStepsFrame
<1>4. QED
  BY <1>2, <1>3
-----------------------------------------------------------------------------
(* Steps of loggers, launchers and the scheduler that publish nothing.     *)
ProcessStep(n) ==
  \/ LoggerStarts(n) \/ LoggerStartFails(n) \/ LoggerStops(n) \/ LoggerReturns(n)
  \/ LoggerGivesUp(n) \/ LoggerCrashes(n) \/ TermReachesLogger(n)

LEMMA ProcessStepPreserves ==
  ASSUME Inductive, NEW n \in Nodes, ProcessStep(n)
  PROVE  Inductive'
<1>1. ProcessesOK
  BY DEF Inductive, TypeOK
<1>2. UNCHANGED <<shell, file, launcher, warned, merge>> /\ pending' \subseteq Nodes
  BY <1>1 DEF ProcessStep, LoggerStarts, LoggerStartFails, LoggerStops, LoggerReturns,
     LoggerGivesUp, LoggerCrashes, TermReachesLogger, signals, ProcessesOK
<1>3. CASE TermReachesLogger(n)
  <2>1. Signalled(n)
    BY <1>3 DEF TermReachesLogger
  <2>2. ProcessesOK'
    BY <1>1, <1>2, <2>1, SignalledIs DEF ProcessesOK
  <2>3. QED
    BY <1>1, <1>2, <2>1, <2>2, SignalledIs, ProcessFrame
<1>4. CASE logger[n] # "off" /\ Gone(n) /\ told' = told
  <2>1. ProcessesOK'
    BY <1>1, <1>2, <1>4, GoneIs DEF ProcessesOK
  <2>2. QED
    BY <1>1, <1>2, <1>4, <2>1, GoneIs, ProcessFrame
<1>5. CASE LoggerStarts(n) \/ LoggerStops(n) \/ LoggerGivesUp(n)
  <2>1. PICK now \in {"up", "ending"} :
          /\ logger' = [logger EXCEPT ![n] = now]
          /\ logger[n] \in {"launched", "up"} /\ UNCHANGED <<told, found>>
    BY <1>5 DEF LoggerStarts, LoggerStops, LoggerGivesUp
  <2>2. ProcessesOK'
    BY <1>1, <1>2, <2>1 DEF ProcessesOK
  <2>3. \A m \in Nodes :
          /\ logger'[m] = "off" <=> logger[m] = "off"
          /\ logger[m] \in {"ending", "gone"} => logger'[m] \in {logger[m], "gone"}
    BY <1>1, <2>1 DEF ProcessesOK
  <2>4. \A m \in Nodes : found'[m] \in {found[m], "unset"}
    BY <2>1
  <2>5. QED
    BY <1>2, <2>2, <2>3, <2>4, ProcessFrame
<1>6. QED
  BY <1>3, <1>4, <1>5 DEF ProcessStep, LoggerStartFails, LoggerReturns, LoggerCrashes

LEMMA LauncherStepPreserves ==
  ASSUME Inductive, NEW r \in Remotes, LauncherStep(r)
  PROVE  Inductive'
<1>1. ProcessesOK /\ r \in Nodes
  BY DEF Inductive, TypeOK, Remotes
<1>2. /\ UNCHANGED <<shell, file, signals, merge>>
      /\ launcher' = [launcher EXCEPT ![r] = "gone"]
      /\ Signalled(r) \/ UNCHANGED <<logger, told, found>>
  BY DEF LauncherStep, LauncherReturns, LauncherKilled
<1>3. /\ logger' \in [Nodes -> {"off", "launched", "up", "ending", "gone"}]
      /\ found' \in [Nodes -> Codes \union {"unset", "unknown"}]
      /\ told' \subseteq Nodes
      /\ \A m \in Nodes : logger'[m] = "off" <=> logger[m] = "off"
      /\ \A m \in Nodes : logger'[m] \in {logger[m], "gone"}
      /\ \A m \in Nodes : found'[m] \in {found[m], "unset"}
  <2>1. CASE Signalled(r)
    BY <1>1, <2>1, SignalledIs
  <2>2. CASE UNCHANGED <<logger, told, found>>
    BY <1>1, <2>2 DEF ProcessesOK
  <2>3. QED
    BY <1>2, <2>1, <2>2
<1>4. ProcessesOK'
  BY <1>1, <1>2, <1>3 DEF ProcessesOK, signals
<1>5. QED
  BY <1>2, <1>3, <1>4, ProcessFrame

LEMMA SchedulerTermPreserves ==
  ASSUME Inductive, SchedulerTerm
  PROVE  Inductive'
<1>1. UNCHANGED <<shell, logger, told, found, file, launcher, merge>>
      /\ warned' = "sent" /\ pending' \subseteq Nodes
  BY DEF SchedulerTerm, processes
<1>2. ProcessesOK'
  BY <1>1 DEF Inductive, TypeOK, ProcessesOK
<1>3. QED
  BY <1>1, <1>2, ProcessFrame

LEMMA TermLocalPreserves ==
  ASSUME Inductive, TermLocal
  PROVE  Inductive'
<1>1. /\ UNCHANGED <<active, status, exitFile, waited, file, launcher, signals, merge>>
      /\ script = "signal" /\ script' = "waitlocal" /\ Signalled(Local)
  BY DEF TermLocal
<1>2. Begun /\ Outcomes /\ ShellOK /\ ProcessesOK
  BY DEF Inductive, TypeOK
<1>3. /\ logger' \in [Nodes -> {"off", "launched", "up", "ending", "gone"}]
      /\ found' \in [Nodes -> Codes \union {"unset", "unknown"}]
      /\ told' \subseteq Nodes
      /\ \A m \in Nodes : logger'[m] = "off" <=> logger[m] = "off"
      /\ \A m \in Nodes : logger'[m] \in {logger[m], "gone"}
      /\ \A m \in Nodes : found'[m] \in {found[m], "unset"}
  BY <1>1, <1>2, SignalledIs, NodesAssumption
<1>4. ProcessesOK'
  BY <1>1, <1>2, <1>3 DEF ProcessesOK, signals
<1>5. ShellOK'
  <2>1. waited' \in Nat /\ waited' <= Wait' /\ script' \in Scripts
    BY <1>1, <1>2 DEF ShellOK, Wait, Scripts, Stopping
  <2>2. QED
    BY <1>1, <1>2, <2>1, Zenon DEF ShellOK
<1>6. Begun'
  BY <1>1, <1>2, <1>3, NodesAssumption DEF Begun, Quiet, Stopping
<1>7. exitFile' \in Codes => Quiet \/ (script' \in Past /\ exitFile' = status')
  BY <1>1, <1>2 DEF Outcomes, Past
<1>8. QED
  BY <1>1, <1>3, <1>4, <1>5, <1>6, <1>7, Frame DEF merge, Past
-----------------------------------------------------------------------------
(* The loggers start with no summary and no status to be found.            *)
LEMMA LaunchPreserves ==
  ASSUME Inductive, Launch
  PROVE  Inductive'
<1>1. /\ script = "start" /\ script' = "check" /\ exitFile' = "absent"
      /\ UNCHANGED <<active, status, waited, told, found, file, signals, merge>>
  BY DEF Launch, ClearExitFile
<1>2. PICK S \in SUBSET Remotes :
        /\ logger' = [n \in Nodes |-> IF n \in S \union {Local} THEN "launched" ELSE "off"]
        /\ launcher' = [r \in Remotes |-> IF r \in S THEN "up" ELSE "none"]
  BY DEF Launch
<1>3. ShellOK /\ ProcessesOK /\ MergeOK /\ Begun /\ Outcomes /\ Files /\ Merging
  BY DEF Inductive, TypeOK
<1>4. Quiet /\ logger'[Local] = "launched"
  BY <1>1, <1>2, <1>3, NodesAssumption DEF Begun
<1>5. ShellOK'
  <2>1. waited' \in Nat /\ waited' <= Wait' /\ script' \in Scripts
    BY <1>1, <1>3 DEF ShellOK, Wait, Scripts
  <2>2. QED
    BY <1>1, <1>3, <2>1, Zenon DEF ShellOK
<1>6. ProcessesOK'
  BY <1>1, <1>2, <1>3 DEF ProcessesOK, signals
<1>7. MergeOK'
  BY <1>1, <1>3 DEF MergeOK, merge
<1>8. Begun'
  BY <1>1, <1>3, <1>4 DEF Begun, Stopping
<1>9. Outcomes'
  BY <1>1, <1>3, CodesAssumption DEF Outcomes, merge, Past
<1>10. Files'
  <2>1. seen[Local] = NoSummary /\ \A n \in Nodes : file[n].kind # "final"
    BY <1>3, <1>4, NodesAssumption DEF Files, Quiet
  <2>2. QED
    BY <1>1, <1>3, <2>1 DEF Files, merge
<1>11. Merging'
  BY <1>1, <1>3, <1>4, NodesAssumption DEF Merging, HonestMerge, Quiet, merge
<1>12. QED
  BY <1>5, <1>6, <1>7, <1>8, <1>9, <1>10, <1>11 DEF Inductive, TypeOK

(* A summary is replaced: a final one by none, a status only by the one    *)
(* that was recorded.  The status may be read on this occasion.            *)
LEMMA SummaryWritten ==
  ASSUME Inductive, NEW n \in Nodes, NEW s \in Summary, NEW read,
         UNCHANGED <<shell, told, launcher, signals, merge>>,
         ProcessesOK',
         \A m \in Nodes : file'[m] = IF m = n THEN s ELSE file[m],
         \A m \in Nodes \ {n} : logger'[m] = logger[m] /\ found'[m] = found[m],
         logger[n] \in {"up", "ending"}, logger'[n] \in {logger[n], "gone"},
         file[n].kind # "final", s.kind # "none",
         s.kind = "final" => logger[n] = "ending",
         read \in {exitFile, found[n], "unset", "unknown"},
         s.exit \in Codes => s.exit = read,
         found'[n] \in Codes => found'[n] = read
  PROVE  Inductive'
<1>1. ShellOK /\ ProcessesOK /\ MergeOK /\ Begun /\ Outcomes /\ Files /\ Merging
  BY DEF Inductive, TypeOK
<1>2. UNCHANGED <<script, active, status, exitFile, waited, told, launcher, warned,
                  pending, listed, seen, merged>>
  BY DEF shell, signals, merge
<1>3. Local \in Nodes
  BY NodesAssumption
<1>4. ShellOK' /\ MergeOK'
  BY <1>1, <1>2 DEF ShellOK, Wait, MergeOK
<1>5. Begun'
  BY <1>1, <1>2, <1>3 DEF Begun, Quiet
<1>6. Outcomes'
  <2>1. ~Quiet
    BY DEF Quiet
  <2>2. read \in Codes => script \in Past /\ read = status
    BY <1>1, <2>1, CodesAssumption DEF Outcomes
  <2>3. exitFile \in Codes => script \in Past /\ exitFile = status
    BY <1>1, <2>1 DEF Outcomes
  <2>4. \A m \in Nodes : /\ found'[m] \in Codes => script \in Past /\ found'[m] = status
                         /\ file'[m].exit \in Codes => script \in Past /\ file'[m].exit = status
    BY <1>1, <2>2 DEF Outcomes
  <2>5. QED
    BY <1>1, <1>2, <2>3, <2>4 DEF Outcomes
<1>7. Files'
  <2>1. logger[Local] = "gone" => Local # n
    OBVIOUS
  <2>2. QED
    BY <1>1, <1>2, <1>3, <2>1 DEF Files
<1>8. Merging'
  <2>1. \A m \in Nodes : file[m].kind = "final" => file'[m].kind = "final"
    OBVIOUS
  <2>2. logger[Local] = "gone" => logger'[Local] = "gone"
    BY <1>3
  <2>3. QED
    BY <1>1, <1>2, <2>1, <2>2 DEF Merging, HonestMerge
<1>9. QED
  BY <1>4, <1>5, <1>6, <1>7, <1>8 DEF Inductive, TypeOK

LEMMA CheckpointPreserves ==
  ASSUME Inductive, NEW n \in Nodes, CheckpointWritten(n)
  PROVE  Inductive'
<1> DEFINE s == [kind |-> "partial", exit |-> "unset"]
<1>1. s \in Summary /\ s.kind = "partial" /\ s.exit \notin Codes
  BY CodesAssumption DEF Summary
<1>2. /\ UNCHANGED <<shell, told, found, launcher, signals, merge, logger>>
      /\ file' = [file EXCEPT ![n] = s] /\ logger[n] = "up"
  BY DEF CheckpointWritten
<1> HIDE DEF s
<1>3. ProcessesOK /\ Files
  BY DEF Inductive, TypeOK
<1>4. ProcessesOK' /\ \A m \in Nodes : file'[m] = IF m = n THEN s ELSE file[m]
  BY <1>1, <1>2, <1>3 DEF ProcessesOK, signals
<1>5. file[n].kind # "final"
  BY <1>2, <1>3 DEF Files
<1>6. QED
  BY <1>1, <1>2, <1>4, <1>5, SummaryWritten

LEMMA ReadPreserves ==
  ASSUME Inductive, NEW n \in Nodes, LoggerReads(n)
  PROVE  Inductive'
<1>1. /\ UNCHANGED <<shell, logger, told, file, launcher, signals, merge>>
      /\ found' = [found EXCEPT ![n] = ReadExitStatus] /\ logger[n] = "ending"
  BY DEF LoggerReads
<1>2. ReadExitStatus \in Codes \union {"unknown"}
      /\ (ReadExitStatus \in Codes => ReadExitStatus = exitFile)
  BY CodesAssumption DEF ReadExitStatus
<1>3. ShellOK /\ ProcessesOK /\ MergeOK /\ Begun /\ Outcomes /\ Files /\ Merging
  BY DEF Inductive, TypeOK
<1>4. UNCHANGED <<script, active, status, exitFile, waited, warned, pending, listed,
                  seen, merged>>
  BY <1>1 DEF shell, signals, merge
<1>5. ShellOK' /\ MergeOK' /\ ProcessesOK'
  BY <1>1, <1>2, <1>3, <1>4 DEF ShellOK, Wait, MergeOK, ProcessesOK
<1>6. Begun' /\ Files' /\ Merging'
  BY <1>1, <1>3, <1>4 DEF Begun, Quiet, Files, Merging, HonestMerge
<1>7. Outcomes'
  <2>1. exitFile \in Codes => script \in Past /\ exitFile = status
    BY <1>1, <1>3 DEF Outcomes, Quiet
  <2>2. \A m \in Nodes : found'[m] \in Codes => script \in Past /\ found'[m] = status
    BY <1>1, <1>2, <1>3, <2>1 DEF Outcomes, ProcessesOK
  <2>3. QED
    BY <1>1, <1>3, <1>4, <2>1, <2>2 DEF Outcomes
<1>8. QED
  BY <1>5, <1>6, <1>7 DEF Inductive, TypeOK

LEMMA PublishPreserves ==
  ASSUME Inductive, NEW n \in Nodes, LoggerPublishes(n)
  PROVE  Inductive'
<1>1. ProcessesOK
  BY DEF Inductive, TypeOK
<1>2. /\ UNCHANGED <<shell, told, launcher, signals, merge>>
      /\ logger[n] = "ending" /\ file[n].kind # "final"
      /\ file' = [file EXCEPT ![n] = FinalSummary(n)]
  BY DEF LoggerPublishes
<1>3. /\ logger' \in [Nodes -> {"off", "launched", "up", "ending", "gone"}]
      /\ logger'[n] \in {logger[n], "gone"}
      /\ found' \in [Nodes -> Codes \union {"unset", "unknown"}]
      /\ \A m \in Nodes \ {n} : logger'[m] = logger[m] /\ found'[m] = found[m]
      /\ found'[n] \in {StatusForFinal(n), "unset"}
  BY <1>1 DEF LoggerPublishes, Gone, StatusForFinal, ReadExitStatus, ProcessesOK
<1>4. /\ FinalSummary(n) \in Summary /\ FinalSummary(n).kind = "final"
      /\ FinalSummary(n).exit = StatusForFinal(n)
  BY <1>1 DEF FinalSummary, StatusForFinal, ReadExitStatus, Summary, ProcessesOK
<1>5. StatusForFinal(n) \in {exitFile, found[n], "unset", "unknown"}
  BY DEF StatusForFinal, ReadExitStatus
<1>6. ProcessesOK' /\ \A m \in Nodes : file'[m] = IF m = n THEN FinalSummary(n) ELSE file[m]
  BY <1>1, <1>2, <1>3, <1>4 DEF ProcessesOK, signals
<1>7. found'[n] \in Codes => found'[n] = StatusForFinal(n)
  BY <1>3, CodesAssumption
<1>8. QED
  BY <1>2, <1>3, <1>4, <1>5, <1>6, <1>7, SummaryWritten
-----------------------------------------------------------------------------
LEMMA MergeListsPreserves ==
  ASSUME Inductive, MergeLists
  PROVE  Inductive'
<1>1. /\ script = "list" /\ script' = IF listed' = {} THEN "cleanup" ELSE "read"
      /\ UNCHANGED <<active, status, exitFile, waited, processes, signals, seen, merged>>
      /\ listed' \subseteq Nodes
  BY DEF MergeLists
<1>2. ShellOK /\ ProcessesOK /\ MergeOK /\ Begun /\ Outcomes /\ Files /\ Merging
  BY DEF Inductive, TypeOK
<1>3. ShellOK'
  <2>1. waited' \in Nat /\ waited' <= Wait' /\ script' \in Scripts
    BY <1>1, <1>2 DEF ShellOK, Wait, Scripts, Stopping
  <2>2. QED
    BY <1>1, <1>2, <2>1, Zenon DEF ShellOK
<1>4. ProcessesOK' /\ MergeOK'
  BY <1>1, <1>2 DEF ProcessesOK, MergeOK, processes, signals
<1>5. Begun' /\ Outcomes' /\ Files'
  BY <1>1, <1>2 DEF Begun, Outcomes, Files, Quiet, Stopping, Past, processes
<1>6. Merging'
  BY <1>1, <1>2 DEF Merging, HonestMerge, processes
<1>7. QED
  BY <1>3, <1>4, <1>5, <1>6 DEF Inductive, TypeOK

LEMMA MergeReadsPreserves ==
  ASSUME Inductive, NEW n \in Nodes, MergeReads(n)
  PROVE  Inductive'
<1>1. /\ script = "read" /\ seen' = [seen EXCEPT ![n] = file[n]]
      /\ UNCHANGED <<script, active, status, exitFile, waited, processes, signals,
                     listed, merged>>
  BY DEF MergeReads, shell
<1>2. ShellOK /\ ProcessesOK /\ MergeOK /\ Begun /\ Outcomes /\ Files /\ Merging
  BY DEF Inductive, TypeOK
<1>3. /\ \A m \in Nodes : seen'[m] = IF m = n THEN file[n] ELSE seen[m]
      /\ Local \in Nodes /\ logger[Local] = "gone"
  BY <1>1, <1>2, NodesAssumption DEF MergeOK, Begun
<1>4. ShellOK' /\ ProcessesOK' /\ MergeOK'
  BY <1>1, <1>2 DEF ShellOK, Wait, ProcessesOK, MergeOK, processes, signals
<1>5. Begun' /\ Merging'
  BY <1>1, <1>2 DEF Begun, Quiet, Merging, HonestMerge, processes
<1>6. Outcomes'
  BY <1>1, <1>2, <1>3 DEF Outcomes, Quiet, processes
<1>7. Files'
  BY <1>1, <1>2, <1>3 DEF Files, processes
<1>8. QED
  BY <1>4, <1>5, <1>6, <1>7 DEF Inductive, TypeOK

LEMMA MergePublishesPreserves ==
  ASSUME Inductive, MergePublishes
  PROVE  Inductive'
<1> DEFINE exits == [n \in listed |-> Recorded(seen[n])]
<1>1. /\ script = "read" /\ script' = "cleanup" /\ \A n \in listed : seen[n] # NoSummary
      /\ merged' = [done |-> TRUE, exit |-> MergedExit(listed, exits),
                    missing |-> Missing(Nodes, listed), partial |-> PartialNodes]
      /\ UNCHANGED <<active, status, exitFile, waited, processes, signals, listed, seen>>
  BY DEF MergePublishes
<1>2. ShellOK /\ ProcessesOK /\ MergeOK /\ Begun /\ Outcomes /\ Files /\ Merging
  BY DEF Inductive, TypeOK
<1>3. listed \in SUBSET Nodes /\ listed # {}
  BY <1>1, <1>2 DEF MergeOK, Merging
<1>4. \A n \in listed : exits[n] \in Codes \union {None}
                        /\ (exits[n] # None => exits[n] = status)
  BY <1>2, <1>3 DEF Recorded, Outcomes
<1>5. MergedExit(listed, exits) \in Codes \union {None}
      /\ (MergedExit(listed, exits) # None => MergedExit(listed, exits) = status)
  <2> HIDE DEF exits
  <2>1. QED
    BY <1>3, <1>4, MergedExitIs
<1> HIDE DEF exits
<1>6. /\ merged'.done = TRUE /\ merged'.exit = MergedExit(listed, exits)
      /\ merged'.missing = Nodes \ listed /\ merged'.partial = PartialNodes
  BY <1>1 DEF Missing
<1>7. ShellOK'
  <2>1. waited' \in Nat /\ waited' <= Wait' /\ script' \in Scripts
    BY <1>1, <1>2 DEF ShellOK, Wait, Scripts, Stopping
  <2>2. QED
    BY <1>1, <1>2, <2>1, Zenon DEF ShellOK
<1>8. ProcessesOK'
  BY <1>1, <1>2 DEF ProcessesOK, processes, signals
<1>9. MergeOK'
  <2>1. Missing(Nodes, listed) \in SUBSET Nodes /\ PartialNodes \in SUBSET Nodes
    BY <1>3 DEF Missing, PartialNodes
  <2>2. QED
    BY <1>1, <1>2, <1>5, <2>1 DEF MergeOK
<1>10. Begun' /\ Files'
  BY <1>1, <1>2 DEF Begun, Files, Quiet, Stopping, processes
<1>11. Outcomes'
  BY <1>1, <1>2, <1>5, <1>6 DEF Outcomes, Quiet, Past, processes
<1>12. Merging'
  <2>1. logger'[Local] = "gone" /\ script' # "read"
    BY <1>1, <1>2 DEF Begun, processes
  <2>2. \A n \in Nodes \ (merged'.missing \union merged'.partial) : file'[n].kind = "final"
    <3>1. SUFFICES ASSUME NEW n \in listed, n \notin PartialNodes
                   PROVE  file[n].kind = "final"
      BY <1>1, <1>3, <1>6 DEF processes
    <3>2. seen[n] # NoSummary /\ seen[n] \in Summary /\ seen[n].kind # "partial"
      BY <1>1, <1>2, <1>3, <3>1 DEF MergeOK, PartialNodes
    <3>3. seen[n].kind = "final"
      BY <1>2, <1>3, <3>2 DEF Files, Summary
    <3>4. QED
      BY <1>2, <1>3, <3>3 DEF Files
  <2>3. QED
    BY <2>1, <2>2 DEF Merging, HonestMerge
<1>13. QED
  BY <1>7, <1>8, <1>9, <1>10, <1>11, <1>12 DEF Inductive, TypeOK

LEMMA StutterPreserves == Inductive /\ UNCHANGED vars => Inductive'
  BY DEF Inductive, TypeOK, ShellOK, ProcessesOK, MergeOK, Begun, Outcomes, Files,
     Merging, HonestMerge, Quiet, Wait, PartialNodes, vars, shell, processes, signals, merge

LEMMA Preserved == Inductive /\ [Next]_vars => Inductive'
<1> SUFFICES ASSUME Inductive, [Next]_vars PROVE Inductive'
  OBVIOUS
<1>1. CASE UNCHANGED vars \/ Ended
  BY <1>1, StutterPreserves DEF Ended
<1>2. CASE TelemetryStart
  BY <1>2, ScriptMovesOn, LaunchPreserves, StartFindsPreserves DEF TelemetryStart
<1>3. CASE WorkloadEnds
  <2>1. PICK given \in Codes : StopWith(given)
    BY <1>3 DEF WorkloadEnds
  <2>2. QED
    BY <1>3, <2>1, StopPreserves DEF WorkloadEnds, ScriptSteps, processes
<1>4. CASE TelemetryStop
  BY <1>4, ScriptMovesOn, RecordPreserves, TermLocalPreserves, MergeListsPreserves,
     MergeReadsPreserves, MergePublishesPreserves DEF TelemetryStop
<1>5. ASSUME NEW n \in Nodes, LoggerStep(n) \/ CheckpointWritten(n)
      PROVE  Inductive'
  BY <1>5, ProcessStepPreserves, ReadPreserves, PublishPreserves, CheckpointPreserves
     DEF LoggerStep, ProcessStep
<1>6. ASSUME NEW r \in Remotes, LauncherStep(r)
      PROVE  Inductive'
  BY <1>6, LauncherStepPreserves
<1>7. CASE Trouble
  BY <1>7, ProcessStepPreserves, SchedulerTermPreserves, TermReachesScriptPreserves,
     ScriptMovesOn DEF Trouble, ProcessStep
<1>8. QED
  BY <1>1, <1>2, <1>3, <1>4, <1>5, <1>6, <1>7 DEF Next
-----------------------------------------------------------------------------
(* The strengthened invariant holds throughout.                            *)
THEOREM AlwaysInductive == Spec => []Inductive
<1>1. QED
  BY Initially, Preserved, PTL DEF Spec

(* Type correctness of the whole region, whatever goes wrong.              *)
THEOREM TypeCorrect == Spec => []TypeOK
<1>1. Inductive => TypeOK
  BY DEF Inductive
<1>2. QED
  BY AlwaysInductive, <1>1, PTL

(* A job-level exit status is the workload's, on any number of nodes and   *)
(* with any of the faults: the file is cleared before the loggers start,   *)
(* written after the last status is taken, and never read as a default.    *)
THEOREM OutcomeAlwaysReal == Spec => []OutcomeIsReal
<1>1. Inductive => OutcomeIsReal
  BY DEF Inductive, Outcomes, OutcomeIsReal
<1>2. QED
  BY AlwaysInductive, <1>1, PTL

(* A node the merge calls neither missing nor partial has left its final   *)
(* summary, although loggers go on publishing while the merge reads.       *)
THEOREM MergeAlwaysHonest == Spec => []HonestMerge
<1>1. Inductive => HonestMerge
  BY DEF Inductive, Merging
<1>2. QED
  BY AlwaysInductive, <1>1, PTL

(* The merge has the local logger's last word, whichever way that ended.   *)
THEOREM LocalAlwaysSettled == Spec => []LocalSettled
<1>1. Inductive => LocalSettled
  BY NodesAssumption DEF Inductive, Begun, Files, Merging, LocalSettled
<1>2. QED
  BY AlwaysInductive, <1>1, PTL
-----------------------------------------------------------------------------
(* What a step may do to the loggers that have been launched.              *)
LEMMA LoggerMoves ==
  ASSUME [Next]_vars
  PROVE  \/ UNCHANGED <<logger, told>>
         \/ Launch
         \/ \E m \in Nodes : Signalled(m)
         \/ \E m \in Nodes, now \in {"up", "ending", "gone"} :
              /\ logger[m] # "gone" /\ logger' = [logger EXCEPT ![m] = now]
              /\ UNCHANGED told
<1>1. CASE UNCHANGED vars \/ Ended
  BY <1>1 DEF Ended, vars, processes
<1>2. CASE TelemetryStart \/ WorkloadEnds \/ TelemetryStop
  BY <1>2, NodesAssumption DEF TelemetryStart, StartUnavailable,
     StartFinds, StartFindsNothing, WorkloadEnds, TelemetryStop, CreateExitFile,
     WriteExitFile, TermLocal, WaitLocal, Second, WaitOver, Joined, MergeLists,
     MergeReads, MergePublishes, Cleanup, processes
<1>3. ASSUME NEW m \in Nodes, LoggerStep(m) \/ CheckpointWritten(m)
      PROVE  \/ UNCHANGED <<logger, told>>
             \/ \E now \in {"up", "ending", "gone"} :
                  /\ logger[m] # "gone" /\ logger' = [logger EXCEPT ![m] = now]
                  /\ UNCHANGED told
  BY <1>3 DEF LoggerStep, LoggerStarts, LoggerStops, LoggerReads, LoggerPublishes,
     LoggerReturns, Gone, CheckpointWritten
<1>4. ASSUME NEW r \in Remotes, LauncherStep(r)
      PROVE  UNCHANGED <<logger, told>> \/ Signalled(r)
  BY <1>4 DEF LauncherStep, LauncherReturns, LauncherKilled
<1>5. CASE Trouble
  BY <1>5 DEF Trouble, LoggerStartFails, LoggerGivesUp, LoggerCrashes, Gone,
     SchedulerTerm, TermReachesLogger, TermReachesScript, ScriptKilled, processes
<1>6. QED
  BY <1>1, <1>2, <1>3, <1>4, <1>5 DEF Next, Remotes

LEMMA NoLoggerRevives ==
  ASSUME Inductive, [Next]_vars, NEW n \in Nodes, logger[n] = "gone"
  PROVE  logger'[n] = "gone"
<1>1. ProcessesOK
  BY DEF Inductive, TypeOK
<1>2. ~Launch
  BY DEF Launch, Inductive, Begun, Quiet
<1>3. ASSUME NEW m \in Nodes, Signalled(m)
      PROVE  logger'[n] = "gone"
  BY <1>1, <1>3, SignalledIs
<1>4. ASSUME NEW m \in Nodes, NEW now \in {"up", "ending", "gone"},
             logger' = [logger EXCEPT ![m] = now], logger[m] # "gone"
      PROVE  logger'[n] = "gone"
  BY <1>1, <1>4 DEF ProcessesOK
<1>5. QED
  BY <1>2, <1>3, <1>4, LoggerMoves

(* The steps of each logger seen from its node: its own, the launch of all *)
(* of them, and an end brought about by a signal or by a loss.             *)
OwnStep(n) ==
  \/ LoggerStarts(n) \/ LoggerStops(n) \/ LoggerGivesUp(n)
  \/ CheckpointWritten(n) \/ LoggerReads(n) \/ LoggerPublishes(n)

Ending(n) ==
  /\ logger[n] # "off" /\ logger'[n] = "gone" /\ found'[n] = "unset"
  /\ UNCHANGED <<file, exitFile>>

Unmoved(n) == logger'[n] = logger[n] /\ found'[n] = found[n] /\ file'[n] = file[n]

LEMMA SignalSeen ==
  ASSUME ProcessesOK, NEW n \in Nodes, NEW m \in Nodes, Signalled(m),
         UNCHANGED <<file, exitFile>>
  PROVE  Unmoved(n) \/ Ending(n)
<1>1. CASE UNCHANGED <<logger, found>>
  BY <1>1 DEF Unmoved
<1>2. CASE logger[m] # "off" /\ Gone(m)
  BY <1>2 DEF Gone, ProcessesOK, Unmoved, Ending
<1>3. QED
  BY <1>1, <1>2 DEF Signalled

LEMMA SeenFromItsNode ==
  ASSUME Inductive, [Next]_vars, NEW n \in Nodes
  PROVE  Unmoved(n) \/ Launch \/ OwnStep(n) \/ Ending(n)
<1>1. ProcessesOK
  BY DEF Inductive, TypeOK
<1>2. CASE UNCHANGED processes
  BY <1>2 DEF processes, Unmoved
<1>3. ASSUME NEW m \in Nodes,
             \/ LoggerStarts(m) \/ LoggerStops(m) \/ LoggerGivesUp(m)
             \/ CheckpointWritten(m) \/ LoggerReads(m)
      PROVE  Unmoved(n) \/ OwnStep(n)
  <2>1. CASE m = n
    BY <1>3, <2>1 DEF OwnStep
  <2>2. CASE m # n
    BY <1>1, <1>3, <2>2 DEF LoggerStarts, LoggerStops, LoggerGivesUp,
       CheckpointWritten, LoggerReads, ProcessesOK, Unmoved
  <2>3. QED
    BY <2>1, <2>2
<1>4. ASSUME NEW m \in Nodes, LoggerPublishes(m)
      PROVE  Unmoved(n) \/ OwnStep(n)
  <2>1. CASE m = n
    BY <1>4, <2>1 DEF OwnStep
  <2>2. CASE m # n
    BY <1>1, <1>4, <2>2 DEF LoggerPublishes, Gone, ProcessesOK, Unmoved
  <2>3. QED
    BY <2>1, <2>2
<1>5. ASSUME NEW m \in Nodes, logger[m] # "off", Gone(m), UNCHANGED <<file, exitFile>>
      PROVE  Unmoved(n) \/ Ending(n)
  BY <1>1, <1>5 DEF Gone, ProcessesOK, Unmoved, Ending
<1>6. CASE TelemetryStart \/ WorkloadEnds \/ TelemetryStop \/ Ended \/ UNCHANGED vars
  <2>1. CASE TermLocal
    BY <1>1, <2>1, SignalSeen, NodesAssumption DEF TermLocal
  <2>2. UNCHANGED processes \/ Launch \/ TermLocal
    BY <1>6 DEF TelemetryStart, StartUnavailable, StartFinds, StartFindsNothing,
       WorkloadEnds, TelemetryStop, CreateExitFile, WriteExitFile, WaitLocal, Second,
       WaitOver, Joined, MergeLists, MergeReads, MergePublishes, Cleanup, Ended, vars
  <2>3. QED
    BY <1>2, <2>1, <2>2
<1>7. ASSUME NEW m \in Nodes, LoggerStep(m) \/ CheckpointWritten(m)
      PROVE  Unmoved(n) \/ OwnStep(n) \/ Ending(n)
  BY <1>3, <1>4, <1>5, <1>7 DEF LoggerStep, LoggerReturns, shell
<1>8. ASSUME NEW r \in Remotes, LauncherStep(r)
      PROVE  Unmoved(n) \/ Ending(n)
  <2>1. r \in Nodes /\ UNCHANGED <<file, exitFile>>
        /\ (Signalled(r) \/ UNCHANGED <<logger, found>>)
    BY <1>8 DEF LauncherStep, LauncherReturns, LauncherKilled, Remotes, shell
  <2>2. QED
    BY <1>1, <2>1, SignalSeen DEF Unmoved
<1>9. CASE Trouble
  <2>1. ASSUME NEW m \in Nodes, LoggerStartFails(m) \/ LoggerCrashes(m)
        PROVE  Unmoved(n) \/ Ending(n)
    BY <1>5, <2>1 DEF LoggerStartFails, LoggerCrashes, shell
  <2>2. ASSUME NEW m \in Nodes, TermReachesLogger(m)
        PROVE  Unmoved(n) \/ Ending(n)
    BY <1>1, <2>2, SignalSeen DEF TermReachesLogger, shell
  <2>3. CASE SchedulerTerm \/ TermReachesScript \/ ScriptKilled
    BY <1>2, <2>3 DEF SchedulerTerm, TermReachesScript, ScriptKilled
  <2>4. QED
    BY <1>3, <1>9, <2>1, <2>2, <2>3 DEF Trouble
<1>10. QED
  BY <1>6, <1>7, <1>8, <1>9 DEF Next

LEMMA OnlyItsLoggerWrites ==
  ASSUME Inductive, [Next]_vars, NEW n \in Nodes
  PROVE  file'[n] = file[n] \/ CheckpointWritten(n) \/ LoggerPublishes(n)
  BY SeenFromItsNode DEF Unmoved, Launch, OwnStep, Ending, LoggerStarts, LoggerStops,
     LoggerGivesUp, LoggerReads

(* What has been read is known to a logger that is ending, and to no other.*)
Reading == \A n \in Nodes : found[n] # "unset" => logger[n] = "ending"

LEMMA ReadingStays ==
  ASSUME Inductive, Reading, [Next]_vars
  PROVE  Reading'
<1> SUFFICES ASSUME NEW n \in Nodes, found'[n] # "unset"
             PROVE  logger'[n] = "ending"
  BY DEF Reading
<1>1. ProcessesOK
  BY DEF Inductive, TypeOK
<1>2. ~Ending(n)
  BY DEF Ending
<1>3. CASE Unmoved(n)
  BY <1>3 DEF Reading, Unmoved
<1>4. CASE Launch
  BY <1>4 DEF Launch, Reading, Inductive, Begun, Quiet
<1>5. CASE LoggerStarts(n) \/ LoggerStops(n) \/ LoggerGivesUp(n) \/ CheckpointWritten(n)
  BY <1>5 DEF LoggerStarts, LoggerStops, LoggerGivesUp, CheckpointWritten, Reading
<1>6. CASE LoggerReads(n) \/ LoggerPublishes(n)
  BY <1>1, <1>6 DEF LoggerReads, LoggerPublishes, Gone, ProcessesOK
<1>7. QED
  BY <1>2, <1>3, <1>4, <1>5, <1>6, SeenFromItsNode DEF OwnStep

LEMMA AlwaysReading == Spec => []Reading
<1>1. Init => Reading
  BY DEF Init, Reading
<1>2. Inductive /\ Reading /\ [Next]_vars => Reading'
  BY ReadingStays
<1>3. QED
  BY <1>1, <1>2, AlwaysInductive, PTL DEF Spec

LEMMA LoggerImplements ==
  ASSUME Inductive, Reading, [Next]_vars, NEW n \in Nodes
  PROVE  [OneLogger(n)!Next]_<<Life(n), found[n], file[n], exitFile>>
<1> USE DEF OneLogger!Next, OneLogger!Step
<1>1. ProcessesOK /\ Files
  BY DEF Inductive, TypeOK
<1>2. OwnStep(n) => UNCHANGED exitFile /\ logger[n] # "off"
  BY DEF OwnStep, LoggerStarts, LoggerStops, LoggerGivesUp, CheckpointWritten,
     LoggerReads, LoggerPublishes, shell
<1>3. CASE Unmoved(n)
  BY <1>3 DEF Unmoved, Life, OneLogger!ScriptActs
<1>4. CASE Launch
  <2>1. logger[n] = "off" /\ logger'[n] \in {"off", "launched"} /\ UNCHANGED <<found, file>>
    BY <1>4 DEF Launch, Inductive, Begun, Quiet
  <2>2. QED
    BY <2>1 DEF Life, OneLogger!ScriptActs
<1>5. CASE Ending(n)
  BY <1>5 DEF Ending, Reading, Life, OneLogger!Stop
<1>6. CASE LoggerStarts(n)
  BY <1>1, <1>2, <1>6 DEF LoggerStarts, OwnStep, ProcessesOK, Life, OneLogger!Start
<1>7. CASE LoggerStops(n) \/ LoggerGivesUp(n)
  BY <1>1, <1>2, <1>7 DEF LoggerStops, LoggerGivesUp, OwnStep, ProcessesOK, Life,
     OneLogger!LeaveLoop
<1>8. CASE CheckpointWritten(n)
  BY <1>1, <1>2, <1>8 DEF CheckpointWritten, OwnStep, ProcessesOK, Life,
     OneLogger!PublishCheckpoint
<1>9. CASE LoggerReads(n)
  BY <1>1, <1>2, <1>9 DEF LoggerReads, OwnStep, ProcessesOK, Life, ReadExitStatus,
     OneLogger!ReadStatus, OneLogger!Readable
<1>10. CASE LoggerPublishes(n)
  <2>1. /\ logger[n] = "ending" /\ file[n].kind # "final" /\ UNCHANGED exitFile
        /\ file'[n] = [kind |-> "final", exit |-> StatusForFinal(n)]
        /\ \/ found'[n] = StatusForFinal(n) /\ logger'[n] = logger[n]
           \/ logger'[n] = "gone" /\ found'[n] = "unset"
    BY <1>1, <1>2, <1>10 DEF LoggerPublishes, FinalSummary, Gone, OwnStep, ProcessesOK
  <2>2. StatusForFinal(n) = OneLogger(n)!Outcome
    BY DEF StatusForFinal, ReadExitStatus, OneLogger!Outcome, OneLogger!Readable
  <2>3. QED
    BY <2>1, <2>2 DEF Life, OneLogger!PublishFinal
<1>11. QED
  BY <1>3, <1>4, <1>5, <1>6, <1>7, <1>8, <1>9, <1>10, SeenFromItsNode DEF OwnStep

(* Every logger of the region, whatever is sent to it and whatever fails,  *)
(* lives, reads the exit status and replaces its summary file as           *)
(* LoggerContract allows: the contract that NodeLogger_proofs shows the    *)
(* process itself to keep.                                                 *)
THEOREM RegionKeepsContract == Spec => LoggersKeepContract
<1>1. Init => \A n \in Nodes : OneLogger(n)!Init
  BY DEF Init, NoSummary, Life, OneLogger!Init
<1>2. Inductive /\ Reading /\ [Next]_vars =>
        [\A n \in Nodes :
           [OneLogger(n)!Next]_<<Life(n), found[n], file[n], exitFile>>]_vars
  BY LoggerImplements
<1>3. QED
  BY <1>1, <1>2, AlwaysInductive, AlwaysReading, PTL DEF Spec, LoggersKeepContract

(* And the other way round: whatever step the contract lets a launched     *)
(* logger take, the region has, as an action that leaves everything else   *)
(* alone.  So what is proved of the region misses nothing that a process   *)
(* within the contract could do.                                           *)
THEOREM RegionAllowsContract ==
  ASSUME TypeOK, {"giveup", "crash"} \subseteq Faults,
         NEW n \in Nodes, logger[n] # "off", OneLogger(n)!Step,
         logger' = [logger EXCEPT ![n] = logger'[n]],
         found' = [found EXCEPT ![n] = found'[n]],
         file' = [file EXCEPT ![n] = file'[n]],
         UNCHANGED <<shell, told, launcher, signals, merge>>
  PROVE  Next
<1>1. ProcessesOK
  BY DEF TypeOK
<1>2. /\ Life(n) = logger[n]
      /\ Life(n)' = IF logger'[n] = "off" THEN "launched" ELSE logger'[n]
  BY DEF Life
<1>3. /\ logger'[n] = logger[n] => UNCHANGED logger
      /\ found'[n] = found[n] => UNCHANGED found
      /\ file'[n] = file[n] => UNCHANGED file
  <2>1. ASSUME NEW f, NEW g, NEW S, f \in [Nodes -> S], g = [f EXCEPT ![n] = g[n]],
               g[n] = f[n]
        PROVE  g = f
    BY <2>1
  <2>2. logger'[n] = logger[n] => UNCHANGED logger
    BY <1>1, <2>1 DEF ProcessesOK
  <2>3. found'[n] = found[n] => UNCHANGED found
    BY <1>1, <2>1 DEF ProcessesOK
  <2>4. file'[n] = file[n] => UNCHANGED file
    BY <1>1, <2>1 DEF ProcessesOK
  <2>5. QED
    BY <2>2, <2>3, <2>4
<1>4. CASE OneLogger(n)!Start
  <2>1. LoggerStarts(n)
    BY <1>2, <1>3, <1>4 DEF OneLogger!Start, LoggerStarts
  <2>2. QED
    BY <2>1, Zenon DEF LoggerStep, Next
<1>5. CASE OneLogger(n)!PublishCheckpoint
  <2>1. CheckpointWritten(n)
    BY <1>2, <1>3, <1>5 DEF OneLogger!PublishCheckpoint, CheckpointWritten
  <2>2. QED
    BY <2>1, Zenon DEF Next
<1>6. CASE OneLogger(n)!LeaveLoop
  <2>1. LoggerGivesUp(n)
    BY <1>2, <1>3, <1>6 DEF OneLogger!LeaveLoop, LoggerGivesUp
  <2>2. QED
    BY <2>1, Zenon DEF Trouble, Next
<1>7. CASE OneLogger(n)!ReadStatus
  <2>1. LoggerReads(n)
    BY <1>2, <1>3, <1>7 DEF OneLogger!ReadStatus, OneLogger!Readable, LoggerReads,
       ReadExitStatus
  <2>2. QED
    BY <2>1, Zenon DEF LoggerStep, Next
<1>8. CASE OneLogger(n)!PublishFinal
  <2>1. StatusForFinal(n) = OneLogger(n)!Outcome
    BY DEF StatusForFinal, ReadExitStatus, OneLogger!Outcome, OneLogger!Readable
  <2>2. LoggerPublishes(n)
    BY <1>2, <1>3, <1>8, <2>1 DEF OneLogger!PublishFinal, LoggerPublishes,
       FinalSummary, Gone
  <2>3. QED
    BY <2>2, Zenon DEF LoggerStep, Next
<1>9. CASE OneLogger(n)!Stop
  <2>1. LoggerCrashes(n)
    BY <1>2, <1>3, <1>9 DEF OneLogger!Stop, LoggerCrashes, Gone
  <2>2. QED
    BY <2>1, Zenon DEF Trouble, Next
<1>10. QED
  BY <1>4, <1>5, <1>6, <1>7, <1>8, <1>9 DEF OneLogger!Step
-----------------------------------------------------------------------------
(* A region in which nothing is lost: every logger starts and is launched, *)
(* none is killed, every write succeeds, and the remote ones need less     *)
(* time than the shorter wait gives them.  They may still give up.         *)
NothingLost == Faults \subseteq {"giveup"} /\ PollSecs < HurriedSecs

Regular == active \/ script = "check" \/ script \in Stopping

(* Nobody is signalled but the local logger, by telemetry_stop.            *)
Unsignalled ==
  /\ warned = "no" /\ pending = {}
  /\ script \in {"start", "check", "work", "record", "write", "signal"} => told = {}

(* A logger or launcher that has gone has done all it had to.              *)
NoneLost ==
  /\ (active \/ script \in {"record", "write", "signal"}) =>
       logger[Local] # "launched"
  /\ Regular => /\ \A n \in Nodes : logger[n] # "off"
                /\ \A r \in Remotes : launcher[r] # "none"
  /\ \A r \in Remotes : launcher[r] = "gone" => logger[r] = "gone"
  /\ \A n \in Nodes : logger[n] = "gone" => file[n].kind = "final"

(* The wait ends only when all have; then every summary is read.           *)
AllAwaited ==
  /\ script = "poll" => waited <= PollSecs
  /\ script \in {"join", "list", "read", "cleanup"} => LaunchersGone
  /\ script = "read" => listed = Nodes
  /\ \A n \in Nodes : seen[n].kind # "partial"
  /\ WaitIsEnough

Undisturbed == Unsignalled /\ NoneLost /\ AllAwaited

LEMMA InitiallyUndisturbed == Init => Undisturbed
  BY DEF Init, NoSummary, NoMerge, Undisturbed, Unsignalled, NoneLost, Regular,
     Stopping, AllAwaited, WaitIsEnough

(* By the time the summaries are looked for, they are all final.           *)
LEMMA AllFinal ==
  ASSUME Inductive, Undisturbed, script \in {"list", "read", "cleanup"}
  PROVE  \A n \in Nodes : logger[n] = "gone" /\ file[n].kind = "final"
<1>1. /\ launcher \in [Remotes -> {"none", "up", "gone"}]
      /\ logger[Local] = "gone"
  BY DEF Inductive, TypeOK, ProcessesOK, Begun
<1>2. \A r \in Remotes : logger[r] = "gone"
  BY <1>1 DEF Undisturbed, AllAwaited, NoneLost, LaunchersGone, Regular, Stopping
<1>3. QED
  BY <1>1, <1>2 DEF Undisturbed, NoneLost, Remotes

LEMMA ShellUndisturbed ==
  ASSUME Inductive, NothingLost, Undisturbed,
         TelemetryStart \/ WorkloadEnds \/ TelemetryStop
  PROVE  Undisturbed'
<1> USE DEF NothingLost, Undisturbed, Unsignalled, NoneLost, AllAwaited, Regular,
     Stopping, WaitIsEnough, LaunchersGone, processes, signals, merge, shell
<1>1. /\ waited \in Nat /\ Wait \in {HurriedSecs, WaitSecs}
      /\ launcher \in [Remotes -> {"none", "up", "gone"}]
      /\ logger \in [Nodes -> {"off", "launched", "up", "ending", "gone"}]
      /\ Local \in Nodes /\ Remotes \subseteq Nodes
  BY NodesAssumption DEF Inductive, TypeOK, ShellOK, ProcessesOK, Wait, Remotes
<1>2. CASE StartUnavailable
  BY <1>2 DEF StartUnavailable
<1>3. CASE Launch
  <2>1. PICK S \in SUBSET Remotes :
          /\ S = Remotes
          /\ logger' = [n \in Nodes |-> IF n \in S \union {Local} THEN "launched"
                                        ELSE "off"]
          /\ launcher' = [r \in Remotes |-> IF r \in S THEN "up" ELSE "none"]
    BY <1>3 DEF Launch
  <2>2. /\ \A n \in Nodes : logger'[n] = "launched"
        /\ \A r \in Remotes : launcher'[r] = "up"
    BY <2>1 DEF Remotes
  <2>3. ~active /\ script = "start" /\ script' = "check"
        /\ UNCHANGED <<active, waited, told, file, signals, merge>>
    BY <1>1, <1>3 DEF Launch, Inductive, Begun, Quiet
  <2>4. QED
    BY <1>1, <2>2, <2>3
<1>4. CASE StartFinds \/ StartFindsNothing
  BY <1>4, <1>1 DEF StartFinds, StartFindsNothing
<1>5. CASE WorkloadEnds
  BY <1>5, <1>1 DEF WorkloadEnds, StopWith
<1>6. CASE CreateExitFile \/ WriteExitFile
  BY <1>6, <1>1 DEF CreateExitFile, WriteExitFile
<1>7. CASE TermLocal
  <2>1. logger[Local] \in {"up", "ending", "gone"} /\ told = {}
    BY <1>1, <1>7 DEF TermLocal
  <2>2. logger' = logger
    BY <1>1, <1>7, <2>1 DEF TermLocal, Signalled, Gone
  <2>3. QED
    BY <1>1, <1>7, <2>2 DEF TermLocal
<1>8. CASE WaitLocal
  BY <1>8, <1>1, TimeAssumption DEF WaitLocal
<1>9. CASE Second
  BY <1>9, <1>1, TimeAssumption DEF Second
<1>10. CASE WaitOver
  <2>1. LaunchersGone
    BY <1>10, <1>1, TimeAssumption DEF WaitOver, SecondsLeft
  <2>2. QED
    BY <1>10, <1>1, <2>1 DEF WaitOver
<1>11. CASE Joined
  BY <1>11, <1>1 DEF Joined
<1>12. CASE MergeLists
  <2>1. \A n \in Nodes : file[n].kind = "final"
    BY <1>12, AllFinal DEF MergeLists
  <2>2. listed' = Nodes
    BY <1>12, <2>1 DEF MergeLists
  <2>3. QED
    BY <1>12, <1>1, <2>2 DEF MergeLists
<1>13. ASSUME NEW n \in Nodes, MergeReads(n)
       PROVE  Undisturbed'
  <2>1. file[n].kind = "final" /\ seen \in [Nodes -> Summary]
    BY <1>13, AllFinal DEF MergeReads, Inductive, TypeOK, MergeOK
  <2>2. \A m \in Nodes : seen'[m].kind # "partial"
    BY <1>13, <2>1 DEF MergeReads
  <2>3. QED
    BY <1>13, <1>1, <2>2 DEF MergeReads
<1>14. CASE MergePublishes
  BY <1>14, <1>1 DEF MergePublishes, Missing, PartialNodes
<1>15. CASE Cleanup
  BY <1>15, <1>1 DEF Cleanup
<1>16. QED
  BY <1>2, <1>3, <1>4, <1>5, <1>6, <1>7, <1>8, <1>9, <1>10, <1>11, <1>12, <1>13,
     <1>14, <1>15 DEF TelemetryStart, TelemetryStop

LEMMA ProcessesUndisturbed ==
  ASSUME Inductive, NothingLost, Undisturbed,
         \/ \E n \in Nodes : LoggerStep(n) \/ CheckpointWritten(n)
         \/ \E r \in Remotes : LauncherStep(r)
         \/ Trouble
  PROVE  Undisturbed'
<1> USE DEF NothingLost, Undisturbed, Unsignalled, NoneLost, AllAwaited, Regular,
     WaitIsEnough, LaunchersGone, processes, signals, merge, shell
<1>1. /\ launcher \in [Remotes -> {"none", "up", "gone"}]
      /\ logger \in [Nodes -> {"off", "launched", "up", "ending", "gone"}]
      /\ file \in [Nodes -> Summary]
      /\ Local \in Nodes /\ Remotes \subseteq Nodes
  BY NodesAssumption DEF Inductive, TypeOK, ProcessesOK, Remotes
<1>2. ASSUME NEW n \in Nodes, LoggerStarts(n) \/ LoggerStops(n) \/ LoggerGivesUp(n)
      PROVE  Undisturbed'
  BY <1>1, <1>2 DEF LoggerStarts, LoggerStops, LoggerGivesUp
<1>3. ASSUME NEW n \in Nodes, LoggerReads(n) \/ LoggerPublishes(n) \/ LoggerReturns(n)
      PROVE  Undisturbed'
  <2>1. /\ logger[n] = "ending" /\ logger' \in {logger, [logger EXCEPT ![n] = "gone"]}
        /\ file' \in {file, [file EXCEPT ![n] = FinalSummary(n)]}
        /\ logger' = logger \/ file' # file \/ file[n].kind = "final"
        /\ UNCHANGED <<shell, told, launcher, signals, merge>>
    BY <1>1, <1>3 DEF LoggerReads, LoggerPublishes, LoggerReturns, Gone, FinalSummary
  <2>2. \A m \in Nodes : logger'[m] = "gone" => file'[m].kind = "final"
    BY <1>1, <2>1 DEF FinalSummary
  <2>3. QED
    BY <1>1, <2>1, <2>2
<1>4. ASSUME NEW n \in Nodes, CheckpointWritten(n)
      PROVE  Undisturbed'
  BY <1>1, <1>4 DEF CheckpointWritten
<1>5. ASSUME NEW r \in Remotes, LauncherStep(r)
      PROVE  Undisturbed'
  BY <1>1, <1>5 DEF LauncherStep, LauncherReturns, LauncherKilled, LauncherTermed
<1>6. CASE Trouble
  BY <1>2, <1>6 DEF Trouble, LoggerStartFails, LoggerCrashes, SchedulerTerm,
     TermReachesLogger, TermReachesScript, ScriptKilled
<1>7. QED
  BY <1>2, <1>3, <1>4, <1>5, <1>6 DEF LoggerStep

LEMMA AlwaysUndisturbed ==
  ASSUME NothingLost
  PROVE  Spec => []Undisturbed
<1>1. Inductive /\ Undisturbed /\ [Next]_vars => Undisturbed'
  <2>1. UNCHANGED vars => (Undisturbed => Undisturbed')
    BY DEF vars, shell, processes, signals, merge, Undisturbed, Unsignalled,
       NoneLost, AllAwaited, Regular, WaitIsEnough, LaunchersGone
  <2>2. QED
    BY <2>1, ShellUndisturbed, ProcessesUndisturbed DEF Next, Ended
<1>2. QED
  BY <1>1, InitiallyUndisturbed, AlwaysInductive, PTL DEF Spec

(* The waits of telemetry_stop are enough, on any number of nodes, for any *)
(* statuses and any two waits longer than the loggers' next look: the      *)
(* merge misses no node and no final summary, although it counts on        *)
(* nothing but the seconds it waited.                                      *)
THEOREM WaitSuffices ==
  ASSUME NothingLost
  PROVE  Spec => []WaitIsEnough
<1>1. Undisturbed => WaitIsEnough
  BY DEF Undisturbed, AllAwaited
<1>2. QED
  BY <1>1, AlwaysUndisturbed, PTL

(* In such a region no logger, on any node, is left by the time the merge  *)
(* begins, nor when the file that told them to stop is removed again.      *)
THEOREM NobodyIsLeft ==
  ASSUME NothingLost
  PROVE  Spec => [](script \in {"list", "read", "cleanup"} =>
                      \A n \in Nodes : logger[n] = "gone")
<1>1. Inductive /\ Undisturbed =>
        (script \in {"list", "read", "cleanup"} => \A n \in Nodes : logger[n] = "gone")
  BY AllFinal
<1>2. QED
  BY <1>1, AlwaysInductive, AlwaysUndisturbed, PTL
-----------------------------------------------------------------------------
(* What the script does, and what everybody else leaves to it.             *)
ByScript ==
  TelemetryStart \/ WorkloadEnds \/ TelemetryStop \/ TermReachesScript \/ ScriptKilled

LEMMA OnlyTheScript ==
  ASSUME [Next]_vars, ~ByScript
  PROVE  UNCHANGED <<shell, merge>>
<1>1. CASE UNCHANGED vars \/ Ended
  BY <1>1 DEF Ended, vars
<1>2. ASSUME NEW n \in Nodes, LoggerStep(n) \/ CheckpointWritten(n)
      PROVE  UNCHANGED <<shell, merge>>
  BY <1>2 DEF LoggerStep, LoggerStarts, LoggerStops, LoggerReads, LoggerPublishes,
     LoggerReturns, CheckpointWritten
<1>3. ASSUME NEW r \in Remotes, LauncherStep(r)
      PROVE  UNCHANGED <<shell, merge>>
  BY <1>3 DEF LauncherStep, LauncherReturns, LauncherKilled
<1>4. CASE Trouble
  BY <1>4 DEF ByScript, Trouble, LoggerStartFails, LoggerGivesUp, LoggerCrashes,
     SchedulerTerm, TermReachesLogger
<1>5. QED
  BY <1>1, <1>2, <1>3, <1>4 DEF ByScript, Next

(* No step takes back a signal, or a logger that runs to before its start. *)
LEMMA SignalStays ==
  ASSUME Inductive, [Next]_vars, NEW n \in Nodes, logger[n] \in {"up", "ending"}
  PROVE  /\ logger'[n] \in {"up", "ending", "gone"}
         /\ n \in told => n \in told'
<1>1. logger \in [Nodes -> {"off", "launched", "up", "ending", "gone"}]
  BY DEF Inductive, TypeOK, ProcessesOK
<1>2. ~Launch
  BY DEF Launch, Inductive, Begun, Quiet
<1>3. ASSUME NEW m \in Nodes, Signalled(m)
      PROVE  /\ logger'[n] \in {"up", "ending", "gone"}
             /\ n \in told => n \in told'
  BY <1>1, <1>3 DEF Signalled, Gone
<1>4. ASSUME NEW m \in Nodes, NEW now \in {"up", "ending", "gone"},
             logger' = [logger EXCEPT ![m] = now]
      PROVE  logger'[n] \in {"up", "ending", "gone"}
  BY <1>1, <1>4
<1>5. QED
  BY <1>2, <1>3, <1>4, LoggerMoves

(* Three more facts that every step keeps: a summary that was found stays  *)
(* there to be read, what was published stays published, and the wait for  *)
(* the local logger has a reason to end.                                   *)
Found ==
  /\ \A n \in listed : file[n] # NoSummary
  /\ script = "read" => (Local \in listed <=> file[Local] # NoSummary)
Published == merged.done => script \in {"cleanup", "done", "killed"}
Lasting == Found /\ Published /\ NeverWaitsInVain

LEMMA InitiallyLasting == Init => Lasting
  BY DEF Init, NoMerge, Lasting, Found, Published, NeverWaitsInVain

LEMMA FoundStays ==
  ASSUME Inductive, Found, [Next]_vars
  PROVE  Found'
<1>1. \A n \in Nodes : file[n] # NoSummary => file'[n] # NoSummary
  <2>1. SUFFICES ASSUME NEW n \in Nodes, CheckpointWritten(n) \/ LoggerPublishes(n),
                        file'[n] # file[n]
                 PROVE  file'[n].kind # "none"
    BY OnlyItsLoggerWrites DEF NoSummary
  <2>2. file \in [Nodes -> Summary]
    BY DEF Inductive, TypeOK, ProcessesOK
  <2>3. QED
    BY <2>1, <2>2 DEF CheckpointWritten, LoggerPublishes, FinalSummary
<1>2. script = "read" => file'[Local] = file[Local]
  <2>1. script = "read" => Local \in Nodes /\ logger[Local] = "gone"
    BY NodesAssumption DEF Inductive, Begun
  <2>2. QED
    BY <2>1, OnlyItsLoggerWrites DEF CheckpointWritten, LoggerPublishes
<1>3. CASE UNCHANGED listed /\ (script' = "read" => script = "read")
  BY <1>1, <1>2, <1>3 DEF Found, Inductive, TypeOK, MergeOK
<1>4. CASE MergeLists
  <2>1. Local \in Nodes /\ UNCHANGED file /\ listed' = {n \in Nodes : file[n].kind # "none"}
    BY <1>4, NodesAssumption DEF MergeLists, processes
  <2>2. \A n \in Nodes : file[n].kind = "none" <=> file[n] = NoSummary
    BY DEF Inductive, Files, NoSummary
  <2>3. QED
    BY <2>1, <2>2 DEF Found
<1>5. (UNCHANGED listed /\ (script' = "read" => script = "read")) \/ MergeLists
  <2>1. CASE ~ByScript
    BY <2>1, OnlyTheScript DEF shell, merge
  <2>2. CASE TelemetryStart \/ WorkloadEnds \/ TermReachesScript \/ ScriptKilled
    BY <2>2 DEF TelemetryStart, StartUnavailable, Launch, StartFinds, StartFindsNothing,
       WorkloadEnds, StopWith, TermReachesScript, ScriptKilled, merge
  <2>3. CASE TelemetryStop
    BY <2>3 DEF TelemetryStop, CreateExitFile, WriteExitFile, TermLocal, WaitLocal,
       Second, WaitOver, Joined, MergeReads, MergePublishes, Cleanup, shell, merge
  <2>4. QED
    BY <2>1, <2>2, <2>3 DEF ByScript
<1>6. QED
  BY <1>3, <1>4, <1>5

LEMMA PublishedStays ==
  ASSUME Published, [Next]_vars
  PROVE  Published'
<1>1. CASE ~ByScript
  BY <1>1, OnlyTheScript DEF Published, shell, merge
<1>2. CASE TelemetryStart \/ WorkloadEnds
  BY <1>2 DEF Published, TelemetryStart, StartUnavailable, Launch, StartFinds,
     StartFindsNothing, WorkloadEnds, merge
<1>3. CASE TelemetryStop
  BY <1>3 DEF Published, TelemetryStop, CreateExitFile, WriteExitFile, TermLocal,
     WaitLocal, Second, WaitOver, Joined, MergeLists, MergeReads, MergePublishes,
     Cleanup, shell, merge
<1>4. CASE TermReachesScript \/ ScriptKilled
  BY <1>4 DEF Published, TermReachesScript, TrapSet, ScriptKilled, merge
<1>5. QED
  BY <1>1, <1>2, <1>3, <1>4 DEF ByScript

LEMMA NotInVainStays ==
  ASSUME Inductive, NeverWaitsInVain, [Next]_vars
  PROVE  NeverWaitsInVain'
<1>1. Local \in Nodes /\ logger \in [Nodes -> {"off", "launched", "up", "ending", "gone"}]
  BY NodesAssumption DEF Inductive, TypeOK, ProcessesOK
<1>2. CASE TermLocal
  <2>1. Signalled(Local) /\ logger[Local] # "off"
    BY <1>2 DEF TermLocal, Inductive, Begun, Stopping
  <2>2. QED
    BY <1>1, <2>1 DEF Signalled, Gone, NeverWaitsInVain
<1>3. CASE script = "waitlocal"
  BY <1>1, <1>3, SignalStays, NoLoggerRevives DEF NeverWaitsInVain
<1>4. script' = "waitlocal" => script = "waitlocal" \/ TermLocal
  BY OnlyTheScript DEF ByScript, TelemetryStart, StartUnavailable, Launch, StartFinds,
     StartFindsNothing, WorkloadEnds, StopWith, TelemetryStop, CreateExitFile,
     WriteExitFile, WaitLocal, Second, WaitOver, Joined, MergeLists, MergeReads,
     MergePublishes, Cleanup, TermReachesScript, ScriptKilled, shell
<1>5. QED
  BY <1>2, <1>3, <1>4 DEF NeverWaitsInVain

LEMMA AlwaysLasting == Spec => []Lasting
<1>1. Inductive /\ Lasting /\ [Next]_vars => Lasting'
  BY FoundStays, PublishedStays, NotInVainStays DEF Lasting
<1>2. QED
  BY <1>1, InitiallyLasting, AlwaysInductive, PTL DEF Spec

(* The unlimited wait for the local logger is for one that has gone or has *)
(* a signal it cannot lose, whoever signalled it and at whatever moment.   *)
THEOREM WaitHasAReason == Spec => []NeverWaitsInVain
<1>1. Lasting => NeverWaitsInVain
  BY DEF Lasting
<1>2. QED
  BY AlwaysLasting, <1>1, PTL
-----------------------------------------------------------------------------
(* Where the steps of telemetry_stop lead.                                 *)
LEMMA StageIs ==
  /\ Stage["record"] = 1 /\ Stage["write"] = 2 /\ Stage["signal"] = 3
  /\ Stage["waitlocal"] = 4 /\ Stage["poll"] = 5 /\ Stage["join"] = 6
  /\ Stage["list"] = 7 /\ Stage["read"] = 8 /\ Stage["cleanup"] = 9
  /\ Stage["done"] = 10 /\ Stage["killed"] = 10
  BY DEF Stage, Scripts, Stopping

LEMMA ReadingAdvances ==
  ASSUME Inductive, Found, NEW n \in Nodes, MergeReads(n)
  PROVE  Advances
<1>1. /\ script = "read" /\ UNCHANGED <<script, listed>>
      /\ n \in listed /\ seen[n] = NoSummary
      /\ seen' = [seen EXCEPT ![n] = file[n]]
  BY DEF MergeReads, shell
<1>2. seen'[n] # NoSummary /\ \A m \in Nodes \ {n} : seen'[m] = seen[m]
  BY <1>1 DEF Found, Inductive, TypeOK, MergeOK
<1>3. n \in Unread /\ n \notin Unread'
  BY <1>1, <1>2 DEF Unread
<1>4. Unread' \subseteq Unread
  BY <1>1, <1>2 DEF Unread, Inductive, TypeOK, MergeOK
<1>5. QED
  BY <1>1, <1>3, <1>4 DEF Advances

LEMMA StopAdvances ==
  ASSUME Inductive, Found, TelemetryStop
  PROVE  Advances
<1>1. CASE Second
  <2>1. waited \in Nat /\ Wait \in Nat
    BY TimeAssumption DEF Inductive, TypeOK, ShellOK, Wait
  <2>2. QED
    BY <1>1, <2>1 DEF Second, SecondsLeft, Advances
<1>2. CASE CreateExitFile \/ WriteExitFile \/ TermLocal \/ WaitLocal
  BY <1>2, StageIs DEF CreateExitFile, WriteExitFile, TermLocal, WaitLocal, Advances
<1>3. CASE WaitOver \/ Joined \/ MergePublishes \/ Cleanup
  BY <1>3, StageIs DEF WaitOver, Joined, MergePublishes, Cleanup, Advances
<1>4. CASE MergeLists
  BY <1>4, StageIs DEF MergeLists, Advances
<1>5. QED
  BY <1>1, <1>2, <1>3, <1>4, ReadingAdvances DEF TelemetryStop

LEMMA NothingSetsBack ==
  ASSUME Inductive, Found, [Next]_vars, script \in Stopping
  PROVE  Advances \/ UNCHANGED <<script, status, waited, listed, seen>>
<1>1. CASE ~ByScript
  BY <1>1, OnlyTheScript DEF shell, merge
<1>2. CASE TermReachesScript \/ ScriptKilled
  <2>1. script' = "killed"
    BY <1>2 DEF TermReachesScript, TrapSet, ScriptKilled, Stopping
  <2>2. QED
    BY <2>1, StageIs DEF Stopping, Advances
<1>3. ~TelemetryStart /\ ~WorkloadEnds
  BY DEF TelemetryStart, StartUnavailable, Launch, StartFinds, StartFindsNothing,
     WorkloadEnds, Stopping
<1>4. QED
  BY <1>1, <1>2, <1>3, StopAdvances DEF ByScript

(* Everything telemetry_stop does takes it nearer to its end, in stages,   *)
(* seconds and summaries of which there are finitely many, and nothing     *)
(* that others do sets it back, for any number of nodes and any waits.     *)
THEOREM StopAlwaysForward == Spec => StopGoesForward
<1>1. Inductive /\ Lasting /\ [Next]_vars =>
        [/\ TelemetryStop => Advances
         /\ script \in Stopping =>
              Advances \/ UNCHANGED <<script, status, waited, listed, seen>>]_vars
  BY StopAdvances, NothingSetsBack DEF Lasting
<1>2. QED
  BY <1>1, AlwaysInductive, AlwaysLasting, PTL DEF Spec, StopGoesForward
-----------------------------------------------------------------------------
(* The region implements JobReport.                                        *)
reported == <<ScriptState, status, FinalNodes,
              [done |-> merged.done, exit |-> merged.exit, complete |-> Complete]>>

LEMMA ReportInit == Init => Report!Init
<1> SUFFICES ASSUME Init PROVE Report!Init
  OBVIOUS
<1>1. /\ script = "start" /\ status = Success /\ merged = NoMerge
      /\ \A n \in Nodes : file[n].kind = "none"
  BY DEF Init, NoSummary
<1>2. ScriptState = "running" /\ FinalNodes = {} /\ Complete = {}
  BY <1>1 DEF ScriptState, FinalNodes, Complete, NoMerge
<1>3. QED
  BY <1>1, <1>2, CodesAssumption DEF NoMerge, Report!Init, Report!NoReport

(* A step that publishes nothing may lose the script, and nothing else.    *)
LEMMA ReportFrame ==
  ASSUME UNCHANGED <<status, file, merged>>, ScriptState' \in {ScriptState, "killed"}
  PROVE  [Report!Next]_reported
<1>1. UNCHANGED <<FinalNodes, Complete>>
  BY DEF FinalNodes, Complete
<1>2. QED
  BY <1>1 DEF reported, Report!Next, Report!LoseScript

(* The first call of telemetry_stop ends the workload, for good.           *)
LEMMA ReportStop ==
  ASSUME Inductive, script = "work", NEW given \in Codes, StopWith(given),
         UNCHANGED <<file, merged>>
  PROVE  Report!EndWorkload
<1>1. ScriptState = "running" /\ ScriptState' = "ended"
  BY DEF StopWith, ScriptState
<1>2. UNCHANGED <<FinalNodes, Complete>>
  BY DEF FinalNodes, Complete
<1>3. QED
  BY <1>1, <1>2 DEF StopWith, Report!EndWorkload

LEMMA ReportFinishes ==
  ASSUME Inductive, NEW n \in Nodes, LoggerPublishes(n) \/ CheckpointWritten(n)
  PROVE  [Report!Next]_reported
<1>1. UNCHANGED <<script, status, merged>> /\ file \in [Nodes -> Summary]
      /\ file[n].kind # "final"
  BY DEF LoggerPublishes, CheckpointWritten, shell, merge, Inductive, TypeOK,
     ProcessesOK, Files
<1>2. UNCHANGED <<ScriptState, Complete>>
  BY <1>1 DEF ScriptState, Complete
<1>3. FinalNodes' \in {FinalNodes, FinalNodes \union {n}} /\ n \notin FinalNodes
  <2>1. \A m \in Nodes \ {n} : file'[m] = file[m]
    BY <1>1 DEF LoggerPublishes, CheckpointWritten
  <2>2. n \notin FinalNodes /\ FinalNodes' \ {n} = FinalNodes
    BY <1>1, <2>1 DEF FinalNodes
  <2>3. QED
    BY <2>2
<1>4. merged.done => n # Local
  BY DEF Inductive, Merging, LoggerPublishes, CheckpointWritten
<1>5. n \in Nodes \ FinalNodes /\ UNCHANGED <<ScriptState, status, merged, Complete>>
  BY <1>1, <1>2, <1>3
<1>6. QED
  BY <1>3, <1>4, <1>5 DEF reported, Report!Next, Report!LeaveFinal

LEMMA ReportPublishes ==
  ASSUME Inductive, Found, Published, HonestMerge', OutcomeIsReal', MergePublishes
  PROVE  Report!Publish
<1>1. /\ script = "read" /\ script' = "cleanup" /\ ~merged.done /\ merged'.done = TRUE
      /\ UNCHANGED <<status, file>>
  BY DEF MergePublishes, Published, Inductive, TypeOK, MergeOK, processes
<1>2. ScriptState = "ended" /\ ScriptState' = "ended" /\ UNCHANGED FinalNodes
  BY <1>1 DEF ScriptState, FinalNodes
<1>3. merged'.exit \in {status, None}
  BY <1>1 DEF OutcomeIsReal
<1>4. Complete' \in SUBSET FinalNodes
  BY <1>1, <1>2 DEF Complete, HonestMerge, FinalNodes
<1>5. Local \in FinalNodes => Local \in Complete'
  <2>1. SUFFICES ASSUME Local \in Nodes, file[Local].kind = "final"
                 PROVE  Local \in Complete'
    BY DEF FinalNodes
  <2>2. Local \in listed /\ seen[Local] # NoSummary
    BY <1>1, <2>1 DEF Found, MergePublishes, NoSummary
  <2>3. seen[Local].kind = "final"
    BY <2>1, <2>2 DEF Inductive, Files
  <2>4. merged'.missing = Missing(Nodes, listed) /\ merged'.partial = PartialNodes
    BY DEF MergePublishes
  <2>5. QED
    BY <1>1, <2>1, <2>2, <2>3, <2>4 DEF Complete, Missing, PartialNodes
<1>6. [done |-> merged.done, exit |-> merged.exit, complete |-> Complete]'
        = [done |-> TRUE, exit |-> merged'.exit, complete |-> Complete']
  BY <1>1
<1>7. QED
  BY <1>1, <1>2, <1>3, <1>4, <1>5, <1>6 DEF Report!Publish

LEMMA ReportNext ==
  ASSUME Inductive, Found, Published, HonestMerge', OutcomeIsReal', [Next]_vars
  PROVE  [Report!Next]_reported
<1>1. CASE MergePublishes
  BY <1>1, ReportPublishes DEF Report!Next
<1>2. CASE WorkloadEnds
  BY <1>2, ReportStop DEF WorkloadEnds, processes, merge, Report!Next
<1>3. CASE TermReachesScript
  <2>1. CASE TrapSet
    BY <1>3, <2>1, ReportStop, CodesAssumption DEF TermReachesScript, TrapSet,
       processes, merge, Report!Next
  <2>2. CASE ~TrapSet
    <3>1. UNCHANGED <<status, file, merged>> /\ script' \in {script, "killed"}
      BY <1>3, <2>2 DEF TermReachesScript, processes, merge
    <3>2. ScriptState' \in {ScriptState, "killed"}
      BY <3>1 DEF ScriptState
    <3>3. QED
      BY <3>1, <3>2, ReportFrame
  <2>3. QED
    BY <2>1, <2>2
<1>4. CASE ScriptKilled
  <2>1. UNCHANGED <<status, file, merged>> /\ ScriptState' = "killed"
    BY <1>4 DEF ScriptKilled, ScriptState, processes, merge
  <2>2. QED
    BY <2>1, ReportFrame
<1>5. CASE TelemetryStart
  <2>1. /\ UNCHANGED <<status, file, merged>>
        /\ script \in {"start", "check"} /\ script' \in {"check", "work"}
    BY <1>5 DEF TelemetryStart, StartUnavailable, Launch, StartFinds, StartFindsNothing,
       processes, merge
  <2>2. ScriptState' = ScriptState
    BY <2>1 DEF ScriptState
  <2>3. QED
    BY <2>1, <2>2, ReportFrame
<1>6. CASE TelemetryStop /\ ~MergePublishes
  <2>1. /\ UNCHANGED <<status, file, merged>>
        /\ script \in Stopping /\ script' \in Stopping \union {"done"}
    BY <1>6 DEF TelemetryStop, CreateExitFile, WriteExitFile, TermLocal, WaitLocal,
       Second, WaitOver, Joined, MergeLists, MergeReads, Cleanup, Stopping, shell,
       processes, merge
  <2>2. ScriptState' = ScriptState
    BY <2>1 DEF ScriptState, Stopping
  <2>3. QED
    BY <2>1, <2>2, ReportFrame
<1>7. CASE ~ByScript
  <2>1. UNCHANGED <<script, status, merged>>
    BY <1>7, OnlyTheScript DEF shell, merge
  <2>2. CASE UNCHANGED file
    BY <2>1, <2>2, ReportFrame DEF ScriptState
  <2>3. file \in [Nodes -> Summary] /\ file' \in [Nodes -> Summary]
    BY Preserved DEF Inductive, TypeOK, ProcessesOK
  <2>4. UNCHANGED file \/ \E n \in Nodes : LoggerPublishes(n) \/ CheckpointWritten(n)
    BY <2>3, OnlyItsLoggerWrites
  <2>5. QED
    BY <2>2, <2>4, ReportFinishes
<1>8. QED
  BY <1>1, <1>2, <1>3, <1>4, <1>5, <1>6, <1>7 DEF ByScript

(* The region implements JobReport: the job-level summary is published     *)
(* once, after the workload and not by a killed script, with the outcome   *)
(* of the workload and with nobody's checkpoint as a final summary, for    *)
(* any number of nodes, any statuses and whatever goes wrong.              *)
THEOREM RegionKeepsReport == Spec => KeepsReport
<1>1. Inductive /\ Lasting /\ HonestMerge' /\ OutcomeIsReal' /\ [Next]_vars
        => [Report!Next]_reported
  BY ReportNext DEF Lasting
<1>2. QED
  BY <1>1, ReportInit, AlwaysInductive, AlwaysLasting, MergeAlwaysHonest,
     OutcomeAlwaysReal, PTL DEF Spec, KeepsReport, Report!Spec, reported
=============================================================================
