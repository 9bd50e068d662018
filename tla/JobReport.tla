------------------------------ MODULE JobReport ------------------------------
(***************************************************************************)
(* What a measured region promises whoever reads the job-level summary:    *)
(* it is published once, after the workload has ended and unless the job   *)
(* script was killed; its outcome, if it names one, is the workload's own; *)
(* a node shown as complete had left its final summary by then, and the    *)
(* node of the script is shown as it will always be.                       *)
(***************************************************************************)
CONSTANTS Nodes, Local, Codes, None

VARIABLES
  state,   \* of the job script: running, ended or killed
  status,  \* what the workload ended with
  final,   \* nodes that have left a final summary
  report   \* the job-level summary, and the nodes it shows as complete

NoReport == [done |-> FALSE, exit |-> None, complete |-> {}]

Init ==
  /\ state = "running" /\ status \in Codes
  /\ final = {} /\ report = NoReport

EndWorkload ==
  /\ state = "running" /\ state' = "ended" /\ status' \in Codes
  /\ UNCHANGED <<final, report>>

(* At any time: a logger may give up early, or, on another node, outlive   *)
(* the wait and the script.                                                *)
LeaveFinal ==
  /\ \E n \in Nodes \ final :
       /\ report.done => n # Local
       /\ final' = final \union {n}
  /\ UNCHANGED <<state, status, report>>

Publish ==
  /\ state = "ended" /\ ~report.done
  /\ \E exit \in {status, None}, complete \in SUBSET final :
       /\ Local \in final => Local \in complete
       /\ report' = [done |-> TRUE, exit |-> exit, complete |-> complete]
  /\ UNCHANGED <<state, status, final>>

LoseScript ==
  /\ state # "killed" /\ state' = "killed"
  /\ UNCHANGED <<status, final, report>>

Next == EndWorkload \/ LeaveFinal \/ Publish \/ LoseScript

Spec == Init /\ [][Next]_<<state, status, final, report>>
=============================================================================
