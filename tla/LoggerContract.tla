--------------------------- MODULE LoggerContract ---------------------------
(***************************************************************************)
(* One logger as the rest of a region can tell it apart, and what it       *)
(* promises to whoever reads its summary file, --merge above all.  While   *)
(* the loop runs the file is replaced by newer checkpoints, which carry no *)
(* outcome; when the loop has ended the exit-status file is read, once and *)
(* possibly long before the one final summary, which has what was read;    *)
(* and a dead process changes nothing.                                     *)
(***************************************************************************)
CONSTANT Codes

VARIABLES
  life,   \* launched, up (its loop runs), ending or gone
  found,  \* the outcome it has read, "unset" before
  file,   \* its summary file
  record  \* the exit-status file: absent, empty or a code

Init ==
  /\ life = "launched" /\ found = "unset"
  /\ file = [kind |-> "none", exit |-> "unset"]
  /\ record \in Codes \union {"absent", "empty"}

Start ==
  /\ life = "launched" /\ life' = "up"
  /\ UNCHANGED <<found, file, record>>

(* A checkpoint replaces anything but a final summary.                     *)
PublishCheckpoint ==
  /\ life = "up"
  /\ file' = [kind |-> "partial", exit |-> "unset"]
  /\ UNCHANGED <<life, found, record>>

LeaveLoop ==
  /\ life = "up" /\ life' = "ending"
  /\ UNCHANGED <<found, file, record>>

(* What can be read now is the outcome unless one has been read before.    *)
Readable == IF record \in Codes THEN record ELSE "unknown"
Outcome == IF found = "unset" THEN Readable ELSE found

ReadStatus ==
  /\ life = "ending" /\ found = "unset" /\ found' = Readable
  /\ UNCHANGED <<life, file, record>>

(* The final summary; Drop writes it as the process goes away.             *)
PublishFinal ==
  /\ life = "ending" /\ file.kind # "final"
  /\ file' = [kind |-> "final", exit |-> Outcome]
  /\ \/ found' = Outcome /\ UNCHANGED life
     \/ life' = "gone" /\ found' = "unset"
  /\ UNCHANGED record

(* A return, a failed start, a second signal or a SIGKILL.                 *)
Stop ==
  /\ life # "gone" /\ life' = "gone" /\ found' = "unset"
  /\ UNCHANGED <<file, record>>

(* The job script creates, fills and removes the exit-status file.         *)
ScriptActs == record' # record /\ UNCHANGED <<life, found, file>>

Step ==
  \/ Start \/ PublishCheckpoint \/ LeaveLoop \/ ReadStatus \/ PublishFinal \/ Stop

Next == Step \/ ScriptActs

Spec == Init /\ [][Next]_<<life, found, file, record>>
=============================================================================
