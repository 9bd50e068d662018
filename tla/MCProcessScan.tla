---------------------------- MODULE MCProcessScan ----------------------------
(* Four pids: the job's script in its cgroup, a child in the step below    *)
(* it, a neighbour's process, and a free one, which any of them may take.  *)
EXTENDS ProcessScan

JobChain == <<"job", "step", "task">>
AtStart ==
  [p \in {1, 3, 4} |->
    CASE p = 1 -> [id |-> 1, parent |-> 0, main |-> TRUE, dir |-> "job"]
      [] p = 3 -> [id |-> 2, parent |-> 1, main |-> TRUE, dir |-> "step"]
      [] p = 4 -> [id |-> 3, parent |-> 0, main |-> TRUE, dir |-> "other"]]
=============================================================================
