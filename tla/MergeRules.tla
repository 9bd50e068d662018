----------------------------- MODULE MergeRules -----------------------------
(***************************************************************************)
(* The rules of merge.rs that decide what a job-level summary says of the  *)
(* nodes, as operators over a set of positions (the order the summaries    *)
(* were read in) and functions on it.  None is the absent exit status.     *)
(***************************************************************************)
EXTENDS Integers

CONSTANTS None, Success

Least(S) == CHOOSE i \in S : \A j \in S : i <= j

(* The positions with a status other than success.                         *)
Failed(nodes, exit) == {i \in nodes : exit[i] \notin {Success, None}}

(* merge_exit_status: the first failure, else unknown if anyone's is, else *)
(* success.                                                                *)
MergedExit(nodes, exit) ==
  IF Failed(nodes, exit) # {} THEN exit[Least(Failed(nodes, exit))]
  ELSE IF \E i \in nodes : exit[i] = None THEN None
  ELSE Success

(* nodes_missing: expected and not heard from.                             *)
Missing(expected, reporting) == expected \ reporting
=============================================================================
