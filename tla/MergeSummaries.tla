--------------------------- MODULE MergeSummaries ---------------------------
(***************************************************************************)
(* merge_summaries and merge_exit_status of merge.rs as the loops they     *)
(* are: one pass over the per-node summaries that accumulates, then a      *)
(* second that looks for the outcome, then the job-level document.         *)
(***************************************************************************)
EXTENDS MergeRules

CONSTANTS
  Hosts,      \* hostnames
  Codes,      \* exit statuses, Success among them
  MaxU64,     \* where saturating_add stops
  Usages,     \* memory figures a summary can have
  MaxNodes    \* bound: summaries in one merge

ASSUME CodesAssumption == Success \in Codes /\ None \notin Codes
ASSUME UsageAssumption ==
  MaxU64 \in Nat /\ Usages \subseteq 0..MaxU64 /\ MaxNodes \in Nat

VARIABLES
  summaries,   \* the input, in the order the files were found
  expected,    \* the allocation, {} when it is not known
  phase,       \* which loop is running
  next,        \* position the loop looks at next
  reporting,   \* hosts seen
  peakMax, peakSum,     \* mem_peak_max, mem_peak_sum
  instant,     \* history: what the nodes seen used together at one instant
  worst, anyUnknown,    \* merge_exit_status
  merged       \* the result

vars == <<summaries, expected, phase, next, reporting, peakMax, peakSum,
          instant, worst, anyUnknown, merged>>

(* `used` is the node's use at one instant of the job, the same instant    *)
(* for all of them; no summary records it, and it is at most the peak.     *)
Summary == {s \in [host : Hosts, exit : Codes \union {None}, partial : BOOLEAN,
                   peak : Usages, used : Usages] : s.used <= s.peak}

Count == DOMAIN summaries
NoResult == [exit |-> None, missing |-> {}, partial |-> {}, reporting |-> {},
             max |-> 0, sum |-> 0]

Init ==
  /\ \E n \in 0..MaxNodes : summaries \in [1..n -> Summary]
  /\ expected \in SUBSET Hosts
  /\ phase = "start" /\ next = 1
  /\ reporting = {} /\ peakMax = 0 /\ peakSum = 0 /\ instant = 0
  /\ worst = None /\ anyUnknown = FALSE
  /\ merged = NoResult

Loop == <<next, reporting, peakMax, peakSum, instant>>
Outcome == <<worst, anyUnknown>>

(* No summaries: the merge is refused.                                     *)
Refuse ==
  /\ phase = "start" /\ Count = {}
  /\ phase' = "refused"
  /\ UNCHANGED <<summaries, expected, Loop, Outcome, merged>>

Begin ==
  /\ phase = "start" /\ Count # {}
  /\ phase' = "accumulate"
  /\ UNCHANGED <<summaries, expected, Loop, Outcome, merged>>

(* As in NodeLogger, an operator just before another one, named for a slip *)
(* and used by no action, is the wrong code the properties must notice.    *)
WrappingAdd(a, b) == (a + b) % (MaxU64 + 1)
SaturatingAdd(a, b) == IF a + b > MaxU64 THEN MaxU64 ELSE a + b
LastOf(a, b) == b
LargerOf(a, b) == IF a > b THEN a ELSE b

(* One turn of the loop over the summaries.                                *)
Accumulate ==
  /\ phase = "accumulate" /\ next \in Count
  /\ reporting' = reporting \union {summaries[next].host}
  /\ peakMax' = LargerOf(peakMax, summaries[next].peak)
  /\ peakSum' = SaturatingAdd(peakSum, summaries[next].peak)
  /\ instant' = instant + summaries[next].used
  /\ next' = next + 1
  /\ UNCHANGED <<summaries, expected, phase, Outcome, merged>>

Accumulated ==
  /\ phase = "accumulate" /\ next \notin Count
  /\ phase' = "outcome" /\ next' = 1
  /\ UNCHANGED <<summaries, expected, reporting, peakMax, peakSum, instant,
                 Outcome, merged>>

(* One turn of the loop over the outcomes: the first failure is kept.      *)
Judge ==
  /\ phase = "outcome" /\ next \in Count
  /\ LET status == summaries[next].exit IN
       /\ worst' = IF status \in {Success, None} \/ worst # None THEN worst
                   ELSE status
       /\ anyUnknown' = (anyUnknown \/ status = None)
  /\ next' = next + 1
  /\ UNCHANGED <<summaries, expected, phase, reporting, peakMax, peakSum,
                 instant, merged>>

UnknownFirst ==
  IF anyUnknown THEN None ELSE IF worst # None THEN worst ELSE Success
Verdict ==
  IF worst # None THEN worst ELSE IF anyUnknown THEN None ELSE Success

PartialUnlessFinal ==
  {h \in reporting : \A i \in Count : summaries[i].host = h => summaries[i].partial}
PartialHosts == {summaries[i].host : i \in {j \in Count : summaries[j].partial}}

(* Everything has been read: the document.                                 *)
Finish ==
  /\ phase = "outcome" /\ next \notin Count
  /\ phase' = "merged"
  /\ merged' = [exit |-> Verdict, missing |-> Missing(expected, reporting),
                partial |-> PartialHosts, reporting |-> reporting,
                max |-> peakMax, sum |-> peakSum]
  /\ UNCHANGED <<summaries, expected, Loop, Outcome>>

Ended == phase \in {"refused", "merged"} /\ UNCHANGED vars

Next == Refuse \/ Begin \/ Accumulate \/ Accumulated \/ Judge \/ Finish \/ Ended

Spec == Init /\ [][Next]_vars /\ WF_vars(Next)
-----------------------------------------------------------------------------
Phases == {"start", "refused", "accumulate", "outcome", "merged"}
Result == [exit : Codes \union {None}, missing : SUBSET Hosts,
           partial : SUBSET Hosts, reporting : SUBSET Hosts,
           max : 0..MaxU64, sum : 0..MaxU64]

TypeOK ==
  /\ \E n \in 0..MaxNodes : summaries \in [1..n -> Summary]
  /\ expected \subseteq Hosts
  /\ phase \in Phases /\ next \in Nat \ {0}
  /\ reporting \subseteq Hosts
  /\ peakMax \in 0..MaxU64 /\ peakSum \in 0..MaxU64 /\ instant \in Nat
  /\ worst \in Codes \union {None} /\ anyUnknown \in BOOLEAN
  /\ merged \in Result

Exits == [i \in Count |-> summaries[i].exit]
Before(n) == {i \in Count : i < n}

(* "Worst outcome across nodes": any failure wins over unknown, and any    *)
(* unknown over success; of several failures the first one read is named.  *)
WorstOutcome ==
  phase = "merged" => merged.exit = MergedExit(Count, Exits)

(* MergedSummary on peaks: the largest node's peak was reached by a node,  *)
(* and at no instant did the nodes together use more than the sum of their *)
(* peaks (unless that figure has stopped at the largest integer).          *)
PeaksBracket ==
  phase = "merged" =>
    /\ \E i \in Count : merged.max = summaries[i].peak
    /\ \A i \in Count : summaries[i].peak <= merged.max
    /\ merged.max <= merged.sum
    /\ instant <= merged.sum \/ merged.sum = MaxU64

(* A host the document shows as neither missing nor partial has a final    *)
(* summary and no checkpoint among the files that were merged.             *)
CompleteHostsAreFinal ==
  phase = "merged" =>
    \A h \in expected \ (merged.missing \union merged.partial) :
      /\ \E i \in Count : summaries[i].host = h
      /\ \A i \in Count : summaries[i].host = h => ~summaries[i].partial
=============================================================================
