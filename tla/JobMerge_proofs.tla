-------------------------- MODULE JobMerge_proofs --------------------------
(***************************************************************************)
(* The merge of any directory, in two parts.                               *)
(*                                                                         *)
(* First the two loops of merge.rs, for every list of summaries, every set *)
(* of exit statuses and every width of integer: before turn n they have    *)
(* the totals and the outcome of the summaries before n.  The sum of peaks *)
(* need not be computed for that: what is carried is that it is no smaller *)
(* than the largest peak and no smaller than any joint use, unless it has  *)
(* stopped at MaxU64.                                                      *)
(*                                                                         *)
(* Then the search before them, for every directory, every manifest and    *)
(* every list of hosts: what it finds is distinct names, what is loaded is *)
(* this job's, each once, and nothing readable is passed over.  The lists  *)
(* never grow past the number of names, so what reaches the loops is an    *)
(* input of MergeSummaries, whose invariant (Inductive, Reports) takes     *)
(* over: its properties hold of the whole merge.                           *)
(***************************************************************************)
EXTENDS JobMerge, FiniteSetTheorems, TLAPS
-----------------------------------------------------------------------------
(* What appending, shortening and listing do to the elements of a list and *)
(* to its having none twice.                                               *)
Distinct(list) == \A i, j \in DOMAIN list : list[i] = list[j] => i = j
InIt(list) == {list[i] : i \in DOMAIN list}

LEMMA CountTo ==
  ASSUME NEW n \in Nat
  PROVE  IsFiniteSet(1..n) /\ Cardinality(1..n) = n
<1>1. IsFiniteSet(1..n) /\ Cardinality(1..n) = IF 1 > n THEN 0 ELSE n - 1 + 1
  BY FS_Interval
<1>2. QED
  BY <1>1

LEMMA Appended ==
  ASSUME NEW S, NEW list \in Seq(S), NEW x \in S
  PROVE  /\ Append(list, x) \in Seq(S)
         /\ InIt(Append(list, x)) = InIt(list) \union {x}
         /\ Distinct(list) /\ x \notin InIt(list) => Distinct(Append(list, x))
<1>1. /\ Append(list, x) \in Seq(S) /\ Len(list) \in Nat
      /\ DOMAIN list = 1..Len(list) /\ DOMAIN Append(list, x) = 1..(Len(list) + 1)
      /\ \A i \in 1..Len(list) : Append(list, x)[i] = list[i]
      /\ Append(list, x)[Len(list) + 1] = x
  OBVIOUS
<1>2. InIt(Append(list, x)) \subseteq InIt(list) \union {x}
  BY <1>1 DEF InIt
<1>3. InIt(list) \union {x} \subseteq InIt(Append(list, x))
  BY <1>1 DEF InIt
<1>4. ASSUME Distinct(list), x \notin InIt(list)
      PROVE  Distinct(Append(list, x))
  BY <1>1, <1>4 DEF InIt, Distinct
<1>5. QED
  BY <1>1, <1>2, <1>3, <1>4

LEMMA Shortened ==
  ASSUME NEW S, NEW list \in Seq(S), list # <<>>, Distinct(list)
  PROVE  /\ Tail(list) \in Seq(S) /\ Distinct(Tail(list))
         /\ Head(list) \in S /\ Head(list) \in InIt(list)
         /\ InIt(Tail(list)) = InIt(list) \ {Head(list)}
<1>1. /\ Len(list) \in Nat \ {0} /\ Head(list) = list[1] /\ Head(list) \in S
      /\ Tail(list) \in Seq(S) /\ Len(Tail(list)) = Len(list) - 1
      /\ \A i \in 1..(Len(list) - 1) : Tail(list)[i] = list[i + 1]
  OBVIOUS
<1>2. Distinct(Tail(list))
  BY <1>1 DEF Distinct
<1>3. InIt(Tail(list)) = InIt(list) \ {Head(list)}
  <2>1. InIt(Tail(list)) \subseteq InIt(list) \ {Head(list)}
    BY <1>1 DEF Distinct, InIt
  <2>2. ASSUME NEW i \in DOMAIN list, list[i] # Head(list)
        PROVE  list[i] \in InIt(Tail(list))
    <3>1. i - 1 \in 1..(Len(list) - 1) /\ Tail(list)[i - 1] = list[i]
      BY <1>1, <2>2
    <3>2. QED
      BY <1>1, <3>1 DEF InIt
  <2>3. QED
    BY <2>1, <2>2 DEF InIt
<1>4. QED
  BY <1>1, <1>2, <1>3 DEF InIt

(* The elements of a finite set in some order: each of them, and once.     *)
LEMMA Listing ==
  ASSUME NEW S, IsFiniteSet(S)
  PROVE  /\ SetToSeq(S) \in [1..Cardinality(S) -> S]
         /\ \A T : S \subseteq T => SetToSeq(S) \in Seq(T)
         /\ Distinct(SetToSeq(S))
         /\ InIt(SetToSeq(S)) = S
<1>1. ExistsBijection(1..Cardinality(S), S) /\ Cardinality(S) \in Nat
  BY FS_CardinalityType
<1>2. \E f \in [1..Cardinality(S) -> S] : IsInjective(f)
  BY <1>1 DEF ExistsBijection, Bijection, Injection
<1>3. SetToSeq(S) \in [1..Cardinality(S) -> S] /\ IsInjective(SetToSeq(S))
  BY <1>2 DEF SetToSeq
<1>4. IsFiniteSet(1..Cardinality(S)) /\ Cardinality(1..Cardinality(S)) = Cardinality(S)
  BY <1>1, CountTo
<1>5. SetToSeq(S) \in Surjection(1..Cardinality(S), S)
  BY <1>3, <1>4, FS_Injection DEF Injection
<1>6. InIt(SetToSeq(S)) = S
  BY <1>3, <1>5 DEF InIt, Surjection
<1>7. ASSUME NEW T, S \subseteq T PROVE SetToSeq(S) \in Seq(T)
  BY <1>1, <1>3, <1>7
<1>8. QED
  BY <1>3, <1>6, <1>7 DEF IsInjective, Distinct
-----------------------------------------------------------------------------

Input == \E n \in 0..MaxNodes : summaries \in [1..n -> Summary]

TotalsOf(S) ==
  /\ \A i \in S : summaries[i].peak <= peakMax
  /\ IF S = {} THEN peakMax = 0 ELSE \E i \in S : peakMax = summaries[i].peak
  /\ peakMax <= peakSum
  /\ instant <= peakSum \/ peakSum = MaxU64

FirstFailed(S, i) ==
  /\ i \in Failed(S, Exits)
  /\ \A j \in Failed(S, Exits) : i <= j

OutcomeOf(S) ==
  /\ IF Failed(S, Exits) = {} THEN worst = None
     ELSE \E i \in S : FirstFailed(S, i) /\ worst = summaries[i].exit
  /\ anyUnknown <=> \E i \in S : summaries[i].exit = None

Numbers ==
  /\ peakMax \in 0..MaxU64 /\ peakSum \in 0..MaxU64 /\ instant \in Nat
  /\ next \in Nat \ {0} /\ anyUnknown \in BOOLEAN

Progress ==
  /\ phase \in Phases
  /\ phase \in {"accumulate", "outcome", "merged"} => Count # {}
  /\ phase = "start" => next = 1 /\ TotalsOf({}) /\ OutcomeOf({})
  /\ phase = "accumulate" => TotalsOf(Before(next)) /\ OutcomeOf({})
  /\ phase = "outcome" => TotalsOf(Count) /\ OutcomeOf(Before(next))
  /\ WorstOutcome
  /\ PeaksBracket

Inductive == Input /\ Numbers /\ Progress
-----------------------------------------------------------------------------
(* What a list of summaries is: positions from 1, up to some length.       *)
LEMMA Positions ==
  ASSUME Input
  PROVE  /\ Count \subseteq Nat \ {0}
         /\ \A i \in Count : /\ summaries[i].peak \in 0..MaxU64
                             /\ summaries[i].used \in 0..summaries[i].peak
                             /\ summaries[i].exit \in Codes \union {None}
         /\ \A k \in Nat \ {0} : k \notin Count => Before(k) = Count
         /\ \A k \in Count : Before(k + 1) = Before(k) \union {k}
         /\ Before(1) = {}
<1>1. PICK n \in 0..MaxNodes : summaries \in [1..n -> Summary]
  BY DEF Input
<1>2. Count = 1..n
  BY <1>1 DEF Count
<1>3. MaxU64 \in Nat /\ Usages \subseteq 0..MaxU64 /\ MaxNodes \in Nat
  BY UsageAssumption
<1>4. \A i \in Count : summaries[i] \in Summary
  BY <1>1, <1>2
<1>5. ASSUME NEW s \in Summary
      PROVE  s.peak \in 0..MaxU64 /\ s.used \in 0..s.peak /\ s.exit \in Codes \union {None}
  <2>1. s.peak \in Usages /\ s.used \in Usages /\ s.used <= s.peak /\ s.exit \in Codes \union {None}
    BY DEF Summary
  <2>2. s.peak \in 0..MaxU64 /\ s.used \in 0..MaxU64
    BY <2>1, <1>3
  <2>3. s.used \in 0..s.peak
    BY <2>1, <2>2, <1>3
  <2>4. QED
    BY <2>1, <2>2, <2>3
<1>6. Count \subseteq Nat \ {0}
  BY <1>2, <1>3
<1>7. \A k \in Nat \ {0} : k \notin Count => Before(k) = Count
  BY <1>2, <1>3 DEF Before
<1>8. \A k \in Count : Before(k + 1) = Before(k) \union {k}
  BY <1>2, <1>3 DEF Before
<1>9. Before(1) = {}
  <2>1. \A i \in Count : ~(i < 1)
    BY <1>6
  <2>2. QED
    BY <2>1, Zenon DEF Before
<1>10. QED
  BY <1>4, <1>5, <1>6, <1>7, <1>8, <1>9

(* Least is determined by what it is: the smallest element.                *)
LEMMA LeastIs ==
  ASSUME NEW S, S \subseteq Int, NEW i \in S, \A j \in S : i <= j
  PROVE  Least(S) = i
<1>1. \A k \in S : (\A j \in S : k <= j) => k = i
  OBVIOUS
<1>2. QED
  BY <1>1 DEF Least

(* The outcome carried past the last summary is merge_exit_status's.       *)
LEMMA VerdictIsMergedExit ==
  ASSUME Input, OutcomeOf(Count)
  PROVE  Verdict = MergedExit(Count, Exits)
<1>1. Count \subseteq Int /\ \A i \in Count : Exits[i] = summaries[i].exit
  BY Positions DEF Exits, Count
<1>2. Failed(Count, Exits) \subseteq Count
  BY DEF Failed
<1>3. CASE Failed(Count, Exits) = {}
  BY <1>1, <1>3 DEF OutcomeOf, Verdict, MergedExit
<1>4. CASE Failed(Count, Exits) # {}
  <2>1. PICK i \in Count : FirstFailed(Count, i) /\ worst = summaries[i].exit
    BY <1>4 DEF OutcomeOf
  <2>2. Least(Failed(Count, Exits)) = i
    BY <2>1, <1>1, <1>2, LeastIs DEF FirstFailed
  <2>3. worst # None
    BY <2>1, <1>1 DEF FirstFailed, Failed
  <2>4. QED
    BY <1>1, <1>4, <2>1, <2>2, <2>3 DEF Verdict, MergedExit
<1>5. QED
  BY <1>3, <1>4
-----------------------------------------------------------------------------
LEMMA Initially == Init => Inductive
<1> SUFFICES ASSUME Init PROVE Inductive
  OBVIOUS
<1> USE UsageAssumption DEF Init
<1>1. Input
  BY DEF Input
<1>2. Numbers
  <2>1. peakMax \in 0..MaxU64 /\ peakSum \in 0..MaxU64 /\ instant \in Nat
    OBVIOUS
  <2>2. next \in Nat \ {0}
    OBVIOUS
  <2>3. anyUnknown \in BOOLEAN
    BY Zenon
  <2>4. QED
    BY <2>1, <2>2, <2>3, Zenon DEF Numbers
<1>3. TotalsOf({}) /\ OutcomeOf({})
  BY DEF TotalsOf, OutcomeOf, Failed
<1>4. WorstOutcome /\ PeaksBracket
  BY DEF WorstOutcome, PeaksBracket
<1>5. QED
  BY <1>1, <1>2, <1>3, <1>4 DEF Inductive, Progress, Phases

(* The totals of the summaries up to k follow from those before k.         *)
LEMMA AccumulateKeepsTotals ==
  ASSUME Input, Numbers, next \in Count, TotalsOf(Before(next)), Accumulate
  PROVE  Numbers' /\ TotalsOf(Before(next))'
<1> DEFINE p == summaries[next].peak
           u == summaries[next].used
<1>1. p \in 0..MaxU64 /\ u \in 0..p /\ MaxU64 \in Nat
  BY Positions, UsageAssumption
<1>2. Before(next)' = Before(next) \union {next} /\ summaries' = summaries
  BY Positions DEF Accumulate, Before, Count
<1>3. /\ peakMax' = IF peakMax > p THEN peakMax ELSE p
      /\ peakSum' = IF peakSum + p > MaxU64 THEN MaxU64 ELSE peakSum + p
      /\ instant' = instant + u /\ next' = next + 1
      /\ anyUnknown' = anyUnknown
  BY DEF Accumulate, LargerOf, SaturatingAdd, Outcome
<1>4. /\ peakMax \in 0..MaxU64 /\ peakSum \in 0..MaxU64 /\ instant \in Nat
      /\ next \in Nat \ {0} /\ anyUnknown \in BOOLEAN
  BY DEF Numbers
<1> HIDE DEF p, u
<1>5. Numbers'
  BY <1>1, <1>3, <1>4 DEF Numbers
<1>6. peakMax' >= peakMax /\ peakMax' >= p /\ peakMax' \in {peakMax, p}
  BY <1>1, <1>3, <1>4
<1>7. peakMax' <= peakSum' /\ (instant' <= peakSum' \/ peakSum' = MaxU64)
  <2>1. peakMax <= peakSum /\ (instant <= peakSum \/ peakSum = MaxU64)
    BY DEF TotalsOf
  <2>2. QED
    BY <2>1, <1>1, <1>3, <1>4
<1>8. \A i \in Before(next) \union {next} : summaries[i].peak <= peakMax'
  <2>1. \A i \in Before(next) : /\ summaries[i].peak <= peakMax
                                /\ summaries[i].peak \in 0..MaxU64
    BY Positions DEF TotalsOf, Before
  <2>2. QED
    BY <2>1, <1>1, <1>4, <1>5, <1>6 DEF p, Numbers
<1>9. \E i \in Before(next) \union {next} : peakMax' = summaries[i].peak
  <2>1. CASE peakMax' = p
    BY <2>1 DEF p
  <2>2. CASE peakMax' = peakMax /\ Before(next) # {}
    BY <2>2 DEF TotalsOf
  <2>3. CASE peakMax' = peakMax /\ Before(next) = {}
    <3>1. peakMax = 0
      BY <2>3 DEF TotalsOf
    <3>2. p = 0
      BY <3>1, <2>3, <1>6, <1>1
    <3>3. QED
      BY <2>3, <3>1, <3>2 DEF p
  <2>4. QED
    BY <1>6, <2>1, <2>2, <2>3
<1>10. QED
  BY <1>2, <1>5, <1>7, <1>8, <1>9 DEF TotalsOf

(* So does the outcome; the first failure read stays the first.            *)
LEMMA JudgeKeepsOutcome ==
  ASSUME Input, Numbers, next \in Count, OutcomeOf(Before(next)), Judge
  PROVE  OutcomeOf(Before(next))'
<1> DEFINE B == Before(next)
           B1 == B \union {next}
           status == summaries[next].exit
<1>1. Before(next)' = B1 /\ summaries' = summaries /\ Exits' = Exits
  BY Positions DEF Judge, Before, Count, Exits
<1>2. /\ worst' = IF status \in {Success, None} \/ worst # None THEN worst ELSE status
      /\ anyUnknown' = (anyUnknown \/ status = None)
  BY DEF Judge
<1>3. B \subseteq Count /\ Count \subseteq Nat /\ \A i \in B : i < next
  BY Positions DEF Before
<1>4. \A i \in Count : Exits[i] = summaries[i].exit
  BY DEF Exits
<1>5. anyUnknown' <=> \E i \in B1 : summaries[i].exit = None
  BY <1>2 DEF OutcomeOf
<1>6. Failed(B1, Exits) = IF status \in {Success, None} THEN Failed(B, Exits)
                          ELSE Failed(B, Exits) \union {next}
  BY <1>3, <1>4 DEF Failed
<1> HIDE DEF B1, status
<1>7. IF Failed(B1, Exits) = {} THEN worst' = None
      ELSE \E i \in B1 : FirstFailed(B1, i) /\ worst' = summaries[i].exit
  <2>1. CASE Failed(B, Exits) # {}
    <3>1. PICK i \in B : FirstFailed(B, i) /\ worst = summaries[i].exit
      BY <2>1 DEF OutcomeOf
    <3>2. worst # None /\ i \in Failed(B, Exits) /\ \A j \in Failed(B, Exits) : i <= j
      BY <3>1, <1>3, <1>4 DEF FirstFailed, Failed
    <3>3. i <= next
      <4>1. i \in Nat /\ next \in Nat /\ i < next
        BY <1>3
      <4>2. QED
        BY <4>1
    <3>4. FirstFailed(B1, i)
      BY <3>2, <3>3, <1>6 DEF FirstFailed
    <3>5. worst' = summaries[i].exit /\ i \in B1 /\ Failed(B1, Exits) # {}
      BY <3>1, <3>2, <3>4, <1>2 DEF B1, FirstFailed
    <3>6. QED
      BY <3>4, <3>5
  <2>2. CASE Failed(B, Exits) = {} /\ status \in {Success, None}
    BY <2>2, <1>2, <1>6 DEF OutcomeOf
  <2>3. CASE Failed(B, Exits) = {} /\ status \notin {Success, None}
    <3>1. worst' = status
      BY <2>3, <1>2 DEF OutcomeOf
    <3>2. Failed(B1, Exits) = {next}
      BY <2>3, <1>6
    <3>3. FirstFailed(B1, next)
      BY <3>2, <1>3 DEF FirstFailed
    <3>4. QED
      BY <3>1, <3>2, <3>3 DEF B1, status
  <2>4. QED
    BY <2>1, <2>2, <2>3
<1>8. QED
  BY <1>1, <1>2, <1>5, <1>7 DEF OutcomeOf, FirstFailed, Failed
-----------------------------------------------------------------------------
(* Every step preserves the invariant, the input being what it was.        *)
LEMMA Preserved == Inductive /\ [Next]_vars => Inductive'
<1> SUFFICES ASSUME Inductive, [Next]_vars PROVE Inductive'
  OBVIOUS
<1>1. Input /\ Numbers /\ Progress
  BY DEF Inductive
<1>2. summaries' = summaries
  BY DEF Next, Refuse, Begin, Accumulate, Accumulated, Judge, Finish, Ended, vars
<1>3. Input' /\ Count' = Count /\ Exits' = Exits /\ \A n : Before(n)' = Before(n)
  BY <1>1, <1>2 DEF Input, Count, Exits, Before
<1>4. CASE UNCHANGED vars
  BY <1>1, <1>2, <1>3, <1>4
     DEF vars, Loop, Outcome, Inductive, Numbers, Progress, TotalsOf, OutcomeOf,
         FirstFailed, Failed, WorstOutcome, PeaksBracket
<1>5. CASE Refuse
  <2>1. Numbers' /\ phase' = "refused"
    BY <1>1, <1>5 DEF Refuse, Loop, Outcome, Numbers
  <2>2. QED
    BY <1>3, <2>1 DEF Inductive, Progress, Phases, WorstOutcome, PeaksBracket
<1>6. CASE Begin
  <2>1. Numbers' /\ phase' = "accumulate" /\ Count # {}
    BY <1>1, <1>6 DEF Begin, Loop, Outcome, Numbers
  <2>2. TotalsOf({})' /\ OutcomeOf({})' /\ next' = 1
    BY <1>1, <1>6 DEF Begin, Loop, Outcome, Progress, TotalsOf, OutcomeOf, Failed
  <2>3. Before(next)' = {}
    BY <1>1, <1>3, <2>2, Positions
  <2>4. QED
    BY <1>3, <2>1, <2>2, <2>3
       DEF Inductive, Progress, Phases, WorstOutcome, PeaksBracket
<1>7. CASE Accumulate
  <2>1. next \in Count /\ TotalsOf(Before(next)) /\ OutcomeOf({}) /\ Count # {}
    BY <1>1, <1>7 DEF Accumulate, Progress
  <2>2. Numbers' /\ TotalsOf(Before(next))'
    BY <1>1, <1>7, <2>1, AccumulateKeepsTotals
  <2>3. OutcomeOf({})' /\ phase' = "accumulate"
    BY <1>7, <2>1 DEF Accumulate, Outcome, OutcomeOf, Failed
  <2>4. QED
    BY <1>3, <2>1, <2>2, <2>3
       DEF Inductive, Progress, Phases, WorstOutcome, PeaksBracket
<1>8. CASE Accumulated
  <2>1. Numbers' /\ phase' = "outcome" /\ next' = 1
    BY <1>1, <1>8 DEF Accumulated, Outcome, Numbers
  <2>2. TotalsOf(Before(next)) /\ OutcomeOf({}) /\ Count # {}
    BY <1>1, <1>8 DEF Accumulated, Progress
  <2>3. Before(next) = Count /\ Before(next)' = {}
    BY <1>1, <1>3, <1>8, <2>1, Positions DEF Accumulated, Numbers
  <2>4. TotalsOf(Count)' /\ OutcomeOf({})'
    BY <1>2, <1>3, <1>8, <2>2, <2>3 DEF Accumulated, Outcome, TotalsOf, OutcomeOf, Failed
  <2>5. QED
    BY <1>3, <2>1, <2>2, <2>3, <2>4
       DEF Inductive, Progress, Phases, WorstOutcome, PeaksBracket
<1>9. CASE Judge
  <2>1. next \in Count /\ TotalsOf(Count) /\ OutcomeOf(Before(next)) /\ Count # {}
    BY <1>1, <1>9 DEF Judge, Progress
  <2>2. OutcomeOf(Before(next))'
    BY <1>1, <1>9, <2>1, JudgeKeepsOutcome
  <2>3. TotalsOf(Count)' /\ phase' = "outcome"
    BY <1>2, <1>3, <1>9, <2>1 DEF Judge, TotalsOf
  <2>4. Numbers'
    <3>1. next' = next + 1 /\ UNCHANGED <<peakMax, peakSum, instant>>
      BY <1>9 DEF Judge
    <3>2. anyUnknown' \in BOOLEAN
      BY <1>9 DEF Judge
    <3>3. QED
      BY <1>1, <3>1, <3>2 DEF Numbers
  <2>5. QED
    BY <1>3, <2>1, <2>2, <2>3, <2>4
       DEF Inductive, Progress, Phases, WorstOutcome, PeaksBracket
<1>10. CASE Finish
  <2>1. TotalsOf(Count) /\ OutcomeOf(Before(next)) /\ Count # {} /\ Before(next) = Count
    BY <1>1, <1>10, Positions DEF Finish, Progress, Numbers
  <2>2. Numbers' /\ phase' = "merged"
    BY <1>1, <1>10 DEF Finish, Loop, Outcome, Numbers
  <2>3. /\ merged'.exit = Verdict /\ merged'.max = peakMax
        /\ merged'.sum = peakSum /\ instant' = instant
    BY <1>10 DEF Finish, Loop
  <2>4. Verdict = MergedExit(Count, Exits)
    BY <1>1, <2>1, VerdictIsMergedExit
  <2>5. WorstOutcome'
    BY <1>3, <2>3, <2>4 DEF WorstOutcome, MergedExit, Failed
  <2>6. PeaksBracket'
    BY <1>2, <1>3, <2>1, <2>3 DEF PeaksBracket, TotalsOf
  <2>7. QED
    BY <1>3, <2>1, <2>2, <2>5, <2>6 DEF Inductive, Progress, Phases
<1>11. CASE Ended
  BY <1>4, <1>11 DEF Ended
<1>12. QED
  BY <1>4, <1>5, <1>6, <1>7, <1>8, <1>9, <1>10, <1>11 DEF Next

(* The invariant of the two loops holds throughout.                        *)
THEOREM AlwaysInductive == Spec => []Inductive
<1>1. QED
  BY Initially, Preserved, PTL DEF Spec

(* For every list of summaries, the job-level exit status is the rule of   *)
(* merge_exit_status: a failure if any node failed, the first one read;    *)
(* unknown if any is unknown; success only if every summary says so.       *)
THEOREM OutcomeIsWorst == Spec => []WorstOutcome
<1>1. Inductive => WorstOutcome
  BY DEF Inductive, Progress
<1>2. QED
  BY AlwaysInductive, <1>1, PTL

(* For every list of summaries and every width of integer, the two peak    *)
(* figures bracket what the nodes used: one node reached the first, and at *)
(* no instant did they use more together than the second.                  *)
THEOREM PeaksAreBounds == Spec => []PeaksBracket
<1>1. Inductive => PeaksBracket
  BY DEF Inductive, Progress
<1>2. QED
  BY AlwaysInductive, <1>1, PTL
-----------------------------------------------------------------------------
(* Who reported: the hosts of the summaries looked at so far.              *)
HostsOf(S) == {summaries[i].host : i \in S}
Reports ==
  /\ phase = "start" => reporting = {}
  /\ phase = "accumulate" => reporting = HostsOf(Before(next))
  /\ phase \in {"outcome", "merged"} => reporting = HostsOf(Count)
  /\ phase = "merged" => /\ merged.missing = Missing(expected, reporting)
                         /\ merged.partial = PartialHosts

LEMMA ReportsPreserved == Inductive /\ Reports /\ [Next]_vars => Reports'
<1> SUFFICES ASSUME Inductive, Reports, [Next]_vars PROVE Reports'
  OBVIOUS
<1>1. Input /\ Numbers /\ next \in Nat \ {0}
  BY DEF Inductive, Numbers
<1>2. summaries' = summaries /\ expected' = expected
  BY DEF Next, Refuse, Begin, Accumulate, Accumulated, Judge, Finish, Ended, vars
<1>3. /\ Count' = Count /\ PartialHosts' = PartialHosts
      /\ \A n : Before(n)' = Before(n)
      /\ \A S : HostsOf(S)' = HostsOf(S)
  BY <1>2 DEF Count, Before, HostsOf, PartialHosts
<1>4. CASE UNCHANGED vars
  BY <1>2, <1>3, <1>4 DEF vars, Loop, Reports
<1>5. CASE Refuse
  BY <1>5 DEF Refuse, Reports
<1>6. CASE Begin
  <2>1. reporting' = {} /\ next' = next /\ phase' = "accumulate" /\ next = 1
    BY <1>6 DEF Begin, Loop, Reports, Inductive, Progress
  <2>2. HostsOf(Before(1)) = {}
    BY <1>1, Positions DEF HostsOf
  <2>3. QED
    BY <1>3, <2>1, <2>2 DEF Reports
<1>7. CASE Accumulate
  <2>1. Before(next + 1) = Before(next) \union {next}
    BY <1>1, <1>7, Positions DEF Accumulate
  <2>2. HostsOf(Before(next + 1)) = HostsOf(Before(next)) \union {summaries[next].host}
    BY <2>1 DEF HostsOf
  <2>3. reporting' = HostsOf(Before(next + 1))
    BY <1>7, <2>2 DEF Accumulate, Reports
  <2>4. QED
    BY <1>3, <1>7, <2>3 DEF Accumulate, Reports
<1>8. CASE Accumulated
  <2>1. Before(next) = Count
    BY <1>1, <1>8, Positions DEF Accumulated
  <2>2. QED
    BY <1>3, <1>8, <2>1 DEF Accumulated, Reports
<1>9. CASE Judge
  BY <1>3, <1>9 DEF Judge, Reports
<1>10. CASE Finish
  <2>1. /\ phase = "outcome" /\ phase' = "merged" /\ reporting' = reporting
        /\ merged'.missing = Missing(expected, reporting)
        /\ merged'.partial = PartialHosts
    BY <1>10 DEF Finish, Loop
  <2>2. QED
    BY <1>2, <1>3, <2>1 DEF Reports
<1>11. CASE Ended
  BY <1>4, <1>11 DEF Ended
<1>12. QED
  BY <1>4, <1>5, <1>6, <1>7, <1>8, <1>9, <1>10, <1>11 DEF Next

LEMMA ReportsComplete == Reports => CompleteHostsAreFinal
BY DEF Reports, CompleteHostsAreFinal, HostsOf, PartialHosts, Missing

(* For every list of summaries, a host that is neither missing nor partial *)
(* in the document has a final summary and no checkpoint in the list.      *)
THEOREM CompleteIsFinal == Spec => []CompleteHostsAreFinal
<1>1. Init => Reports
  BY DEF Init, Reports
<1>2. QED
  BY <1>1, Initially, Preserved, ReportsPreserved, ReportsComplete, PTL DEF Spec
-----------------------------------------------------------------------------
(* The names to load, those loaded and those given up on are apart.        *)
Lists ==
  /\ found \in Seq(Names) /\ Distinct(found)
  /\ from \in Seq(Names) /\ Distinct(from)
  /\ summaries \in Seq(Summary) /\ Len(summaries) = Len(from)
  /\ failures \subseteq Names
  /\ InIt(found) \cap (InIt(from) \union failures) = {}
  /\ InIt(from) \cap failures = {}

Loaded ==
  \A i \in DOMAIN from : /\ Good(files[from[i]])
                         /\ files[from[i]].node.host = summaries[i].host

Directory ==
  /\ \A n \in Names : Good(files[n]) => files[n].node \in Summary
  /\ Usable => \A i \in DOMAIN Entry : Entry[i].name \in Names

Kept ==
  /\ readable \subseteq Names /\ \A n \in readable : Good(files[n])
  /\ phase = "list" =>
       /\ from = <<>> /\ failures = {} /\ next \in 1..(LastName + 1)
       /\ \A n \in InIt(found) : n < next
       /\ MergedName \notin readable
       /\ \A n \in readable : n < next => n \in InIt(found)
  /\ phase = "load" => readable \subseteq InIt(found) \union InIt(from)
  /\ phase \in Phases => readable \subseteq InIt(from)
  /\ phase = "refused" => Count = {}

Before_ == {"launch", "ready", "list", "load"}
Untouched ==
  /\ reporting = {} /\ peakMax = 0 /\ peakSum = 0 /\ instant = 0
  /\ worst = None /\ anyUnknown = FALSE
  /\ phase # "list" => next = 1

Loops ==
  \/ phase \in Before_ /\ Untouched
  \/ phase \in Phases /\ Inductive /\ Reports

Nothing == phase \in {"launch", "ready"} =>
  found = <<>> /\ from = <<>> /\ failures = {} /\ summaries = <<>> /\ readable = {}

ExpectedHosts == expected \subseteq Hosts

MergeInv ==
  Lists /\ Loaded /\ Directory /\ Kept /\ Loops /\ Nothing /\ ExpectedHosts
-----------------------------------------------------------------------------
LEMMA NamesFinite ==
  ASSUME NEW S, S \subseteq Names
  PROVE  IsFiniteSet(S) /\ Cardinality(S) \in Nat /\ Cardinality(S) <= LastName
<1>1. LastName \in Nat /\ IsFiniteSet(Names) /\ Cardinality(Names) = LastName
  BY NamesAssumption, FS_Interval DEF Names
<1>2. IsFiniteSet(S) /\ Cardinality(S) <= Cardinality(Names)
  BY <1>1, FS_Subset
<1>3. Cardinality(S) \in Nat
  BY <1>2, FS_CardinalityType
<1>4. QED
  BY <1>1, <1>2, <1>3

(* A list without repetition is no longer than the number of names.        *)
LEMMA DistinctIsShort ==
  ASSUME NEW list \in Seq(Names), Distinct(list)
  PROVE  Len(list) \in 0..LastName
<1>1. list \in Injection(1..Len(list), Names)
  BY DEF Distinct, Injection, IsInjective
<1>2. IsFiniteSet(Names) /\ Cardinality(Names) = LastName /\ LastName \in Nat
  BY NamesAssumption, FS_Interval DEF Names
<1>3. Cardinality(1..Len(list)) <= Cardinality(Names)
  BY <1>1, <1>2, FS_Injection
<1>4. Len(list) \in Nat /\ Cardinality(1..Len(list)) = Len(list)
  BY CountTo
<1>5. QED
  BY <1>2, <1>3, <1>4

(* The sorted list of a manifest's names has each of them, and once.       *)
LEMMA OnceEachIs ==
  ASSUME NEW places, NamesAt(places) \subseteq Names,
         NEW list \in OnceEach(places)
  PROVE  list \in Seq(Names) /\ Distinct(list) /\ InIt(list) = NamesAt(places)
<1> DEFINE S == NamesAt(places)
           n == Cardinality(S)
<1>1. n \in Nat /\ IsFiniteSet(S)
  BY NamesFinite
<1>2. list \in [1..n -> S] /\ Distinct(list)
  BY DEF OnceEach, InOrder, Distinct
<1>3. list \in Injection(1..n, S) /\ IsFiniteSet(1..n) /\ Cardinality(1..n) = n
  BY <1>1, <1>2, CountTo DEF Distinct, Injection, IsInjective
<1>4. list \in Surjection(1..n, S)
  BY <1>1, <1>3, FS_Injection
<1>5. InIt(list) = S
  BY <1>2, <1>4 DEF InIt, Surjection
<1>6. QED
  BY <1>1, <1>2, <1>5
-----------------------------------------------------------------------------
LEMMA PhasesApart == Before_ \cap Phases = {}
BY DEF Before_, Phases

LEMMA MergeInitially == InitMerge => MergeInv
<1> SUFFICES ASSUME InitMerge PROVE MergeInv
  OBVIOUS
<1>1. phase = "launch" /\ phase \notin Phases
  BY DEF InitMerge, Phases
<1>2. Lists /\ Loaded
  BY DEF InitMerge, Lists, Loaded, Distinct, InIt
<1>3. Directory
  BY NamesAssumption DEF InitMerge, Directory, Names, Good, Usable, Entry
<1>4. Kept
  BY <1>1 DEF InitMerge, Kept
<1>5. Loops
  BY <1>1, Zenon DEF InitMerge, Loops, Before_, Untouched
<1>6. Nothing
  BY DEF InitMerge, Nothing
<1>7. QED
  BY <1>2, <1>3, <1>4, <1>5, <1>6 DEF MergeInv, ExpectedHosts, InitMerge

(* A step outside the loops, from a phase before them.                     *)
LEMMA StillUntouched ==
  ASSUME MergeInv, phase \in Before_, phase' \in Before_,
         UNCHANGED <<reporting, peakMax, peakSum, instant, Outcome>>,
         next' = next \/ phase' = "list",
         phase = "list" => phase' = "list"
  PROVE  Loops'
<1>1. Untouched
  BY PhasesApart DEF MergeInv, Loops
<1>2. reporting' = {} /\ peakMax' = 0 /\ peakSum' = 0 /\ instant' = 0
  BY <1>1 DEF Untouched
<1>3. worst' = None /\ anyUnknown' = FALSE
  BY <1>1 DEF Untouched, Outcome
<1>4. phase' # "list" => next' = 1
  BY <1>1 DEF Untouched
<1>5. QED
  BY <1>2, <1>3, <1>4, Zenon DEF Loops, Untouched, Before_

(* The loops are those of MergeSummaries.                                  *)
LEMMA LoopsGoOn ==
  ASSUME MergeInv, phase \in Phases, [Next]_vars
  PROVE  Loops' /\ phase' \in Phases
<1>1. Inductive /\ Reports
  BY PhasesApart DEF MergeInv, Loops
<1>2. Inductive' /\ Reports'
  BY <1>1, Preserved, ReportsPreserved
<1>3. phase' \in Phases
  BY <1>2 DEF Inductive, Progress
<1>4. QED
  BY <1>2, <1>3 DEF Loops

LEMMA ManifestKeeps ==
  ASSUME MergeInv, NEW template \in Templates, WriteManifest(template)
  PROVE  MergeInv'
<1>1. /\ phase = "launch" /\ phase' = "ready"
      /\ UNCHANGED <<summaries, files, found, from, failures, readable>>
      /\ UNCHANGED <<reporting, peakMax, peakSum, instant, Outcome, next>>
  BY DEF WriteManifest, Loop, search
<1>2. ManifestHosts \subseteq Hosts
  BY NamesAssumption, <1>1 DEF ManifestHosts, MergeInv, ExpectedHosts
<1>3. \A i \in DOMAIN Entries(template) : Entries(template)[i].name \in Names
  <2>1. IsFiniteSet(ManifestHosts)
    BY <1>2, NamesAssumption, FS_Subset
  <2> DEFINE hosts == SetToSeq(ManifestHosts)
  <2>2. \A i \in DOMAIN hosts : hosts[i] \in Hosts
    BY <1>2, <2>1, Listing
  <2>3. template \in [Hosts -> Names]
    BY NamesAssumption DEF Names
  <2> HIDE DEF hosts
  <2>4. Entries(template) =
          [i \in DOMAIN hosts |-> [name |-> template[hosts[i]], plain |-> TRUE]]
    BY DEF Entries, hosts
  <2>5. QED
    BY <2>2, <2>3, <2>4
<1>4. Directory'
  BY <1>1, <1>3 DEF WriteManifest, Directory, Entry, MergeInv, Good, Names
<1>5. Loops'
  BY <1>1, StillUntouched DEF Before_
<1>6. (Lists /\ Loaded /\ Kept /\ Nothing)'
  BY <1>1 DEF MergeInv, Lists, Loaded, Kept, Nothing, Distinct, InIt, Good, Names,
     Phases, Count
<1>7. ExpectedHosts'
  BY DEF WriteManifest, MergeInv, ExpectedHosts
<1>8. QED
  BY <1>4, <1>5, <1>6, <1>7 DEF MergeInv

LEMMA NoManifestKeeps == MergeInv /\ ManifestFails => MergeInv'
<1> SUFFICES ASSUME MergeInv, ManifestFails PROVE MergeInv'
  OBVIOUS
<1>1. /\ phase = "launch" /\ phase' = "ready"
      /\ UNCHANGED <<summaries, expected, directory, search>>
      /\ UNCHANGED <<reporting, peakMax, peakSum, instant, Outcome, next>>
  BY DEF ManifestFails, Loop
<1>2. Loops'
  BY <1>1, StillUntouched DEF Before_
<1>3. QED
  BY <1>1, <1>2 DEF directory, search, MergeInv, Lists, Loaded, Directory, Kept,
     Nothing, Distinct, InIt, Good, Names, Phases, Count, Usable, Entry,
     ExpectedHosts

LEMMA PublishKeeps ==
  ASSUME MergeInv, NEW n \in Names, NEW file \in Written[n], Publish(n, file)
  PROVE  MergeInv'
<1>1. UNCHANGED <<vars, manifest, search>> /\ files' = [files EXCEPT ![n] = file]
  BY DEF Publish
<1>2. Good(file) /\ file.node \in Summary
  BY NamesAssumption DEF Publish, Good, Names
<1>3. Good(files[n]) => file.node.host = files[n].node.host
  BY DEF Publish, Good, NoFile
<1>4. \A m \in Names : Good(files[m]) =>
        Good(files'[m]) /\ files'[m].node.host = files[m].node.host
  BY <1>1, <1>2, <1>3 DEF MergeInv, Directory
<1>5. Directory'
  BY <1>1, <1>2 DEF MergeInv, Directory, Usable, Entry, Good
<1>6. UNCHANGED <<Lists, Nothing, ExpectedHosts>>
  BY <1>1 DEF vars, search, Lists, Nothing, ExpectedHosts, Distinct, InIt
<1>7. Loaded'
  BY <1>1, <1>4 DEF vars, search, MergeInv, Loaded, Lists, Good
<1>8. Kept'
  BY <1>1, <1>4 DEF vars, search, MergeInv, Kept, Good, InIt, Count, Phases
<1>9. Loops'
  <2>1. UNCHANGED <<phase, next, reporting, peakMax, peakSum, instant, Outcome>>
    BY <1>1 DEF vars, Outcome, Loop
  <2>2. CASE phase \in Before_
    BY <2>1, <2>2, StillUntouched
  <2>3. CASE phase \in Phases
    BY <1>1, <2>3, LoopsGoOn
  <2>4. QED
    BY <2>2, <2>3 DEF MergeInv, Loops
<1>10. QED
  BY <1>5, <1>6, <1>7, <1>8, <1>9 DEF MergeInv
-----------------------------------------------------------------------------
LEMMA ByManifestKeeps == MergeInv /\ FindByManifest => MergeInv'
<1> SUFFICES ASSUME MergeInv, FindByManifest PROVE MergeInv'
  OBVIOUS
<1> DEFINE places == {i \in Plain : files[Entry[i].name] # NoFile}
<1>1. /\ phase = "ready" /\ phase' = "load" /\ Usable
      /\ found' \in OnceEach(places) /\ readable' = Readable
      /\ UNCHANGED <<summaries, expected, files, manifest, from, failures>>
      /\ UNCHANGED <<reporting, peakMax, peakSum, instant, Outcome, next>>
  BY DEF FindByManifest, Loop, directory
<1>2. from = <<>> /\ failures = {} /\ summaries = <<>>
  BY <1>1 DEF MergeInv, Nothing
<1>3. NamesAt(places) \subseteq Names
  BY <1>1 DEF MergeInv, Directory, NamesAt, Plain
<1>4. found' \in Seq(Names) /\ Distinct(found') /\ InIt(found') = NamesAt(places)
  BY <1>1, <1>3, OnceEachIs
<1>5. Readable \subseteq NamesAt(places) /\ \A n \in Readable : Good(files[n])
  BY <1>1 DEF Readable, NamesAt, Good, NoFile
<1>6. (Lists /\ Loaded /\ Nothing)'
  BY <1>1, <1>2, <1>4 DEF MergeInv, Lists, Loaded, Nothing, InIt, Distinct
<1>7. (Directory /\ ExpectedHosts)'
  BY <1>1 DEF MergeInv, Directory, Good, Usable, Entry, ExpectedHosts
<1>8. Kept'
  <2>1. readable' \subseteq InIt(found') /\ readable' \subseteq Names
    BY <1>1, <1>4, <1>5 DEF Readable
  <2>2. \A n \in readable' : Good(files[n])'
    BY <1>1, <1>5 DEF Good
  <2>3. phase' # "list" /\ phase' \notin Phases
    BY <1>1 DEF Phases
  <2>4. QED
    BY <1>1, <2>1, <2>2, <2>3 DEF Kept, InIt
<1>9. Loops'
  BY <1>1, StillUntouched DEF Before_
<1>10. QED
  BY <1>6, <1>7, <1>8, <1>9 DEF MergeInv

LEMMA ListKeeps == MergeInv /\ ListDirectory => MergeInv'
<1> SUFFICES ASSUME MergeInv, ListDirectory PROVE MergeInv'
  OBVIOUS
<1>1. /\ phase = "ready" /\ phase' = "list" /\ ~Usable /\ readable' = Readable
      /\ UNCHANGED <<summaries, expected, files, manifest, found, from, failures>>
      /\ UNCHANGED <<reporting, peakMax, peakSum, instant, Outcome, next>>
  BY DEF ListDirectory, Loop, directory
<1>2. found = <<>> /\ from = <<>> /\ failures = {} /\ next = 1
  BY <1>1, PhasesApart DEF MergeInv, Nothing, Loops, Untouched, Phases
<1>3. (Lists /\ Loaded /\ Nothing /\ Directory /\ ExpectedHosts)'
  BY <1>1 DEF MergeInv, Lists, Loaded, Nothing, InIt, Distinct, Directory, Good,
     Usable, Entry, ExpectedHosts
<1>4. Kept'
  <2>1. readable' \subseteq Names /\ MergedName \notin readable'
    BY <1>1 DEF Readable
  <2>2. \A n \in readable' : Good(files[n])' /\ ~(n < 1)
    BY <1>1 DEF Readable, Good, Names
  <2>3. phase' = "list" /\ phase' \notin Phases /\ InIt(found') = {}
    BY <1>1, <1>2 DEF Phases, InIt
  <2>4. next' = 1 /\ 1 \in 1..(LastName + 1)
    BY <1>1, <1>2, NamesAssumption
  <2>5. QED
    BY <1>1, <1>2, <2>1, <2>2, <2>3, <2>4 DEF Kept
<1>5. Loops'
  BY <1>1, StillUntouched DEF Before_
<1>6. QED
  BY <1>3, <1>4, <1>5 DEF MergeInv

LEMMA LookKeeps == MergeInv /\ LookAtName => MergeInv'
<1> SUFFICES ASSUME MergeInv, LookAtName PROVE MergeInv'
  OBVIOUS
<1>1. /\ phase = "list" /\ phase' = "list" /\ next \in Names /\ next' = next + 1
      /\ UNCHANGED <<summaries, expected, files, manifest, from, failures, readable>>
      /\ UNCHANGED <<reporting, peakMax, peakSum, instant, Outcome>>
  BY DEF LookAtName, directory
<1>2. /\ from = <<>> /\ failures = {} /\ \A n \in InIt(found) : n < next
      /\ MergedName \notin readable /\ readable \subseteq Names
      /\ \A n \in readable : Good(files[n]) /\ (n < next => n \in InIt(found))
  BY <1>1 DEF MergeInv, Kept
<1>3. next \in 1..LastName /\ LastName \in Nat /\ next \notin InIt(found)
  BY <1>1, <1>2, NamesAssumption DEF Names
<1>4. next \in readable => BelongsByName(next)
  BY <1>2 DEF BelongsByName, Good, NoFile
<1>5. /\ found' \in Seq(Names) /\ Distinct(found')
      /\ InIt(found') = IF BelongsByName(next) THEN InIt(found) \union {next}
                                               ELSE InIt(found)
  BY <1>1, <1>3, Appended DEF LookAtName, MergeInv, Lists
<1>6. (Lists /\ Loaded /\ Nothing /\ Directory /\ ExpectedHosts)'
  <2>1. InIt(from) = {} /\ from' = from /\ failures' = {}
    BY <1>1, <1>2 DEF InIt
  <2>2. Lists'
    BY <1>1, <1>5, <2>1 DEF MergeInv, Lists
  <2>3. QED
    BY <1>1, <2>1, <2>2 DEF MergeInv, Loaded, Nothing, Directory, Good,
       Usable, Entry, ExpectedHosts
<1>7. Kept'
  <2>1. \A n \in InIt(found') : n < next + 1
    <3>1. \A n \in InIt(found) : n \in Nat /\ n < next
      BY <1>2, NamesAssumption DEF MergeInv, Lists, InIt, Names
    <3>2. QED
      BY <1>3, <1>5, <3>1
  <2>2. \A n \in readable : n < next + 1 => n \in InIt(found')
    BY <1>2, <1>3, <1>4, <1>5 DEF Names
  <2>3. phase' \notin Phases /\ next' \in 1..(LastName + 1)
    BY <1>1, <1>3 DEF Phases
  <2>4. \A n \in readable' : Good(files[n])'
    BY <1>1, <1>2 DEF Good
  <2>5. QED
    BY <1>1, <1>2, <2>1, <2>2, <2>3, <2>4 DEF Kept
<1>8. Loops'
  BY <1>1, StillUntouched DEF Before_
<1>9. QED
  BY <1>6, <1>7, <1>8 DEF MergeInv

LEMMA SeenKeeps == MergeInv /\ AllNamesSeen => MergeInv'
<1> SUFFICES ASSUME MergeInv, AllNamesSeen PROVE MergeInv'
  OBVIOUS
<1>1. /\ phase = "list" /\ phase' = "load" /\ next \notin Names /\ next' = 1
      /\ UNCHANGED <<summaries, expected, files, manifest, search>>
      /\ UNCHANGED <<reporting, peakMax, peakSum, instant, Outcome>>
  BY DEF AllNamesSeen, directory
<1>2. readable \subseteq InIt(found)
  <2>1. next \in 1..(LastName + 1) /\ next \notin 1..LastName /\ LastName \in Nat
    BY <1>1, NamesAssumption DEF MergeInv, Kept, Names
  <2>2. next = LastName + 1
    BY <2>1
  <2>3. \A n \in readable : n \in 1..LastName /\ (n < next => n \in InIt(found))
    BY <1>1 DEF MergeInv, Kept, Names
  <2>4. QED
    BY <2>1, <2>2, <2>3
<1>3. (Lists /\ Loaded /\ Nothing /\ Directory /\ ExpectedHosts)'
  <2>1. Lists' /\ Loaded'
    BY <1>1 DEF search, MergeInv, Lists, Loaded, InIt, Distinct, Good
  <2>2. QED
    BY <1>1, <2>1 DEF search, MergeInv, Nothing, Directory, Good, Usable, Entry,
       ExpectedHosts
<1>4. Kept'
  <2>1. phase' \notin Phases
    BY <1>1 DEF Phases
  <2>2. phase' \notin {"list", "refused"}
    BY <1>1
  <2>3. readable' \subseteq InIt(found')
    BY <1>1, <1>2 DEF search, InIt
  <2>4. readable' \subseteq Names /\ \A n \in readable' : Good(files[n])'
    BY <1>1 DEF search, MergeInv, Kept, Good
  <2>5. QED
    BY <2>1, <2>2, <2>3, <2>4 DEF Kept
<1>5. Loops'
  <2>1. Untouched
    BY <1>1, PhasesApart DEF MergeInv, Loops, Phases
  <2>2. worst' = None /\ anyUnknown' = FALSE
    BY <1>1, <2>1 DEF Untouched, Outcome
  <2>3. QED
    BY <1>1, <2>1, <2>2, Zenon DEF Loops, Untouched, Before_
<1>6. QED
  BY <1>3, <1>4, <1>5 DEF MergeInv
-----------------------------------------------------------------------------
(* A file read: its summary is appended, or its name given up on; either   *)
(* way it leaves the list of names still to load.                          *)
LEMMA LoadKeeps == MergeInv /\ Load => MergeInv'
<1> SUFFICES ASSUME MergeInv, Load PROVE MergeInv'
  OBVIOUS
<1> DEFINE n == Head(found)
           node == files[n].node
<1>1. /\ phase = "load" /\ phase' = "load" /\ found # <<>> /\ found' = Tail(found)
      /\ UNCHANGED <<expected, files, manifest, readable>>
      /\ UNCHANGED <<reporting, peakMax, peakSum, instant, Outcome, next>>
  BY DEF Load, Loop, directory, GoOn
<1>2. Lists
  BY DEF MergeInv
<1>3. /\ found' \in Seq(Names) /\ Distinct(found')
      /\ n \in Names /\ n \in InIt(found) /\ InIt(found') = InIt(found) \ {n}
  BY <1>1, <1>2, Shortened DEF Lists
<1>4. n \notin InIt(from) /\ n \notin failures
  BY <1>2, <1>3 DEF Lists
<1>5. Loops'
  BY <1>1, StillUntouched DEF Before_
<1>6. (Nothing /\ Directory /\ ExpectedHosts)'
  BY <1>1 DEF MergeInv, Nothing, Directory, Good, Usable, Entry, ExpectedHosts
<1>7. phase' \notin Phases
  BY <1>1 DEF Phases
<1>8. readable \subseteq InIt(found) \union InIt(from) /\ \A m \in readable : Good(files[m])
  BY <1>1 DEF MergeInv, Kept
<1>9. CASE Good(files[n])
  <2>1. /\ summaries' = Append(summaries, node) /\ from' = Append(from, n)
        /\ failures' = failures
    BY <1>9 DEF Load, Loads, Good
  <2>2. node \in Summary
    BY <1>3, <1>9 DEF MergeInv, Directory
  <2>3. /\ from' \in Seq(Names) /\ Distinct(from')
        /\ InIt(from') = InIt(from) \union {n}
    BY <1>2, <1>3, <1>4, <2>1, Appended DEF Lists
  <2>4. summaries' \in Seq(Summary) /\ Len(summaries') = Len(from')
    BY <1>2, <2>1, <2>2 DEF Lists
  <2>5. Lists'
    BY <1>2, <1>3, <1>4, <2>1, <2>3, <2>4 DEF Lists
  <2>6. Loaded'
    <3>1. /\ from \in Seq(Names) /\ summaries \in Seq(Summary)
          /\ Len(summaries) = Len(from) /\ Loaded
      BY <1>2 DEF Lists, MergeInv
    <3>2. DOMAIN from' = 1..(Len(from) + 1) /\ Len(from) \in Nat
      BY <1>3, <2>1, <3>1
    <3>3. ASSUME NEW i \in 1..Len(from)
          PROVE  /\ Good(files[from'[i]])
                 /\ files[from'[i]].node.host = summaries'[i].host
      <4>1. from'[i] = from[i] /\ summaries'[i] = summaries[i] /\ i \in DOMAIN from
        BY <2>1, <2>2, <1>3, <3>1, <3>3
      <4>2. QED
        BY <3>1, <4>1 DEF Loaded
    <3>4. from'[Len(from) + 1] = n /\ summaries'[Len(from) + 1] = node
      BY <1>3, <2>1, <2>2, <3>1
    <3>5. \A i \in DOMAIN from' : /\ Good(files[from'[i]])
                                   /\ files[from'[i]].node.host = summaries'[i].host
      BY <1>9, <3>2, <3>3, <3>4
    <3>6. QED
      BY <1>1, <3>5 DEF Loaded, Good
  <2>7. Kept'
    BY <1>1, <1>3, <1>7, <1>8, <2>3 DEF MergeInv, Kept, Good
  <2>8. QED
    BY <1>5, <1>6, <2>5, <2>6, <2>7 DEF MergeInv
<1>10. CASE ~Good(files[n])
  <2>1. failures' = failures \union {n} /\ summaries' = summaries /\ from' = from
    BY <1>10 DEF Load, Loads, Good
  <2>2. Lists'
    <3>1. InIt(from') = InIt(from) /\ (Distinct(from') <=> Distinct(from))
      BY <2>1 DEF InIt, Distinct
    <3>2. QED
      BY <1>2, <1>3, <1>4, <2>1, <3>1 DEF Lists
  <2>3. Loaded'
    BY <1>1, <2>1 DEF MergeInv, Loaded, Good
  <2>4. Kept'
    <3>1. readable' \subseteq InIt(found') \union InIt(from')
      <4>1. n \notin readable /\ readable' = readable /\ InIt(from') = InIt(from)
        BY <1>1, <1>8, <1>10, <2>1 DEF InIt
      <4>2. QED
        BY <1>3, <1>8, <4>1
    <3>2. QED
      BY <1>1, <1>7, <1>8, <3>1 DEF MergeInv, Kept, Good
  <2>5. QED
    BY <1>5, <1>6, <2>2, <2>3, <2>4 DEF MergeInv
<1>11. QED
  BY <1>9, <1>10

(* What was loaded is an input of MergeSummaries, whose loops begin.       *)
LEMMA LoadedKeeps == MergeInv /\ AllLoaded => MergeInv'
<1> SUFFICES ASSUME MergeInv, AllLoaded PROVE MergeInv'
  OBVIOUS
<1>1. /\ phase = "load" /\ phase' = "start" /\ found = <<>>
      /\ UNCHANGED <<summaries, expected, merged, files, manifest, search>>
      /\ UNCHANGED <<reporting, peakMax, peakSum, instant, next, Outcome>>
  BY DEF AllLoaded, Loop, directory
<1>2. Lists /\ Untouched
  BY <1>1, PhasesApart DEF MergeInv, Loops, Phases
<1>3. Input'
  <2>1. Len(from) \in 0..LastName
    BY <1>2, DistinctIsShort DEF Lists
  <2>2. Len(summaries) \in 0..MaxNodes
    BY <1>2, <2>1, NamesAssumption, UsageAssumption DEF Lists
  <2>3. summaries \in [1..Len(summaries) -> Summary]
    BY <1>2 DEF Lists
  <2>4. QED
    BY <1>1, <2>2, <2>3 DEF Input
<1>4. worst' = None /\ anyUnknown' = FALSE
  BY <1>1, <1>2 DEF Untouched, Outcome
<1>5. reporting' = {} /\ peakMax' = 0 /\ peakSum' = 0 /\ instant' = 0 /\ next' = 1
  BY <1>1, <1>2 DEF Untouched
<1>6. Numbers'
  <2>1. 0 \in 0..MaxU64 /\ 1 \in Nat \ {0}
    BY UsageAssumption
  <2>2. anyUnknown' \in BOOLEAN
    BY <1>4, Zenon
  <2>3. QED
    BY <1>5, <2>1, <2>2 DEF Numbers
<1>7. (TotalsOf({}) /\ OutcomeOf({}))'
  BY <1>4, <1>5, UsageAssumption DEF TotalsOf, OutcomeOf, Failed
<1>8. Progress' /\ Reports'
  BY <1>1, <1>5, <1>7 DEF Progress, Reports, Phases, WorstOutcome, PeaksBracket
<1>9. Loops'
  BY <1>1, <1>3, <1>6, <1>8 DEF Loops, Inductive, Phases
<1>10. (Lists /\ Loaded /\ Nothing /\ Directory /\ ExpectedHosts)'
  BY <1>1 DEF search, MergeInv, Lists, Loaded, Nothing, InIt, Distinct, Directory,
     Good, Usable, Entry, ExpectedHosts
<1>11. Kept'
  <2>1. readable \subseteq InIt(from)
    BY <1>1 DEF MergeInv, Kept, InIt
  <2>2. QED
    BY <1>1, <2>1 DEF search, MergeInv, Kept, InIt, Good
<1>12. QED
  BY <1>9, <1>10, <1>11 DEF MergeInv

LEMMA LoopsKeep == MergeInv /\ Merge => MergeInv'
<1> SUFFICES ASSUME MergeInv, Merge PROVE MergeInv'
  OBVIOUS
<1>1. UNCHANGED <<files, manifest, search>> /\ Next /\ [Next]_vars
  BY DEF Merge, directory
<1>2. phase \in Phases /\ UNCHANGED <<summaries, expected>>
  BY <1>1 DEF Next, Refuse, Begin, Accumulate, Accumulated, Judge, Finish, Ended,
     vars, Phases
<1>3. Loops' /\ phase' \in Phases
  BY <1>1, <1>2, LoopsGoOn
<1>4. phase' \notin Before_ /\ phase' \notin {"launch", "ready", "list", "load"}
  BY <1>3, PhasesApart DEF Before_
<1>5. (Lists /\ Loaded /\ Nothing /\ Directory /\ ExpectedHosts)'
  BY <1>1, <1>2, <1>4 DEF search, MergeInv, Lists, Loaded, Nothing, InIt, Distinct,
     Directory, Good, Usable, Entry, ExpectedHosts
<1>6. phase' = "refused" => Count = {}
  BY <1>1 DEF Next, Refuse, Begin, Accumulate, Accumulated, Judge, Finish, Ended,
     vars, MergeInv, Kept
<1>7. Kept'
  BY <1>1, <1>2, <1>4, <1>6 DEF search, MergeInv, Kept, Good, InIt, Count
<1>8. QED
  BY <1>3, <1>5, <1>7 DEF MergeInv
-----------------------------------------------------------------------------
LEMMA MergePreserved ==
  MergeInv /\ [NextMerge]_<<vars, directory, search>> => MergeInv'
<1> SUFFICES ASSUME MergeInv, [NextMerge]_<<vars, directory, search>>
             PROVE  MergeInv'
  OBVIOUS
<1>1. CASE UNCHANGED <<vars, directory, search>>
  <2>1. UNCHANGED <<phase, next, reporting, peakMax, peakSum, instant, Outcome>>
    BY <1>1 DEF vars, Outcome, Loop
  <2>2. Loops'
    BY <1>1, <2>1, StillUntouched, LoopsGoOn DEF MergeInv, Loops
  <2>3. QED
    BY <1>1, <2>2 DEF vars, directory, search, MergeInv, Lists, Loaded, Nothing,
       InIt, Distinct, Directory, Good, Usable, Entry, ExpectedHosts, Kept, Count
<1>2. CASE Find
  BY <1>2, ManifestKeeps, NoManifestKeeps, ByManifestKeeps, ListKeeps, LookKeeps,
     SeenKeeps, LoadKeeps, LoadedKeeps DEF Find
<1>3. CASE Merge
  BY <1>3, LoopsKeep
<1>4. CASE \E n \in Names : \E file \in Written[n] : Publish(n, file)
  BY <1>4, PublishKeeps
<1>5. QED
  BY <1>1, <1>2, <1>3, <1>4 DEF NextMerge

(* The search, the loading and the loops, in every directory.              *)
THEOREM MergeAlways == SpecMerge => []MergeInv
<1>1. QED
  BY MergeInitially, MergePreserved, PTL DEF SpecMerge

(* For every directory, manifest and timing of the loggers: no document is *)
(* merged twice and none of another job is.                                *)
THEOREM OnlyThisJob == SpecMerge => []OnlyThisJobOnce
<1>1. MergeInv => OnlyThisJobOnce
  BY DEF MergeInv, Lists, Loaded, OnlyThisJobOnce, Distinct, InIt
<1>2. QED
  BY <1>1, MergeAlways, PTL

(* For every directory, whatever else lies in it: a readable summary of    *)
(* this job is merged and its host is not missing.                         *)
THEOREM NoneIgnored == SpecMerge => []NothingReadableIgnored
<1>1. ASSUME MergeInv PROVE NothingReadableIgnored
  <2>1. phase \in {"refused", "merged"} => phase \in Phases /\ readable \subseteq InIt(from)
    BY <1>1 DEF MergeInv, Kept, Phases
  <2>2. /\ from \in Seq(Names) /\ summaries \in Seq(Summary)
        /\ Len(summaries) = Len(from) /\ Loaded
    BY <1>1 DEF MergeInv, Lists
  <2>3. Count = DOMAIN from
    BY <2>2 DEF Count
  <2>4. phase = "refused" => readable = {}
    BY <1>1, <2>1, <2>3 DEF MergeInv, Kept, InIt
  <2>5. ASSUME phase = "merged", NEW n \in readable
        PROVE  n \in ToSet(from) /\ files[n].node.host \notin merged.missing
    <3>1. PICK i \in DOMAIN from : from[i] = n
      BY <2>1, <2>5 DEF InIt
    <3>2. Reports
      BY <1>1, <2>5, PhasesApart DEF MergeInv, Loops, Before_
    <3>3. files[n].node.host \in reporting
      BY <2>2, <2>3, <2>5, <3>1, <3>2 DEF Loaded, Reports, HostsOf
    <3>4. QED
      BY <2>5, <3>1, <3>2, <3>3 DEF Reports, Missing, ToSet
  <2>6. QED
    BY <2>4, <2>5 DEF NothingReadableIgnored
<1>2. QED
  BY <1>1, MergeAlways, PTL

(* The outcome, the peaks and the completeness of MergeSummaries hold of   *)
(* the document run_merge writes, whatever the directory held.             *)
THEOREM MergeKeepsPromises ==
  SpecMerge => [](WorstOutcome /\ PeaksBracket /\ CompleteHostsAreFinal)
<1>1. MergeInv => WorstOutcome /\ PeaksBracket /\ CompleteHostsAreFinal
  <2>1. Inductive /\ Reports => WorstOutcome /\ PeaksBracket /\ CompleteHostsAreFinal
    BY ReportsComplete DEF Inductive, Progress
  <2>2. phase \in Before_ => WorstOutcome /\ PeaksBracket /\ CompleteHostsAreFinal
    BY DEF Before_, WorstOutcome, PeaksBracket, CompleteHostsAreFinal
  <2>3. QED
    BY <2>1, <2>2 DEF MergeInv, Loops
<1>2. QED
  BY <1>1, MergeAlways, PTL
=============================================================================
