------------------------- MODULE ProcessScan_proofs -------------------------
(***************************************************************************)
(* For every process table, any number of pids and cgroups and whatever    *)
(* the kernel does between two reads: no process is counted twice, one of  *)
(* another job only when it was born during the scan, one that nothing     *)
(* happens to always, and the peak is that of every sub-sample.            *)
(*                                                                         *)
(* A pid still to be read holds, if it is alive, one of the job or one     *)
(* born since the scan began (Scanning): a child is of its parent's job    *)
(* and younger.  A process counted already is at a pid that is not to be   *)
(* read again, and that the walk has met (Once).  A steady one not in the  *)
(* queue yet is in a directory still to be read, or has a parent still to  *)
(* be met or asked (SteadyInv).                                            *)
(***************************************************************************)
EXTENDS ProcessScan, Integers, FiniteSetTheorems, TLAPS
-----------------------------------------------------------------------------
(* What appending, shortening and listing do to the elements of a list and *)
(* to its having none twice.                                               *)
Distinct(list) == \A i, j \in DOMAIN list : list[i] = list[j] => i = j
InIt(list) == {list[i] : i \in DOMAIN list}

LEMMA CountTo ==
  ASSUME NEW n \in Nat
  PROVE  IsFiniteSet(1..n) /\ Cardinality(1..n) = n
<1>1. IsFiniteSet(1..n) /\ Cardinality(1..n) = IF 1 > n THEN 0 ELSE n - 1 + 1
  BY FS_Interval
<1>2. QED
  BY <1>1

LEMMA Appended ==
  ASSUME NEW S, NEW list \in Seq(S), NEW x \in S
  PROVE  /\ Append(list, x) \in Seq(S)
         /\ InIt(Append(list, x)) = InIt(list) \union {x}
         /\ Distinct(list) /\ x \notin InIt(list) => Distinct(Append(list, x))
<1>1. /\ Append(list, x) \in Seq(S) /\ Len(list) \in Nat
      /\ DOMAIN list = 1..Len(list) /\ DOMAIN Append(list, x) = 1..(Len(list) + 1)
      /\ \A i \in 1..Len(list) : Append(list, x)[i] = list[i]
      /\ Append(list, x)[Len(list) + 1] = x
  OBVIOUS
<1>2. InIt(Append(list, x)) \subseteq InIt(list) \union {x}
  BY <1>1 DEF InIt
<1>3. InIt(list) \union {x} \subseteq InIt(Append(list, x))
  BY <1>1 DEF InIt
<1>4. ASSUME Distinct(list), x \notin InIt(list)
      PROVE  Distinct(Append(list, x))
  BY <1>1, <1>4 DEF InIt, Distinct
<1>5. QED
  BY <1>1, <1>2, <1>3, <1>4

LEMMA Shortened ==
  ASSUME NEW S, NEW list \in Seq(S), list # <<>>, Distinct(list)
  PROVE  /\ Tail(list) \in Seq(S) /\ Distinct(Tail(list))
         /\ Head(list) \in S /\ Head(list) \in InIt(list)
         /\ InIt(Tail(list)) = InIt(list) \ {Head(list)}
<1>1. /\ Len(list) \in Nat \ {0} /\ Head(list) = list[1] /\ Head(list) \in S
      /\ Tail(list) \in Seq(S) /\ Len(Tail(list)) = Len(list) - 1
      /\ \A i \in 1..(Len(list) - 1) : Tail(list)[i] = list[i + 1]
  OBVIOUS
<1>2. Distinct(Tail(list))
  BY <1>1 DEF Distinct
<1>3. InIt(Tail(list)) = InIt(list) \ {Head(list)}
  <2>1. InIt(Tail(list)) \subseteq InIt(list) \ {Head(list)}
    BY <1>1 DEF Distinct, InIt
  <2>2. ASSUME NEW i \in DOMAIN list, list[i] # Head(list)
        PROVE  list[i] \in InIt(Tail(list))
    <3>1. i - 1 \in 1..(Len(list) - 1) /\ Tail(list)[i - 1] = list[i]
      BY <1>1, <2>2
    <3>2. QED
      BY <1>1, <3>1 DEF InIt
  <2>3. QED
    BY <2>1, <2>2 DEF InIt
<1>4. QED
  BY <1>1, <1>2, <1>3 DEF InIt

(* The elements of a finite set in some order: each of them, and once.     *)
LEMMA Listing ==
  ASSUME NEW S, IsFiniteSet(S)
  PROVE  /\ SetToSeq(S) \in [1..Cardinality(S) -> S]
         /\ \A T : S \subseteq T => SetToSeq(S) \in Seq(T)
         /\ Distinct(SetToSeq(S))
         /\ InIt(SetToSeq(S)) = S
<1>1. ExistsBijection(1..Cardinality(S), S) /\ Cardinality(S) \in Nat
  BY FS_CardinalityType
<1>2. \E f \in [1..Cardinality(S) -> S] : IsInjective(f)
  BY <1>1 DEF ExistsBijection, Bijection, Injection
<1>3. SetToSeq(S) \in [1..Cardinality(S) -> S] /\ IsInjective(SetToSeq(S))
  BY <1>2 DEF SetToSeq
<1>4. IsFiniteSet(1..Cardinality(S)) /\ Cardinality(1..Cardinality(S)) = Cardinality(S)
  BY <1>1, CountTo
<1>5. SetToSeq(S) \in Surjection(1..Cardinality(S), S)
  BY <1>3, <1>4, FS_Injection DEF Injection
<1>6. InIt(SetToSeq(S)) = S
  BY <1>3, <1>5 DEF InIt, Surjection
<1>7. ASSUME NEW T, S \subseteq T PROVE SetToSeq(S) \in Seq(T)
  BY <1>1, <1>3, <1>7
<1>8. QED
  BY <1>3, <1>6, <1>7 DEF IsInjective, Distinct

LEMMA Joined ==
  ASSUME NEW S, NEW one \in Seq(S), NEW two \in Seq(S)
  PROVE  /\ one \o two \in Seq(S)
         /\ InIt(one \o two) = InIt(one) \union InIt(two)
         /\ Distinct(one) /\ Distinct(two) /\ InIt(one) \cap InIt(two) = {}
              => Distinct(one \o two)
<1>1. /\ one \o two \in Seq(S) /\ Len(one) \in Nat /\ Len(two) \in Nat
      /\ DOMAIN (one \o two) = 1..(Len(one) + Len(two))
      /\ DOMAIN one = 1..Len(one) /\ DOMAIN two = 1..Len(two)
      /\ \A i \in 1..Len(one) : (one \o two)[i] = one[i]
      /\ \A i \in (Len(one) + 1)..(Len(one) + Len(two)) :
           (one \o two)[i] = two[i - Len(one)]
  OBVIOUS
<1>2. InIt(one \o two) \subseteq InIt(one) \union InIt(two)
  BY <1>1 DEF InIt
<1>3. InIt(one) \subseteq InIt(one \o two)
  BY <1>1 DEF InIt
<1>4. InIt(two) \subseteq InIt(one \o two)
  <2>1. ASSUME NEW i \in 1..Len(two) PROVE two[i] \in InIt(one \o two)
    <3>1. /\ Len(one) + i \in (Len(one) + 1)..(Len(one) + Len(two))
          /\ (Len(one) + i) - Len(one) = i
      BY <1>1
    <3>2. (one \o two)[Len(one) + i] = two[i] /\ Len(one) + i \in DOMAIN (one \o two)
      BY <1>1, <3>1
    <3>3. QED
      BY <3>2 DEF InIt
  <2>2. QED
    BY <1>1, <2>1 DEF InIt
<1>5. ASSUME Distinct(one), Distinct(two), InIt(one) \cap InIt(two) = {}
      PROVE  Distinct(one \o two)
  <2>1. SUFFICES ASSUME NEW i \in DOMAIN (one \o two), NEW j \in DOMAIN (one \o two),
                        (one \o two)[i] = (one \o two)[j]
                 PROVE  i = j
    BY DEF Distinct
  <2> DEFINE k(x) == x - Len(one)
  <2>2. CASE i \in DOMAIN one /\ j \in DOMAIN one
    BY <1>1, <1>5, <2>1, <2>2 DEF Distinct
  <2>3. CASE i \notin DOMAIN one /\ j \notin DOMAIN one
    <3>1. /\ k(i) \in DOMAIN two /\ (one \o two)[i] = two[k(i)]
          /\ k(j) \in DOMAIN two /\ (one \o two)[j] = two[k(j)]
      BY <1>1, <2>3
    <3>2. k(i) = k(j)
      BY <1>5, <2>1, <3>1 DEF Distinct
    <3>3. QED
      BY <1>1, <3>2
  <2>4. ASSUME NEW a \in DOMAIN one, NEW b \in DOMAIN (one \o two), b \notin DOMAIN one
        PROVE  (one \o two)[a] # (one \o two)[b]
    <3>1. (one \o two)[a] \in InIt(one)
      BY <1>1 DEF InIt
    <3>2. k(b) \in DOMAIN two /\ (one \o two)[b] = two[k(b)]
      BY <1>1, <2>4
    <3>3. (one \o two)[b] \in InIt(two)
      BY <3>2 DEF InIt
    <3>4. QED
      BY <1>5, <3>1, <3>3
  <2>5. QED
    BY <2>1, <2>2, <2>3, <2>4
<1>6. QED
  BY <1>1, <1>2, <1>3, <1>4, <1>5

(* Every nonempty set of numbers has a least one.                          *)
LEMMA LeastNumber ==
  ASSUME NEW S \in SUBSET Nat, S # {}
  PROVE  \E m \in S : \A k \in S : m <= k
<1>1. IsWellFoundedOn(OpToRel(<, Nat), Nat)
  BY NatLessThanWellFounded, Zenon
<1>2. PICK m \in S : \A k \in S : <<k, m>> \notin OpToRel(<, Nat)
  BY <1>1, WFMin
<1>3. \A k \in S : ~(k < m)
  BY <1>2, Zenon DEF OpToRel
<1>4. QED
  BY <1>3
-----------------------------------------------------------------------------

Table ==
  /\ births \in Nat /\ Alive \subseteq Pids /\ ours \subseteq 1..births
  /\ \A p \in Alive :
       /\ table[p] \in Process /\ table[p].id \in 1..births
       /\ table[p].id \in ours <=> table[p].dir \in JobDirs
       /\ \A q \in Alive : table[q].id = table[p].id => q = p
       /\ table[p].parent # 0 =>
            /\ table[p].parent \in Alive
            /\ table[table[p].parent].id < table[p].id
            /\ table[table[p].parent].id \in ours <=> table[p].id \in ours

Reading == phase \in {"stat", "detail", "children", "proc"}

Control ==
  /\ mode \in Modes /\ depth \in DOMAIN Chain /\ pid \in Pids
  /\ phase \in {"idle", "list", "pop", "done"} \/ Reading
  /\ queue \in Seq(Pids) /\ visited \subseteq Pids /\ left \subseteq Pids
  /\ phase \in {"idle", "done"} => queue = <<>>
  /\ phase = "list" => mode = "cgroup"
  /\ phase \in {"children", "proc"} => mode # "cgroup"
  /\ mode # "cgroup" => InIt(queue) \subseteq visited /\ (Reading => pid \in visited)

Mine(id) == id \in ours \/ id > begun.births
ToRead(p) == p \in InIt(queue) \/ (Reading /\ p = pid)

Scanning ==
  /\ begun.births \in 0..births
  /\ begun.ours =>
       /\ \A p \in Alive : ToRead(p) => Mine(table[p].id)
       /\ \A id \in InIt(counted) \union InIt(detail) : Mine(id)

Past(p) == p \notin InIt(queue) /\ (mode # "cgroup" => p \in visited)

Once ==
  /\ counted \in Seq(1..births) /\ Distinct(counted)
  /\ detail \in Seq(1..births) /\ Distinct(detail)
  /\ phase \in {"idle", "list"} => counted = <<>> /\ detail = <<>>
  /\ phase # "list" => Distinct(queue)
  /\ Reading => pid \notin InIt(queue)
  /\ \A p \in Alive :
       /\ table[p].id \in InIt(counted) => Past(p) /\ (phase = "stat" => p # pid)
       /\ table[p].id \in InIt(detail) =>
            Past(p) /\ (phase \in {"stat", "detail"} => p # pid)

ScanInv == Table /\ Control /\ Scanning /\ Once
-----------------------------------------------------------------------------
LEMMA EmptyList == InIt(<<>>) = {} /\ Distinct(<<>>) /\ \A S : <<>> \in Seq(S)
BY DEF InIt, Distinct

LEMMA OneInList ==
  ASSUME NEW S, NEW x \in S
  PROVE  <<x>> \in Seq(S) /\ InIt(<<x>>) = {x} /\ Distinct(<<x>>)
BY DEF InIt, Distinct

LEMMA ScanInitially == Init => ScanInv
<1> SUFFICES ASSUME Init PROVE ScanInv
  OBVIOUS
<1>1. /\ table = First /\ births = Cardinality(DOMAIN First)
      /\ ours = {First[p].id : p \in {q \in DOMAIN First : First[q].dir \in JobDirs}}
  BY DEF Init
<1>2. births \in Nat /\ IsFiniteSet(DOMAIN First)
  BY <1>1, FirstAssumption, FS_Subset, FS_CardinalityType
<1>3. Table
  <2>1. \A p \in Alive : table[p].id \in ours <=> table[p].dir \in JobDirs
    BY <1>1, FirstAssumption DEF Alive
  <2>2. \A p \in Alive : table[p].parent # 0 =>
          /\ table[p].parent \in Alive
          /\ table[table[p].parent].dir \in JobDirs <=> table[p].dir \in JobDirs
    BY <1>1, FirstAssumption DEF Alive, JobDirs
  <2>3. QED
    BY <1>1, <1>2, <2>1, <2>2, FirstAssumption DEF Table, Alive
<1>4. /\ phase = "idle" /\ queue = <<>> /\ counted = <<>> /\ detail = <<>>
      /\ pid = TreePid /\ depth = 1 /\ mode \in Modes /\ visited = {} /\ left = {}
      /\ begun = [births |-> 0, ours |-> TRUE]
  BY DEF Init
<1>5. Control
  BY <1>4, EmptyList, ChainAssumption, PidsAssumption DEF Control, Reading
<1>6. Scanning /\ Once
  BY <1>2, <1>4, EmptyList DEF Scanning, Once, ToRead, Reading
<1>7. QED
  BY <1>3, <1>5, <1>6 DEF ScanInv
-----------------------------------------------------------------------------
(* The kernel changes no process it leaves alive, and births are numbered. *)
LEMMA KernelKeepsScan ==
  ASSUME ScanInv, births' \in Nat, births <= births', ours \subseteq ours',
         UNCHANGED <<mode, phase, walk, sums, begun>>,
         \A p \in DOMAIN table' :
           \/ p \in Alive /\ table'[p].id = table[p].id
           \/ table'[p].id \in Nat /\ table'[p].id > births
  PROVE  (Control /\ Scanning /\ Once)'
<1>1. /\ UNCHANGED <<depth, queue, visited, pid, left, counted, detail, InIt(queue)>>
      /\ Reading' = Reading /\ InIt(counted)' = InIt(counted)
      /\ InIt(detail)' = InIt(detail)
  BY DEF walk, sums, Reading, InIt
<1>2. Table /\ Control /\ Scanning /\ Once /\ births \in Nat
  BY DEF ScanInv, Table
<1>3. InIt(counted) \subseteq 1..births /\ InIt(detail) \subseteq 1..births
  BY <1>2 DEF Once, InIt
<1>4. Control'
  BY <1>1, <1>2 DEF Control
<1> DEFINE MineNow(id) == id \in ours' \/ id > begun'.births
<1>5. \A id : Mine(id) => MineNow(id)
  BY DEF Mine
<1>6. \A p \in Alive' : \/ p \in Alive /\ table'[p].id = table[p].id
                        \/ table'[p].id \notin 1..births /\ MineNow(table'[p].id)
  <2>1. begun'.births \in 0..births /\ births \in Nat
    BY <1>2 DEF Scanning
  <2>2. QED
    BY <2>1 DEF Alive
<1>7. \A p : ToRead(p)' = ToRead(p) /\ Past(p)' = Past(p)
  BY <1>1 DEF ToRead, Past
<1>8. Scanning'
  BY <1>1, <1>2, <1>5, <1>6, <1>7 DEF Scanning, Mine
<1>9. counted' \in Seq(1..births') /\ detail' \in Seq(1..births')
  BY <1>1, <1>2 DEF Once
<1>10. Distinct(counted)' /\ Distinct(detail)' /\ Distinct(queue)' = Distinct(queue)
  BY <1>1, <1>2 DEF Once, Distinct
<1>11. \A p \in Alive' :
         /\ table'[p].id \in InIt(counted) => Past(p) /\ (phase = "stat" => p # pid)
         /\ table'[p].id \in InIt(detail) =>
              Past(p) /\ (phase \in {"stat", "detail"} => p # pid)
  BY <1>2, <1>3, <1>6 DEF Once
<1>12. Once'
  BY <1>1, <1>2, <1>7, <1>9, <1>10, <1>11 DEF Once
<1>13. QED
  BY <1>4, <1>8, <1>12

LEMMA ForkKeeps ==
  ASSUME ScanInv, NEW p \in Pids, NEW q \in Pids, NEW main \in BOOLEAN, Fork(p, q, main)
  PROVE  ScanInv'
<1>1. /\ p \in Alive /\ q \in Pids \ Alive /\ births' = births + 1
      /\ ours' = IF table[p].dir \in JobDirs THEN ours \union {births'} ELSE ours
      /\ table' = [r \in Alive \union {q} |->
                    IF r # q THEN table[r]
                    ELSE [id |-> births', parent |-> p, main |-> main,
                          dir |-> table[p].dir]]
      /\ UNCHANGED <<mode, phase, walk, sums, begun>>
  BY DEF Fork, Happens
<1>2. Table /\ births \in Nat
  BY DEF ScanInv, Table
<1>3. /\ Alive' = Alive \union {q} /\ \A r \in Alive : table'[r] = table[r]
      /\ table'[q].id = births + 1 /\ table'[q].parent = p
      /\ table'[q].dir = table[p].dir
  BY <1>1 DEF Alive
<1>4. Table'
  <2>1. \A r \in Alive : table[r].id \in ours' <=> table[r].id \in ours
    BY <1>1, <1>2 DEF Table
  <2>2. births + 1 \in ours' <=> table[p].dir \in JobDirs
    BY <1>1, <1>2 DEF Table
  <2>3. births' \in Nat /\ Alive' \subseteq Pids /\ ours' \subseteq 1..births'
    BY <1>1, <1>2, <1>3 DEF Table
  <2>4. ASSUME NEW r \in Alive'
        PROVE  /\ table'[r] \in Process /\ table'[r].id \in 1..births'
               /\ table'[r].id \in ours' <=> table'[r].dir \in JobDirs
               /\ \A s \in Alive' : table'[s].id = table'[r].id => s = r
               /\ table'[r].parent # 0 =>
                    /\ table'[r].parent \in Alive'
                    /\ table'[table'[r].parent].id < table'[r].id
                    /\ table'[table'[r].parent].id \in ours' <=> table'[r].id \in ours'
    <3>1. CASE r = q
      <4>1. table[p] \in Process /\ table[p].id \in 1..births /\ p # 0
        BY <1>1, <1>2, PidsAssumption DEF Table
      <4>2. table'[q] = [id |-> births + 1, parent |-> p, main |-> main,
                         dir |-> table[p].dir]
        BY <1>1
      <4>3. table'[q] \in Process
        BY <1>2, <4>1, <4>2 DEF Process
      <4>4. \A s \in Alive' : table'[s].id = births + 1 => s = q
        BY <1>2, <1>3 DEF Table
      <4>5. table'[p].id \in ours' <=> table'[q].id \in ours'
        BY <1>1, <1>2, <1>3, <2>1, <2>2 DEF Table
      <4>6. /\ table'[q].id = births' /\ births' = births + 1 /\ births' \in 1..births'
            /\ table'[q].parent = p /\ p \in Alive' /\ table'[p].id < births'
        BY <1>1, <1>2, <1>3, <4>1
      <4>7. table'[q].id \in ours' <=> table'[q].dir \in JobDirs
        BY <1>3, <2>2
      <4>8. QED
        BY <3>1, <4>3, <4>4, <4>5, <4>6, <4>7
    <3>2. CASE r \in Alive
      BY <1>1, <1>2, <1>3, <2>1, <3>2 DEF Table
    <3>3. QED
      BY <1>3, <3>1, <3>2
  <2>5. JobDirs' = JobDirs
    BY DEF JobDirs
  <2>6. QED
    BY <2>3, <2>4, <2>5 DEF Table
<1>5. (Control /\ Scanning /\ Once)'
  BY <1>1, <1>2, <1>3, KernelKeepsScan DEF Alive
<1>6. QED
  BY <1>4, <1>5 DEF ScanInv

LEMMA ExitKeeps ==
  ASSUME ScanInv, NEW p \in Pids, Exit(p)
  PROVE  ScanInv'
<1>1. /\ p \in Alive /\ UNCHANGED <<births, ours, mode, phase, walk, sums, begun>>
      /\ table' = [q \in Alive \ {p} |->
                     IF table[q].parent = p
                       THEN [table[q] EXCEPT !.parent = 0, !.main = TRUE]
                       ELSE table[q]]
  BY DEF Exit, Happens
<1>2. Table
  BY DEF ScanInv
<1>3. Alive' = Alive \ {p}
  BY <1>1 DEF Alive
<1>4. \A q \in Alive' : /\ table'[q].id = table[q].id /\ table'[q].dir = table[q].dir
                        /\ table'[q].parent \in {0, table[q].parent} \ {p}
                        /\ table'[q] \in Process
  <2>1. 0 # p
    BY PidsAssumption
  <2>2. \A q \in Alive : table[q] \in Process
    BY <1>2 DEF Table
  <2>3. QED
    BY <1>1, <1>3, <2>1, <2>2 DEF Process
<1>5. Table'
  <2>1. ASSUME NEW q \in Alive', table'[q].parent # 0
        PROVE  /\ table'[q].parent \in Alive'
               /\ table'[table'[q].parent].id < table'[q].id
               /\ table'[table'[q].parent].id \in ours <=> table'[q].id \in ours
    BY <1>2, <1>3, <1>4, <2>1 DEF Table
  <2>2. \A q \in Alive' :
          /\ table'[q].id \in 1..births
          /\ table'[q].id \in ours <=> table'[q].dir \in JobDirs
          /\ \A r \in Alive' : table'[r].id = table'[q].id => r = q
    BY <1>2, <1>3, <1>4 DEF Table
  <2>3. JobDirs' = JobDirs
    BY DEF JobDirs
  <2>4. /\ births' = births /\ ours' = ours /\ births \in Nat
        /\ ours \subseteq 1..births /\ Alive' \subseteq Pids
    BY <1>1, <1>2, <1>3 DEF Table
  <2>5. QED
    BY <1>4, <2>1, <2>2, <2>3, <2>4 DEF Table
<1>6. (Control /\ Scanning /\ Once)'
  <2>1. \A q \in DOMAIN table' : q \in Alive /\ table'[q].id = table[q].id
    BY <1>3, <1>4 DEF Alive
  <2>2. births \in Nat /\ births' = births /\ ours' = ours
    BY <1>1, <1>2 DEF Table
  <2>3. births' \in Nat /\ births <= births' /\ ours \subseteq ours'
    BY <2>2
  <2>4. QED
    BY <1>1, <2>1, <2>3, KernelKeepsScan
<1>7. QED
  BY <1>5, <1>6 DEF ScanInv

LEMMA MoveKeeps ==
  ASSUME ScanInv, NEW p \in Pids, NEW dir \in JobDirs, Move(p, dir)
  PROVE  ScanInv'
<1>1. /\ p \in Alive /\ table[p].dir \in JobDirs
      /\ UNCHANGED <<births, ours, mode, phase, walk, sums, begun>>
      /\ table' = [table EXCEPT ![p].dir = dir]
  BY DEF Move, Happens
<1>2. Table
  BY DEF ScanInv
<1>3. Alive' = Alive
  BY <1>1 DEF Alive
<1>4. \A q \in Alive : /\ table'[q].id = table[q].id
                       /\ table'[q].parent = table[q].parent
                       /\ table'[q].dir \in JobDirs <=> table[q].dir \in JobDirs
                       /\ table'[q] \in Process
  <2>1. \A q \in Alive : table[q] \in Process
    BY <1>2 DEF Table
  <2>2. QED
    BY <1>1, <2>1 DEF Alive, Process, JobDirs
<1>5. Table'
  BY <1>1, <1>2, <1>3, <1>4 DEF Table
<1>6. (Control /\ Scanning /\ Once)'
  BY <1>1, <1>2, <1>3, <1>4, KernelKeepsScan DEF Alive, Table
<1>7. QED
  BY <1>5, <1>6 DEF ScanInv
-----------------------------------------------------------------------------
LEMMA TableStays == Table /\ UNCHANGED <<table, births, ours>> => Table'
<1> SUFFICES ASSUME Table, UNCHANGED <<table, births, ours>> PROVE Table'
  OBVIOUS
<1>1. UNCHANGED <<table, births, ours, Alive>>
  BY DEF Alive
<1>2. QED
  BY <1>1 DEF Table, JobDirs

LEMMA BeginKeeps == ScanInv /\ Begin => ScanInv'
<1> SUFFICES ASSUME ScanInv, Begin PROVE ScanInv'
  OBVIOUS
<1>1. /\ phase = "idle" /\ UNCHANGED <<table, births, ours, mode, depth, pid, left>>
      /\ counted' = counted /\ detail' = detail
      /\ queue' = IF mode = "cgroup" THEN <<>> ELSE <<TreePid>>
      /\ visited' = IF mode = "cgroup" THEN {} ELSE {TreePid}
      /\ phase' = IF mode = "cgroup" THEN "list" ELSE "pop"
      /\ begun'.births = births
      /\ begun'.ours => (mode # "cgroup" => /\ TreePid \in Alive
                                            /\ table[TreePid].id \in ours)
  BY DEF Begin, sums
<1>2. Table /\ Control /\ Once /\ births \in Nat
  BY DEF ScanInv, Table
<1>3. counted = <<>> /\ detail = <<>> /\ InIt(counted) = {} /\ InIt(detail) = {}
  BY <1>1, <1>2, EmptyList DEF Once
<1>4. Table'
  BY <1>1, <1>2, TableStays
<1>5. queue' \in Seq(Pids) /\ Distinct(queue') /\ InIt(queue') = visited'
  BY <1>1, EmptyList, OneInList, PidsAssumption
<1>6. ~Reading' /\ Alive' = Alive
  BY <1>1 DEF Reading, Alive
<1>7. Control'
  <2>1. phase' \in {"list", "pop"} /\ (phase' = "list" => mode = "cgroup")
    BY <1>1
  <2>2. visited' \subseteq Pids
    BY <1>1, PidsAssumption
  <2>3. /\ mode' \in Modes /\ depth' \in DOMAIN Chain /\ pid' \in Pids
        /\ left' \subseteq Pids /\ mode' = mode
    BY <1>1, <1>2 DEF Control
  <2>4. QED
    BY <1>5, <1>6, <2>1, <2>2, <2>3 DEF Control
<1>8. Scanning'
  <2>1. begun'.births \in 0..births'
    BY <1>1, <1>2
  <2>2. ASSUME begun'.ours, NEW p \in Alive, p \in InIt(queue')
        PROVE  table[p].id \in ours
    <3>1. mode # "cgroup" /\ p = TreePid
      BY <1>1, <1>5, <2>2
    <3>2. QED
      BY <1>1, <2>2, <3>1
  <2>3. InIt(counted)' = {} /\ InIt(detail)' = {}
    BY <1>1, <1>3
  <2>4. QED
    BY <1>1, <1>6, <2>1, <2>2, <2>3 DEF Scanning, ToRead, Mine
<1>9. Once'
  <2>1. /\ counted' = <<>> /\ detail' = <<>>
        /\ InIt(counted)' = {} /\ InIt(detail)' = {}
    BY <1>1, <1>3
  <2>2. QED
    BY <1>2, <1>5, <1>6, <2>1, EmptyList DEF Once
<1>10. QED
  BY <1>4, <1>7, <1>8, <1>9 DEF ScanInv

(* The list grows by those in the directory, and when it is complete has   *)
(* none twice.                                                             *)
LEMMA DirListed ==
  ASSUME ScanInv, ReadDir
  PROVE  LET here == {p \in Alive : table[p].dir = Chain[depth]}
         IN  /\ queue' \in Seq(Pids) /\ InIt(queue') = InIt(queue) \union here
             /\ phase' # "list" => Distinct(queue')
<1> DEFINE here == {p \in Alive : table[p].dir = Chain[depth]}
           listed == queue \o SetToSeq(here)
<1>1. /\ phase = "list" /\ Table /\ Control
      /\ \/ queue' = listed /\ phase' = "list"
         \/ queue' = Dedup(listed) /\ phase' = "pop"
  BY DEF ReadDir, ScanInv
<1>2. here \subseteq Pids /\ IsFiniteSet(here)
  <2>1. here \subseteq Pids
    BY <1>1 DEF Table
  <2>2. QED
    BY <2>1, FirstAssumption, FS_Subset
<1>3. SetToSeq(here) \in Seq(Pids) /\ InIt(SetToSeq(here)) = here
  BY <1>2, Listing
<1> HIDE DEF here
<1>4. listed \in Seq(Pids) /\ InIt(listed) = InIt(queue) \union here
  BY <1>1, <1>3, Joined DEF Control
<1>5. /\ Dedup(listed) \in Seq(Pids) /\ Distinct(Dedup(listed))
      /\ InIt(Dedup(listed)) = InIt(listed)
  <2>1. ToSet(listed) = InIt(listed) /\ InIt(listed) \subseteq Pids
    BY <1>4 DEF ToSet, InIt
  <2>2. IsFiniteSet(ToSet(listed))
    BY <2>1, FirstAssumption, FS_Subset
  <2>3. QED
    BY <2>1, <2>2, Listing DEF Dedup
<1>6. QED
  BY <1>1, <1>4, <1>5 DEF here

LEMMA ReadDirKeeps == ScanInv /\ ReadDir => ScanInv'
<1> SUFFICES ASSUME ScanInv, ReadDir PROVE ScanInv'
  OBVIOUS
<1> DEFINE here == {p \in Alive : table[p].dir = Chain[depth]}
<1>1. /\ phase = "list" /\ UNCHANGED <<kernel, mode, visited, pid, left, begun>>
      /\ UNCHANGED <<table, births, ours, counted, detail>>
      /\ \/ Deeper /\ depth' = depth + 1 /\ phase' = "list"
         \/ depth' = depth /\ phase' = "pop"
  BY DEF ReadDir, sums, kernel
<1>2. Table /\ Control /\ Scanning /\ Once /\ mode = "cgroup" /\ births \in Nat
  BY <1>1 DEF ScanInv, Table, Control
<1>3. Alive' = Alive /\ Table'
  BY <1>1, <1>2, TableStays DEF Alive
<1>4. Chain[depth] \in JobDirs
  BY <1>2 DEF Control, JobDirs, ToSet
<1>5. phase' # "list" => Distinct(queue')
  BY DirListed
<1>6. queue' \in Seq(Pids) /\ InIt(queue') \subseteq InIt(queue) \union here
  BY DirListed
<1>7. ~Reading /\ ~Reading'
  BY <1>1 DEF Reading
<1>8. Control'
  <2>1. depth' \in DOMAIN Chain
    BY <1>1, <1>2, ChainAssumption DEF Control, Deeper
  <2>2. phase' \in {"list", "pop"} /\ mode' = "cgroup"
    BY <1>1, <1>2
  <2>3. mode' \in Modes /\ pid' \in Pids /\ visited' \subseteq Pids /\ left' \subseteq Pids
    BY <1>1, <1>2 DEF Control
  <2>4. QED
    BY <1>6, <1>7, <2>1, <2>2, <2>3 DEF Control
<1>9. Scanning'
  <2>1. \A p \in here : table[p].id \in ours
    BY <1>2, <1>4 DEF Table
  <2>2. \A p \in Alive : p \in InIt(queue') => p \in InIt(queue) \/ table[p].id \in ours
    BY <1>6, <2>1
  <2>3. InIt(counted)' = InIt(counted) /\ InIt(detail)' = InIt(detail)
    BY <1>1 DEF InIt
  <2>4. QED
    BY <1>1, <1>2, <1>3, <1>7, <2>2, <2>3 DEF Scanning, ToRead, Mine
<1>10. Once'
  <2>1. /\ counted' = <<>> /\ detail' = <<>>
        /\ InIt(counted)' = {} /\ InIt(detail)' = {}
    BY <1>1, <1>2, EmptyList DEF Once
  <2>2. phase' # "list" => Distinct(queue')
    BY <1>5
  <2>3. QED
    BY <1>7, <2>1, <2>2, EmptyList DEF Once
<1>11. QED
  BY <1>3, <1>8, <1>9, <1>10 DEF ScanInv

LEMMA PopKeeps == ScanInv /\ Pop => ScanInv'
<1> SUFFICES ASSUME ScanInv, Pop PROVE ScanInv'
  OBVIOUS
<1>1. /\ phase = "pop" /\ queue # <<>> /\ phase' = "stat"
      /\ pid' = Head(queue) /\ queue' = Tail(queue)
      /\ UNCHANGED <<kernel, mode, depth, visited, left, begun>>
      /\ UNCHANGED <<table, births, ours, counted, detail>>
  BY DEF Pop, sums, kernel
<1>2. Table /\ Control /\ Scanning /\ Once
  BY DEF ScanInv
<1>3. Alive' = Alive /\ Table'
  BY <1>1, <1>2, TableStays DEF Alive
<1>4. /\ queue' \in Seq(Pids) /\ Distinct(queue')
      /\ pid' \in Pids /\ pid' \in InIt(queue)
      /\ InIt(queue') = InIt(queue) \ {pid'}
  BY <1>1, <1>2, Shortened DEF Control, Once
<1>5. Reading' /\ ~Reading
  BY <1>1 DEF Reading
<1>6. Control'
  BY <1>1, <1>2, <1>4, <1>5 DEF Control
<1>7. InIt(counted)' = InIt(counted) /\ InIt(detail)' = InIt(detail)
  BY <1>1 DEF InIt
<1>8. Scanning'
  <2>1. \A p : ToRead(p)' => ToRead(p)
    BY <1>4, <1>5 DEF ToRead
  <2>2. QED
    BY <1>1, <1>2, <1>3, <1>7, <2>1 DEF Scanning, Mine
<1>9. Once'
  <2>1. \A p : Past(p) => Past(p)' /\ p # pid'
    BY <1>1, <1>4 DEF Past
  <2>2. QED
    BY <1>1, <1>2, <1>3, <1>4, <1>7, <2>1 DEF Once, Distinct
<1>10. QED
  BY <1>3, <1>6, <1>8, <1>9 DEF ScanInv

(* What a read appends to the list of those counted was not there before.  *)
LEMMA StatKeeps == ScanInv /\ ReadStat => ScanInv'
<1> SUFFICES ASSUME ScanInv, ReadStat PROVE ScanInv'
  OBVIOUS
<1>1. /\ phase = "stat" /\ UNCHANGED <<mode, depth, queue, visited, pid, left, begun>>
      /\ UNCHANGED <<table, births, ours, detail>>
      /\ IF pid \in Alive THEN counted' = Append(counted, table[pid].id) /\ phase' = "detail"
                          ELSE counted' = counted /\ phase' = ThenChildren
  BY DEF ReadStat, walk, kernel
<1>2. Table /\ Control /\ Scanning /\ Once
  BY DEF ScanInv
<1>3. Alive' = Alive /\ Table' /\ Reading
  BY <1>1, <1>2, TableStays DEF Alive, Reading
<1>4. phase' \in {"detail", "pop", "children"} /\ (phase' = "children" => mode # "cgroup")
  BY <1>1, Zenon DEF ThenChildren
<1>5. Control'
  BY <1>1, <1>2, <1>3, <1>4 DEF Control, Reading
<1>6. InIt(queue)' = InIt(queue) /\ InIt(detail)' = InIt(detail)
  BY <1>1 DEF InIt
<1>7. /\ counted' \in Seq(1..births) /\ Distinct(counted')
      /\ InIt(counted') = IF pid \in Alive THEN InIt(counted) \union {table[pid].id}
                                          ELSE InIt(counted)
  <2>1. counted \in Seq(1..births) /\ Distinct(counted)
    BY <1>2 DEF Once
  <2>2. pid \in Alive => /\ table[pid].id \in 1..births
                         /\ table[pid].id \notin InIt(counted)
    BY <1>1, <1>2 DEF Table, Once
  <2>3. CASE pid \in Alive
    <3> DEFINE id == table[pid].id
    <3>1. counted' = Append(counted, id)
      BY <1>1, <2>3
    <3>2. id \in 1..births /\ id \notin InIt(counted)
      BY <2>2, <2>3
    <3> DEFINE ids == 1..births
    <3> HIDE DEF id, ids
    <3>3. counted \in Seq(ids) /\ Distinct(counted) /\ id \in ids
      BY <2>1, <3>2 DEF ids
    <3>4. /\ Append(counted, id) \in Seq(ids) /\ Distinct(Append(counted, id))
          /\ InIt(Append(counted, id)) = InIt(counted) \union {id}
      BY <3>2, <3>3, Appended
    <3>5. QED
      BY <2>3, <3>1, <3>4 DEF id, ids
  <2>4. QED
    BY <1>1, <2>1, <2>3
<1>8. Scanning'
  <2>1. \A p : ToRead(p)' => ToRead(p)
    BY <1>1, <1>3, <1>6 DEF ToRead
  <2>2. pid \in Alive => ToRead(pid)
    BY <1>3 DEF ToRead
  <2>3. QED
    BY <1>1, <1>2, <1>3, <1>6, <1>7, <2>1, <2>2 DEF Scanning, Mine
<1>9. Once'
  <2>1. /\ births' = births /\ \A p : Past(p)' = Past(p)
        /\ Distinct(queue)' = Distinct(queue) /\ Distinct(detail)' = Distinct(detail)
    BY <1>1, <1>6 DEF Past, Distinct
  <2>2. pid \in Alive => Past(pid)
    BY <1>2, <1>3 DEF Past, Control, Once
  <2>3. ASSUME NEW p \in Alive'
        PROVE  /\ table'[p].id \in InIt(counted') =>
                    Past(p) /\ (phase' = "stat" => p # pid')
               /\ table'[p].id \in InIt(detail') =>
                    Past(p) /\ (phase' \in {"stat", "detail"} => p # pid')
    <3>1. table[p].id \in InIt(detail) => Past(p) /\ p # pid
      BY <1>1, <1>2, <1>3 DEF Once
    <3>2. table[p].id \in InIt(counted') => Past(p)
      <4>1. CASE table[p].id \in InIt(counted)
        BY <1>2, <1>3, <4>1 DEF Once
      <4>2. CASE pid \in Alive /\ table[p].id = table[pid].id
        BY <1>2, <1>3, <2>2, <4>2 DEF Table
      <4>3. QED
        BY <1>7, <4>1, <4>2
    <3>3. QED
      BY <1>1, <1>4, <1>6, <3>1, <3>2
  <2>4. phase' # "list" /\ phase' # "idle" /\ Distinct(queue) /\ pid \notin InIt(queue)
    BY <1>1, <1>2, <1>3, <1>4 DEF Once
  <2>5. detail \in Seq(1..births) /\ Distinct(detail)
    BY <1>2 DEF Once
  <2>6. QED
    BY <1>1, <1>6, <1>7, <2>1, <2>3, <2>4, <2>5 DEF Once
<1>10. QED
  BY <1>3, <1>5, <1>8, <1>9 DEF ScanInv

LEMMA DetailKeeps == ScanInv /\ ReadDetail => ScanInv'
<1> SUFFICES ASSUME ScanInv, ReadDetail PROVE ScanInv'
  OBVIOUS
<1>1. /\ phase = "detail" /\ phase' = ThenChildren
      /\ UNCHANGED <<mode, depth, queue, visited, pid, left, begun>>
      /\ UNCHANGED <<table, births, ours, counted>>
      /\ detail' = IF pid \in Alive THEN Append(detail, table[pid].id) ELSE detail
  BY DEF ReadDetail, walk, kernel
<1>2. Table /\ Control /\ Scanning /\ Once
  BY DEF ScanInv
<1>3. Alive' = Alive /\ Table' /\ Reading
  BY <1>1, <1>2, TableStays DEF Alive, Reading
<1>4. phase' \in {"pop", "children"} /\ (phase' = "children" => mode # "cgroup")
  BY <1>1, Zenon DEF ThenChildren
<1>5. Control'
  BY <1>1, <1>2, <1>3, <1>4 DEF Control, Reading
<1>6. InIt(queue)' = InIt(queue) /\ InIt(counted)' = InIt(counted)
  BY <1>1 DEF InIt
<1>7. /\ detail' \in Seq(1..births) /\ Distinct(detail')
      /\ InIt(detail') = IF pid \in Alive THEN InIt(detail) \union {table[pid].id}
                                         ELSE InIt(detail)
  <2>1. detail \in Seq(1..births) /\ Distinct(detail)
    BY <1>2 DEF Once
  <2>2. pid \in Alive => /\ table[pid].id \in 1..births
                         /\ table[pid].id \notin InIt(detail)
    BY <1>1, <1>2 DEF Table, Once
  <2>3. CASE pid \in Alive
    <3> DEFINE id == table[pid].id
    <3>1. detail' = Append(detail, id)
      BY <1>1, <2>3
    <3>2. id \in 1..births /\ id \notin InIt(detail)
      BY <2>2, <2>3
    <3> DEFINE ids == 1..births
    <3> HIDE DEF id, ids
    <3>3. detail \in Seq(ids) /\ Distinct(detail) /\ id \in ids
      BY <2>1, <3>2 DEF ids
    <3>4. /\ Append(detail, id) \in Seq(ids) /\ Distinct(Append(detail, id))
          /\ InIt(Append(detail, id)) = InIt(detail) \union {id}
      BY <3>2, <3>3, Appended
    <3>5. QED
      BY <2>3, <3>1, <3>4 DEF id, ids
  <2>4. QED
    BY <1>1, <2>1, <2>3
<1>8. Scanning'
  <2>1. \A p : ToRead(p)' => ToRead(p)
    BY <1>1, <1>3, <1>6 DEF ToRead
  <2>2. pid \in Alive => ToRead(pid)
    BY <1>3 DEF ToRead
  <2>3. QED
    BY <1>1, <1>2, <1>3, <1>6, <1>7, <2>1, <2>2 DEF Scanning, Mine
<1>9. Once'
  <2>1. /\ births' = births /\ \A p : Past(p)' = Past(p)
        /\ Distinct(queue)' = Distinct(queue) /\ Distinct(counted)' = Distinct(counted)
    BY <1>1, <1>6 DEF Past, Distinct
  <2>2. pid \in Alive => Past(pid)
    BY <1>2, <1>3 DEF Past, Control, Once
  <2>3. ASSUME NEW p \in Alive'
        PROVE  /\ table'[p].id \in InIt(counted') => Past(p)
               /\ table'[p].id \in InIt(detail') => Past(p)
    <3>1. table[p].id \in InIt(counted) \union InIt(detail) => Past(p)
      BY <1>2, <1>3 DEF Once
    <3>2. pid \in Alive /\ table[p].id = table[pid].id => Past(p)
      BY <1>2, <1>3, <2>2 DEF Table
    <3>3. QED
      BY <1>1, <1>6, <1>7, <3>1, <3>2
  <2>4. phase' # "list" /\ phase' # "idle" /\ Distinct(queue) /\ pid \notin InIt(queue)
    BY <1>1, <1>2, <1>3, <1>4 DEF Once
  <2>5. counted \in Seq(1..births) /\ Distinct(counted)
    BY <1>2 DEF Once
  <2>6. QED
    BY <1>1, <1>4, <1>6, <1>7, <2>1, <2>3, <2>4, <2>5 DEF Once
<1>10. QED
  BY <1>3, <1>5, <1>8, <1>9 DEF ScanInv
-----------------------------------------------------------------------------
(* Children join the queue: pids the walk has not met, of processes of the *)
(* same job as the one at pid, and younger.                                *)
LEMMA ChildrenAreMine ==
  ASSUME Table, Scanning, Reading, begun.ours,
         NEW p \in Alive, table[p].parent = pid, pid \in Pids
  PROVE  Mine(table[p].id)
<1>1. /\ pid # 0 /\ births \in Nat /\ begun.births \in 0..births
  BY PidsAssumption DEF Table, Scanning
<1>2. /\ pid \in Alive /\ table[pid].id < table[p].id
      /\ table[pid].id \in ours <=> table[p].id \in ours
  BY <1>1 DEF Table
<1>3. Mine(table[pid].id)
  BY <1>2 DEF Scanning, ToRead
<1>4. table[pid].id \in 1..births /\ table[p].id \in 1..births
  BY <1>2 DEF Table
<1>5. QED
  BY <1>1, <1>2, <1>3, <1>4 DEF Mine

(* The queue grows by some of them, in the phases of get_children.         *)
LEMMA QueueGrows ==
  ASSUME ScanInv, phase \in {"children", "proc"}, phase' \in {"proc", "pop"},
         NEW new, new \subseteq Alive, new \cap visited = {},
         \A p \in new : table[p].parent = pid,
         queue' \in Seq(Pids), InIt(queue') = InIt(queue) \union new, Distinct(queue'),
         visited' = visited \union new, left' \subseteq Pids,
         UNCHANGED <<table, births, ours, mode, depth, pid, counted, detail, begun>>
  PROVE  ScanInv'
<1>1. Table /\ Control /\ Scanning /\ Once /\ Reading /\ mode # "cgroup"
  BY DEF ScanInv, Reading, Control
<1>2. Alive' = Alive /\ Table' /\ new \subseteq Pids /\ pid \in Pids /\ pid \in visited
  BY <1>1, TableStays DEF Alive, Table, Control
<1>3. Control'
  <2>1. InIt(queue') \subseteq visited' /\ visited' \subseteq Pids /\ pid \in visited'
    BY <1>1, <1>2 DEF Control
  <2>2. phase' \in {"proc", "pop"} /\ mode' = mode /\ pid' = pid /\ depth' = depth
    OBVIOUS
  <2>3. mode' \in Modes /\ depth' \in DOMAIN Chain
    BY <1>1, <2>2 DEF Control
  <2>4. QED
    BY <1>1, <1>2, <2>1, <2>2, <2>3 DEF Control, Reading
<1>4. InIt(counted)' = InIt(counted) /\ InIt(detail)' = InIt(detail)
  BY DEF InIt
<1>5. Scanning'
  <2>1. begun.ours => \A p \in new : Mine(table[p].id)
    BY <1>1, <1>2, ChildrenAreMine
  <2>2. \A p : ToRead(p)' => ToRead(p) \/ p \in new
    BY <1>1 DEF ToRead
  <2>3. QED
    BY <1>1, <1>2, <1>4, <2>1, <2>2 DEF Scanning, Mine
<1>6. Once'
  <2>1. \A p : Past(p) => Past(p)'
    BY <1>1 DEF Past
  <2>2. pid \notin InIt(queue')
    BY <1>1, <1>2 DEF Once
  <2>3. phase' \notin {"idle", "list", "stat", "detail"}
    OBVIOUS
  <2>4. \A p \in Alive' :
          /\ table'[p].id \in InIt(counted') => Past(p)'
          /\ table'[p].id \in InIt(detail') => Past(p)'
    BY <1>1, <1>2, <1>4, <2>1 DEF Once
  <2>5. /\ counted' \in Seq(1..births') /\ Distinct(counted')
        /\ detail' \in Seq(1..births') /\ Distinct(detail')
    BY <1>1 DEF Once, Distinct
  <2>6. QED
    BY <2>2, <2>3, <2>4, <2>5 DEF Once
<1>7. QED
  BY <1>2, <1>3, <1>5, <1>6 DEF ScanInv

LEMMA ChildrenKeep == ScanInv /\ ReadChildren => ScanInv'
<1> SUFFICES ASSUME ScanInv, ReadChildren PROVE ScanInv'
  OBVIOUS
<1> DEFINE new == {p \in Alive : ChildOf(p) /\ table[p].main} \ visited
<1>1. /\ phase = "children"
      /\ UNCHANGED <<table, births, ours, mode, depth, pid, counted, detail, begun>>
  BY DEF ReadChildren, kernel, sums
<1>2. Table /\ queue \in Seq(Pids) /\ visited \subseteq Pids /\ left \subseteq Pids
      /\ InIt(queue) \subseteq visited /\ Distinct(queue) /\ Alive \subseteq Pids
  BY <1>1 DEF ScanInv, Control, Once, Table
<1>3. CASE mode = "tree" /\ pid \in Alive
  <2>1. /\ queue' = queue \o SetToSeq(new) /\ visited' = visited \union new
        /\ phase' = "pop" /\ left' = left
    BY <1>3 DEF ReadChildren
  <2>2. new \subseteq Pids /\ IsFiniteSet(new)
    BY <1>2, FirstAssumption, FS_Subset
  <2> HIDE DEF new
  <2>3. /\ SetToSeq(new) \in Seq(Pids) /\ InIt(SetToSeq(new)) = new
        /\ Distinct(SetToSeq(new))
    BY <2>2, Listing
  <2>4. new \cap visited = {} /\ new \subseteq Alive /\ \A p \in new : table[p].parent = pid
    BY DEF new, ChildOf
  <2>5. /\ queue' \in Seq(Pids) /\ InIt(queue') = InIt(queue) \union new
        /\ Distinct(queue')
    BY <1>2, <2>1, <2>3, <2>4, Joined
  <2>6. QED
    BY <1>1, <1>2, <2>1, <2>4, <2>5, QueueGrows
<1>4. CASE ~(mode = "tree" /\ pid \in Alive)
  <2>1. left' = Alive \ {pid} /\ phase' = "proc" /\ queue' = queue /\ visited' = visited
    BY <1>4 DEF ReadChildren
  <2>2. queue' \in Seq(Pids) /\ InIt(queue') = InIt(queue) \union {} /\ Distinct(queue')
    BY <1>2, <2>1
  <2>3. left' \subseteq Pids /\ visited' = visited \union {}
    BY <1>2, <2>1
  <2> DEFINE none == {}
  <2>4. none \subseteq Alive /\ none \cap visited = {} /\ \A p \in none : table[p].parent = pid
    OBVIOUS
  <2>5. /\ InIt(queue') = InIt(queue) \union none /\ visited' = visited \union none
        /\ phase \in {"children", "proc"} /\ phase' \in {"proc", "pop"}
    BY <1>1, <2>1, <2>2, <2>3
  <2> HIDE DEF none
  <2>6. QED
    BY <1>1, <2>2, <2>3, <2>4, <2>5, QueueGrows
<1>5. QED
  BY <1>3, <1>4

LEMMA ParentKeeps ==
  ASSUME ScanInv, NEW p \in left, ReadParent(p)
  PROVE  ScanInv'
<1> DEFINE new == IF p \in Alive /\ ChildOf(p) /\ p \notin visited THEN {p} ELSE {}
<1>1. /\ phase = "proc" /\ phase' = "proc" /\ left' = left \ {p}
      /\ UNCHANGED <<table, births, ours, mode, depth, pid, counted, detail, begun>>
      /\ queue' = IF new # {} THEN Append(queue, p) ELSE queue
      /\ visited' = visited \union new
  BY DEF ReadParent, kernel, sums
<1>2. queue \in Seq(Pids) /\ left \subseteq Pids
      /\ InIt(queue) \subseteq visited /\ Distinct(queue)
  BY <1>1 DEF ScanInv, Control, Once
<1>3. /\ new \subseteq Alive /\ new \cap visited = {} /\ left' \subseteq Pids
      /\ \A q \in new : table[q].parent = pid
  BY <1>1, <1>2 DEF ChildOf
<1>4. queue' \in Seq(Pids) /\ InIt(queue') = InIt(queue) \union new /\ Distinct(queue')
  <2>1. CASE new = {}
    BY <1>1, <1>2, <2>1
  <2>2. CASE new = {p} /\ p \notin visited
    <3>1. queue' = Append(queue, p) /\ p \in Pids /\ p \notin InIt(queue)
      BY <1>1, <1>2, <2>2
    <3>2. QED
      BY <1>2, <2>2, <3>1, Appended
  <2>3. QED
    BY <2>1, <2>2
<1> HIDE DEF new
<1>5. QED
  BY <1>1, <1>3, <1>4, QueueGrows

LEMMA PhaseMoves ==
  ASSUME ScanInv, AllParentsRead \/ QueueEmpty
  PROVE  ScanInv'
<1>1. /\ phase' \in {"pop", "done"} /\ (phase' = "done" => queue = <<>>)
      /\ phase \in {"proc", "pop"} /\ UNCHANGED <<table, births, ours, mode, begun>>
      /\ UNCHANGED <<depth, queue, visited, pid, left, counted, detail>>
  BY DEF AllParentsRead, QueueEmpty, kernel, walk, sums
<1>2. Table /\ Control /\ Scanning /\ Once
  BY DEF ScanInv
<1>3. /\ Alive' = Alive /\ Table' /\ ~Reading' /\ InIt(queue)' = InIt(queue)
      /\ InIt(counted)' = InIt(counted) /\ InIt(detail)' = InIt(detail)
  BY <1>1, <1>2, TableStays DEF Alive, Reading, InIt
<1>4. Control'
  BY <1>1, <1>2, <1>3 DEF Control
<1>5. Scanning'
  BY <1>1, <1>2, <1>3 DEF Scanning, ToRead, Mine
<1>6. Once'
  BY <1>1, <1>2, <1>3 DEF Once, Past, Distinct
<1>7. QED
  BY <1>3, <1>4, <1>5, <1>6 DEF ScanInv

LEMMA SampledKeeps == ScanInv /\ SubSampled => ScanInv'
<1> SUFFICES ASSUME ScanInv, SubSampled PROVE ScanInv'
  OBVIOUS
<1>1. /\ phase = "done" /\ phase' = "idle" /\ UNCHANGED <<table, births, ours, mode>>
      /\ depth' = 1 /\ visited' = {} /\ pid' = TreePid /\ queue' = queue /\ left' = left
      /\ counted' = <<>> /\ detail' = <<>> /\ begun' = [births |-> 0, ours |-> TRUE]
  BY DEF SubSampled, kernel
<1>2. Table /\ Control /\ queue = <<>> /\ births \in Nat
  BY <1>1 DEF ScanInv, Table, Control
<1>3. Alive' = Alive /\ Table' /\ ~Reading'
  BY <1>1, <1>2, TableStays DEF Alive, Reading
<1>4. /\ InIt(queue)' = {} /\ InIt(counted)' = {} /\ InIt(detail)' = {}
      /\ Distinct(queue)'
  BY <1>1, <1>2, EmptyList
<1>5. Control'
  BY <1>1, <1>2, <1>3, <1>4, PidsAssumption, ChainAssumption DEF Control
<1>6. Scanning' /\ Once'
  BY <1>1, <1>2, <1>3, <1>4, EmptyList DEF Scanning, Once, ToRead
<1>7. QED
  BY <1>3, <1>5, <1>6 DEF ScanInv

LEMMA IdleKeeps == ScanInv /\ (EndTick \/ UNCHANGED vars) => ScanInv'
<1> SUFFICES ASSUME ScanInv, EndTick \/ UNCHANGED vars PROVE ScanInv'
  OBVIOUS
<1>1. /\ UNCHANGED <<table, births, ours, mode, phase, begun>>
      /\ UNCHANGED <<depth, queue, visited, pid, left, counted, detail>>
  BY DEF EndTick, vars, kernel, walk, sums
<1>2. QED
  BY <1>1, TableStays
     DEF ScanInv, Control, Scanning, Once, Reading, ToRead, Past, Mine, Alive, InIt,
         Distinct
-----------------------------------------------------------------------------
LEMMA ScanPreserved == ScanInv /\ [Next]_vars => ScanInv'
<1> SUFFICES ASSUME ScanInv, [Next]_vars PROVE ScanInv'
  OBVIOUS
<1>1. CASE Scan
  BY <1>1, BeginKeeps, ReadDirKeeps, PopKeeps, StatKeeps, DetailKeeps, ChildrenKeep,
     ParentKeeps, PhaseMoves, SampledKeeps, IdleKeeps DEF Scan
<1>2. CASE Kernel
  BY <1>2, ForkKeeps, ExitKeeps, MoveKeeps DEF Kernel
<1>3. QED
  BY <1>1, <1>2, IdleKeeps DEF Next

THEOREM ScanAlways == Spec => []ScanInv
<1>1. QED
  BY ScanInitially, ScanPreserved, PTL DEF Spec

(* Whatever the kernel does between the reads of a scan, from either       *)
(* source: no process is counted twice.                                    *)
THEOREM NoneCountedTwice == Spec => []CountedOnce
<1>1. ScanInv => CountedOnce
  BY DEF ScanInv, Once, CountedOnce, Distinct
<1>2. QED
  BY <1>1, ScanAlways, PTL

(* A process of another job is counted only when it was born during the    *)
(* scan, if the scan began with the job's.                                 *)
THEOREM ForeignOnlyLate == Spec => []ForeignOnlyByReuse
<1>1. ScanInv => ForeignOnlyByReuse
  BY DEF ScanInv, Scanning, ForeignOnlyByReuse, Mine, ToSet, InIt
<1>2. QED
  BY <1>1, ScanAlways, PTL
-----------------------------------------------------------------------------
(* Why no steady process is missed.  In the job's directories: one not in  *)
(* the list yet is in a directory still to be read.  Below --tree-pid: its *)
(* ancestors are steady too, one the walk has met is counted or in the     *)
(* queue, and the parent of one it has not met is still to be asked for    *)
(* its children, or has itself not been met.  When the queue is empty the  *)
(* first-born of those not met could have no parent.                       *)
Found(p) ==
  \/ table[p].id \in InIt(counted) \/ p \in InIt(queue)
  \/ phase = "stat" /\ p = pid
Unmet(p) ==
  LET parent == table[p].parent
  IN  \/ parent \notin visited \/ parent \in InIt(queue)
      \/ Reading /\ parent = pid /\ (phase = "proc" => p \in left)
ToList(p) ==
  /\ phase = "list"
  /\ \E d \in DOMAIN Chain :
       d >= depth /\ d <= MaxDepth + 1 /\ table[p].dir = Chain[d]

Steady == {p \in Alive : table[p].id \in steady}
Rooted(p) ==
  p # TreePid => table[p].parent \in Steady /\ (mode = "tree" => table[p].main)

Listed == mode = "cgroup" => \A p \in Steady : Found(p) \/ ToList(p)
Walked ==
  mode # "cgroup" /\ phase # "idle" =>
    /\ TreePid \in visited
    /\ \A p \in Steady : Rooted(p) /\ IF p \in visited THEN Found(p) ELSE Unmet(p)

SteadyInv ==
  /\ steady \subseteq InScope(table)
  /\ phase = "idle" => steady = {} /\ depth = 1
  /\ Listed /\ Walked

(* Below is closed, and without one of its members it would not be: each   *)
(* is TreePid or the child of another.                                     *)
LEMMA BelowRooted ==
  ASSUME NEW tab, NEW q \in Below(tab), q # TreePid
  PROVE  tab[q].parent \in Below(tab) /\ (mode = "tree" => tab[q].main)
<1> DEFINE B == Below(tab)
<1>1. B \subseteq DOMAIN tab /\ Closed(tab, B)
  BY DEF Below, Closed
<1>2. SUFFICES ASSUME ~(tab[q].parent \in B /\ (mode = "tree" => tab[q].main))
               PROVE  FALSE
  OBVIOUS
<1>3. Closed(tab, B \ {q})
  BY <1>1, <1>2 DEF Closed
<1>4. B \ {q} \in SUBSET DOMAIN tab
  BY <1>1
<1>5. QED
  BY <1>3, <1>4 DEF Below

LEMMA ScopeSame ==
  ASSUME mode' = mode
  PROVE  InScope(table)' = InScope(table')
BY DEF InScope, Below, Closed

LEMMA InScopeAlive ==
  ASSUME NEW tab, NEW id \in InScope(tab)
  PROVE  \E p \in DOMAIN tab : tab[p].id = id /\ (mode # "cgroup" => p \in Below(tab))
BY DEF InScope, Below

(* The kernel leaves steady only what was, and above it what was.          *)
LEMMA KernelKeepsSteady ==
  ASSUME ScanInv, SteadyInv, Table', NEW affected, phase # "idle",
         steady' = (steady \ affected) \cap InScope(table'),
         UNCHANGED <<mode, phase, walk, counted>>,
         \A p \in Alive' \ Alive : table'[p].id > births,
         \A p \in Alive' \cap Alive :
           /\ table'[p].id = table[p].id
           /\ IF mode = "cgroup" THEN table'[p].dir = table[p].dir
                                        \/ table[p].id \in affected
              ELSE /\ table[p].id \notin affected
                   /\ \/ table'[p].parent = 0
                      \/ /\ table'[p].parent = table[p].parent
                         /\ table'[p].main = table[p].main
  PROVE  SteadyInv'
<1>1. Table /\ births \in Nat /\ Listed /\ Walked
  BY DEF ScanInv, SteadyInv, Table
<1>2. /\ UNCHANGED <<depth, queue, visited, pid, left, InIt(queue), InIt(counted), Reading>>
      /\ InScope(table)' = InScope(table')
  BY ScopeSame DEF walk, Reading, InIt
<1>3. \A id \in steady : id <= births
  BY <1>1, InScopeAlive DEF SteadyInv, Table, Alive
<1>4. /\ Steady' \subseteq Steady
      /\ \A p \in Steady' : table'[p].id = table[p].id /\ table[p].id \notin affected
  <2>1. ASSUME NEW p \in Steady'
        PROVE  p \in Steady /\ table'[p].id = table[p].id /\ table[p].id \notin affected
    <3>1. p \in Alive' /\ table'[p].id \in steady /\ table'[p].id \notin affected
      BY DEF Steady
    <3>2. p \in Alive
      BY <1>1, <1>3, <3>1 DEF Table
    <3>3. QED
      BY <3>1, <3>2 DEF Steady
  <2>2. QED
    BY <2>1
<1>5. Listed'
  <2>1. SUFFICES ASSUME mode = "cgroup", NEW p \in Steady'
                 PROVE  Found(p)' \/ ToList(p)'
    BY DEF Listed
  <2>2. Found(p) \/ ToList(p)
    BY <1>1, <1>4, <2>1 DEF Listed
  <2>3. table'[p].dir = table[p].dir
    BY <1>4, <2>1 DEF Steady
  <2>4. QED
    BY <1>2, <1>4, <2>2, <2>3 DEF Found, ToList
<1>6. Walked'
  <2>1. SUFFICES ASSUME mode # "cgroup"
                 PROVE  /\ TreePid \in visited
                        /\ \A p \in Steady' : /\ Rooted(p)'
                                              /\ IF p \in visited THEN Found(p)' ELSE Unmet(p)'
    BY <1>2 DEF Walked
  <2>2. TreePid \in visited
    BY <1>1, <2>1 DEF Walked
  <2>3. ASSUME NEW p \in Steady', p # TreePid
        PROVE  /\ table'[p].parent = table[p].parent /\ table'[p].main = table[p].main
               /\ table'[p].parent \in Steady'
    <3>1. p \in Alive' /\ table'[p].id \in InScope(table') /\ p \in Alive
      BY <1>4 DEF Steady
    <3>2. p \in Below(table')
      <4>1. PICK q \in Alive' : table'[q].id = table'[p].id /\ q \in Below(table')
        BY <2>1, <3>1, InScopeAlive DEF Alive
      <4>2. QED
        BY <3>1, <4>1 DEF Table
    <3> DEFINE r == table'[p].parent
    <3>3. r \in Below(table') /\ r \in Alive' /\ r # 0
      <4>1. r \in Below(table')
        BY <2>3, <3>2, BelowRooted
      <4>2. Below(table') \subseteq Alive' /\ Alive' \subseteq Pids
        BY DEF Below, Alive, Table
      <4>3. QED
        BY <4>1, <4>2, PidsAssumption
    <3>4. r = table[p].parent /\ table'[p].main = table[p].main
      BY <2>1, <3>1, <3>3
    <3>5. r \in Steady
      BY <1>1, <1>4, <2>1, <2>3, <3>4 DEF Walked, Rooted
    <3>6. table'[r].id = table[r].id /\ table[r].id \notin affected
      BY <2>1, <3>3, <3>5 DEF Steady
    <3>7. table'[r].id \in InScope(table')
      BY <2>1, <3>3 DEF InScope
    <3>8. QED
      BY <3>3, <3>4, <3>5, <3>6, <3>7 DEF Steady
  <2>4. ASSUME NEW p \in Steady'
        PROVE  /\ Rooted(p)' /\ IF p \in visited THEN Found(p)' ELSE Unmet(p)'
    <3>1. Rooted(p) /\ IF p \in visited THEN Found(p) ELSE Unmet(p)
      BY <1>1, <1>4, <2>1 DEF Walked
    <3>2. Rooted(p)'
      BY <2>3, <3>1 DEF Rooted
    <3>3. p \in visited => Found(p)'
      BY <1>2, <1>4, <3>1 DEF Found
    <3>4. p \notin visited => Unmet(p)'
      BY <1>2, <2>2, <2>3, <3>1 DEF Unmet
    <3>5. QED
      BY <3>2, <3>3, <3>4
  <2>5. QED
    BY <2>2, <2>4
<1>7. steady' \subseteq InScope(table)' /\ phase' # "idle"
  BY <1>2
<1>8. QED
  BY <1>5, <1>6, <1>7 DEF SteadyInv

(* In a scan step the table and the steady ones stay as they are.          *)
LEMMA StepKeepsSteady ==
  ASSUME SteadyInv, phase # "idle", phase' # "idle", UNCHANGED <<table, mode, steady>>,
         mode = "cgroup" => \A p \in Steady :
           Found(p) \/ ToList(p) => Found(p)' \/ ToList(p)',
         mode # "cgroup" => visited \subseteq visited' /\ \A p \in Steady :
           /\ p \in visited /\ Found(p) => Found(p)'
           /\ p \notin visited /\ p # TreePid /\ Rooted(p) /\ Unmet(p)
                => IF p \in visited' THEN Found(p)' ELSE Unmet(p)'
  PROVE  SteadyInv'
<1>1. Steady' = Steady /\ \A p : Rooted(p)' = Rooted(p)
  BY DEF Steady, Rooted, Alive
<1>2. InScope(table)' = InScope(table)
  BY ScopeSame
<1>3. Listed'
  BY <1>1 DEF SteadyInv, Listed
<1>4. Walked'
  <2>1. SUFFICES ASSUME mode # "cgroup"
                 PROVE  /\ TreePid \in visited'
                        /\ \A p \in Steady : /\ Rooted(p)
                                             /\ IF p \in visited' THEN Found(p)' ELSE Unmet(p)'
    BY <1>1 DEF Walked
  <2>2. /\ TreePid \in visited /\ visited \subseteq visited'
        /\ \A p \in Steady : Rooted(p) /\ IF p \in visited THEN Found(p) ELSE Unmet(p)
    BY <2>1 DEF SteadyInv, Walked
  <2>3. QED
    BY <2>1, <2>2
<1>5. QED
  BY <1>1, <1>2, <1>3, <1>4 DEF SteadyInv

LEMMA BeginSteady == ScanInv /\ SteadyInv /\ Begin => SteadyInv'
<1> SUFFICES ASSUME ScanInv, SteadyInv, Begin PROVE SteadyInv'
  OBVIOUS
<1>1. /\ phase = "idle" /\ UNCHANGED <<table, mode, depth>> /\ steady' = InScope(table)
      /\ queue' = IF mode = "cgroup" THEN <<>> ELSE <<TreePid>>
      /\ visited' = IF mode = "cgroup" THEN {} ELSE {TreePid}
      /\ phase' = IF mode = "cgroup" THEN "list" ELSE "pop"
  BY DEF Begin
<1>2. Table /\ depth = 1 /\ InScope(table)' = InScope(table)
  BY <1>1, ScopeSame DEF ScanInv, SteadyInv
<1>3. Steady' = {p \in Alive : table[p].id \in InScope(table)}
  BY <1>1 DEF Steady, Alive
<1>4. Listed'
  <2>1. SUFFICES ASSUME mode = "cgroup", NEW p \in Steady'
                 PROVE  ToList(p)'
    BY <1>1 DEF Listed
  <2>2. \E d \in DOMAIN Chain : d <= MaxDepth + 1 /\ table[p].dir = Chain[d]
    <3>1. PICK q \in Alive : /\ table[q].id = table[p].id
                             /\ \E d \in DOMAIN Chain :
                                  d <= MaxDepth + 1 /\ table[q].dir = Chain[d]
      BY <1>3, <2>1 DEF InScope, Alive
    <3>2. q = p
      BY <1>2, <1>3, <3>1 DEF Table
    <3>3. QED
      BY <3>1, <3>2
  <2>3. \A d \in DOMAIN Chain : d >= 1
    BY ChainAssumption
  <2>4. QED
    BY <1>1, <1>2, <2>1, <2>2, <2>3 DEF ToList
<1>5. Walked'
  <2>1. SUFFICES ASSUME mode # "cgroup"
                 PROVE  /\ TreePid \in visited'
                        /\ \A p \in Steady' :
                             Rooted(p)' /\ IF p \in visited' THEN Found(p)' ELSE Unmet(p)'
    BY <1>1 DEF Walked
  <2>2. visited' = {TreePid} /\ InIt(queue') = {TreePid}
    BY <1>1, <2>1, OneInList
  <2>3. ASSUME NEW p \in Steady', p # TreePid
        PROVE  /\ table[p].parent \in Steady' /\ (mode = "tree" => table[p].main)
    <3>1. PICK q \in Alive : table[q].id = table[p].id /\ q \in Below(table)
      BY <1>3, <2>1, InScopeAlive DEF Alive
    <3>2. p \in Below(table)
      BY <1>2, <1>3, <3>1 DEF Table
    <3>3. table[p].parent \in Below(table) /\ (mode = "tree" => table[p].main)
      BY <2>3, <3>2, BelowRooted
    <3>4. Below(table) \subseteq Alive
      BY DEF Below, Alive
    <3>5. QED
      BY <1>3, <2>1, <3>3, <3>4 DEF InScope
  <2>4. \A p \in Steady' : Rooted(p)'
    BY <1>1, <2>3 DEF Rooted
  <2>5. \A p \in Steady' : p \in visited' => Found(p)'
    BY <2>2 DEF Found
  <2>6. \A p \in Steady' : p \notin visited' => Unmet(p)'
    BY <2>2 DEF Unmet
  <2>7. QED
    BY <2>2, <2>4, <2>5, <2>6
<1>6. QED
  BY <1>1, <1>2, <1>4, <1>5 DEF SteadyInv

LEMMA ReadDirSteady == ScanInv /\ SteadyInv /\ ReadDir => SteadyInv'
<1> SUFFICES ASSUME ScanInv, SteadyInv, ReadDir PROVE SteadyInv'
  OBVIOUS
<1>1. /\ phase = "list" /\ UNCHANGED <<table, mode, steady, counted>>
      /\ IF Deeper THEN depth' = depth + 1 /\ phase' = "list" ELSE phase' = "pop"
  BY DEF ReadDir, kernel, sums
<1>2. mode = "cgroup" /\ depth \in DOMAIN Chain
  BY <1>1 DEF ScanInv, Control
<1>3. InIt(queue') = InIt(queue) \union {p \in Alive : table[p].dir = Chain[depth]}
  BY DirListed
<1>4. ASSUME NEW p \in Steady, Found(p) PROVE Found(p)'
  BY <1>1, <1>3, <1>4 DEF Found, InIt
<1>5. ASSUME NEW p \in Steady, ToList(p) PROVE Found(p)' \/ ToList(p)'
  <2>1. PICK d \in DOMAIN Chain :
          d >= depth /\ d <= MaxDepth + 1 /\ table[p].dir = Chain[d]
    BY <1>5 DEF ToList
  <2>2. CASE d = depth
    BY <1>3, <2>1, <2>2 DEF Found, Steady
  <2>3. CASE d # depth
    <3>1. d >= depth + 1 /\ d <= Len(Chain) /\ d \in Nat /\ depth \in Nat
      BY <1>2, <2>1, <2>3, ChainAssumption
    <3>2. Deeper
      BY <2>1, <3>1, ChainAssumption, DepthAssumption DEF Deeper
    <3>3. QED
      BY <1>1, <2>1, <3>1, <3>2 DEF ToList
  <2>4. QED
    BY <2>2, <2>3
<1>6. QED
  BY <1>1, <1>2, <1>4, <1>5, StepKeepsSteady

LEMMA PopSteady == ScanInv /\ SteadyInv /\ Pop => SteadyInv'
<1> SUFFICES ASSUME ScanInv, SteadyInv, Pop PROVE SteadyInv'
  OBVIOUS
<1>1. /\ phase = "pop" /\ queue # <<>> /\ phase' = "stat"
      /\ pid' = Head(queue) /\ queue' = Tail(queue)
      /\ UNCHANGED <<table, mode, visited, steady, counted>>
  BY DEF Pop, kernel, sums
<1>2. InIt(queue) \subseteq InIt(queue') \union {pid'}
  BY <1>1, Shortened DEF ScanInv, Control, Once
<1>3. \A p : ~ToList(p) /\ (Found(p) => Found(p)')
  BY <1>1, <1>2 DEF Found, ToList, InIt
<1>4. Reading' /\ ~Reading
  BY <1>1 DEF Reading
<1>5. \A p : Unmet(p) => Unmet(p)'
  BY <1>1, <1>2, <1>4 DEF Unmet
<1>6. QED
  BY <1>1, <1>3, <1>5, StepKeepsSteady

(* One that is steady is alive when its stat is read.                      *)
LEMMA StatSteady == ScanInv /\ SteadyInv /\ ReadStat => SteadyInv'
<1> SUFFICES ASSUME ScanInv, SteadyInv, ReadStat PROVE SteadyInv'
  OBVIOUS
<1>1. /\ phase = "stat" /\ UNCHANGED <<table, mode, queue, visited, pid, steady>>
      /\ IF pid \in Alive
           THEN counted' = Append(counted, table[pid].id) /\ phase' = "detail"
           ELSE counted' = counted /\ phase' = ThenChildren
  BY DEF ReadStat, kernel, walk
<1>2. Table /\ Once /\ births \in Nat
  BY DEF ScanInv, Table
<1>3. pid \in Alive => InIt(counted') = InIt(counted) \union {table[pid].id}
  <2>1. counted \in Seq(1..births)
    BY <1>2 DEF Once
  <2>2. ASSUME NEW x \in 1..births
        PROVE  InIt(Append(counted, x)) = InIt(counted) \union {x}
    <3> DEFINE S == 1..births
    <3>1. counted \in Seq(S) /\ x \in S
      BY <2>1
    <3> HIDE DEF S
    <3>2. QED
      BY <3>1, Appended
  <2>3. pid \in Alive => table[pid].id \in 1..births
    BY <1>2 DEF Table
  <2>4. QED
    BY <1>1, <2>2, <2>3
<1>4. ASSUME NEW p \in Steady, Found(p) PROVE Found(p)'
  <2>1. p \in Alive /\ queue' = queue
    BY <1>1 DEF Steady
  <2>2. InIt(counted) \subseteq InIt(counted')
    BY <1>1, <1>3
  <2>3. p = pid => table[p].id \in InIt(counted')
    BY <1>3, <2>1
  <2>4. \/ table[p].id \in InIt(counted') \/ p \in InIt(queue')
    BY <1>1, <1>4, <2>1, <2>2, <2>3 DEF Found
  <2>5. table' = table /\ InIt(counted)' = InIt(counted') /\ InIt(queue)' = InIt(queue')
    BY <1>1 DEF InIt
  <2>6. QED
    BY <2>4, <2>5 DEF Found
<1>5. \A p : ~ToList(p)
  BY <1>1 DEF ToList
<1>6. Reading /\ phase' \in {"detail", "children", "pop"}
      /\ (mode # "cgroup" => Reading' /\ phase' # "proc")
  BY <1>1 DEF Reading, ThenChildren
<1>7. mode # "cgroup" => \A p : Unmet(p) => Unmet(p)'
  BY <1>1, <1>6 DEF Unmet, InIt
<1>8. QED
  BY <1>1, <1>4, <1>5, <1>6, <1>7, StepKeepsSteady

LEMMA DetailSteady == ScanInv /\ SteadyInv /\ ReadDetail => SteadyInv'
<1> SUFFICES ASSUME ScanInv, SteadyInv, ReadDetail PROVE SteadyInv'
  OBVIOUS
<1>1. /\ phase = "detail" /\ UNCHANGED <<table, mode, queue, visited, pid, steady, counted>>
      /\ phase' = IF mode = "cgroup" THEN "pop" ELSE "children"
  BY Zenon DEF ReadDetail, kernel, walk, ThenChildren
<1>2. \A p : ~ToList(p) /\ (Found(p) => Found(p)')
  BY <1>1 DEF ToList, Found, InIt
<1>3. mode # "cgroup" => Reading' /\ \A p : Unmet(p) => Unmet(p)'
  BY <1>1 DEF Unmet, InIt, Reading
<1>4. QED
  BY <1>1, <1>2, <1>3, StepKeepsSteady

(* A child is asked for of its parent's pid, and of no other.              *)
LEMMA ChildrenSteady == ScanInv /\ SteadyInv /\ ReadChildren => SteadyInv'
<1> SUFFICES ASSUME ScanInv, SteadyInv, ReadChildren PROVE SteadyInv'
  OBVIOUS
<1> DEFINE new == {p \in Alive : ChildOf(p) /\ table[p].main} \ visited
<1>1. phase = "children" /\ UNCHANGED <<table, mode, pid, counted, steady>>
  BY DEF ReadChildren, kernel, sums
<1>2. Table /\ queue \in Seq(Pids) /\ Alive \subseteq Pids /\ Reading /\ mode # "cgroup"
  BY <1>1 DEF ScanInv, Control, Table, Reading
<1>3. /\ IF mode = "tree" /\ pid \in Alive
           THEN /\ InIt(queue') = InIt(queue) \union new
                /\ visited' = visited \union new /\ phase' = "pop"
           ELSE /\ left' = Alive \ {pid} /\ phase' = "proc"
                /\ queue' = queue /\ visited' = visited
  <2>1. CASE mode = "tree" /\ pid \in Alive
    <3>1. queue' = queue \o SetToSeq(new) /\ visited' = visited \union new /\ phase' = "pop"
      BY <2>1 DEF ReadChildren
    <3>2. new \subseteq Pids /\ IsFiniteSet(new)
      BY <1>2, FirstAssumption, FS_Subset
    <3> HIDE DEF new
    <3>3. SetToSeq(new) \in Seq(Pids) /\ InIt(SetToSeq(new)) = new
      BY <3>2, Listing
    <3>4. InIt(queue') = InIt(queue) \union new
      BY <1>2, <3>1, <3>3, Joined
    <3>5. QED
      BY <2>1, <3>1, <3>4
  <2>2. CASE ~(mode = "tree" /\ pid \in Alive)
    BY <2>2 DEF ReadChildren
  <2>3. QED
    BY <2>1, <2>2
<1>4. visited \subseteq visited' /\ InIt(queue) \subseteq InIt(queue')
  BY <1>3
<1>5. \A p : Found(p) => Found(p)'
  <2>1. InIt(counted)' = InIt(counted) /\ InIt(queue)' = InIt(queue')
    BY <1>1 DEF InIt
  <2>2. QED
    BY <1>1, <1>4, <2>1 DEF Found
<1>6. ASSUME NEW p \in Steady, p \notin visited, p # TreePid, Rooted(p), Unmet(p)
      PROVE  IF p \in visited' THEN Found(p)' ELSE Unmet(p)'
  <2> DEFINE parent == table[p].parent
  <2>1. /\ p \in Alive /\ parent \in Steady /\ (mode = "tree" => table[p].main)
        /\ parent \in Alive /\ parent # p
    <3>1. p \in Alive /\ parent \in Alive /\ parent # 0
      BY <1>2, <1>6, PidsAssumption DEF Rooted, Steady
    <3>2. table[parent].id < table[p].id /\ table[p].id \in 1..births /\ births \in Nat
      BY <1>2, <3>1 DEF Table
    <3>3. parent # p
      BY <3>2
    <3>4. QED
      BY <1>6, <3>1, <3>3 DEF Rooted
  <2>2. \/ parent \notin visited \/ parent \in InIt(queue) \/ parent = pid
    BY <1>6 DEF Unmet
  <2>3. CASE mode = "tree" /\ pid \in Alive
    <3>1. p \in visited' => Found(p)'
      BY <1>3, <1>6, <2>3 DEF Found
    <3>2. parent = pid => p \in new
      BY <1>6, <2>1, <2>3 DEF ChildOf
    <3>3. p \notin visited' => parent \notin visited' \/ parent \in InIt(queue')
      BY <1>3, <2>2, <2>3, <3>2
    <3>4. p \notin visited' => Unmet(p)'
      BY <1>1, <3>3 DEF Unmet
    <3>5. QED
      BY <3>1, <3>4
  <2>4. CASE ~(mode = "tree" /\ pid \in Alive)
    <3>1. /\ queue' = queue /\ visited' = visited /\ left' = Alive \ {pid}
          /\ phase' = "proc" /\ pid' = pid /\ table' = table
      BY <1>1, <1>3, <2>4
    <3>2. Reading' /\ (parent = pid => p \in left')
      BY <2>1, <3>1 DEF Reading
    <3>3. Unmet(p)'
      BY <2>2, <3>1, <3>2 DEF Unmet
    <3>4. QED
      BY <1>6, <3>1, <3>3
  <2>5. QED
    BY <2>3, <2>4
<1>7. phase' # "idle"
  BY <1>3
<1>8. QED
  BY <1>1, <1>2, <1>4, <1>5, <1>6, <1>7, StepKeepsSteady

LEMMA ParentSteady ==
  ASSUME ScanInv, SteadyInv, NEW q \in left, ReadParent(q)
  PROVE  SteadyInv'
<1> DEFINE new == q \in Alive /\ ChildOf(q) /\ q \notin visited
<1>1. /\ phase = "proc" /\ phase' = "proc" /\ left' = left \ {q}
      /\ UNCHANGED <<table, mode, pid, counted, steady>>
      /\ queue' = IF new THEN Append(queue, q) ELSE queue
      /\ visited' = IF new THEN visited \union {q} ELSE visited
  BY DEF ReadParent, kernel, sums
<1>2. queue \in Seq(Pids) /\ q \in Pids /\ mode # "cgroup" /\ Reading /\ Reading'
  BY <1>1 DEF ScanInv, Control, Reading
<1>3. InIt(queue') = IF new THEN InIt(queue) \union {q} ELSE InIt(queue)
  <2>1. /\ Append(queue, q) \in Seq(Pids)
        /\ InIt(Append(queue, q)) = InIt(queue) \union {q}
    BY <1>2, Appended
  <2>2. QED
    BY <1>1, <2>1
<1>4. \A p : Found(p) => Found(p)'
  <2>1. InIt(counted)' = InIt(counted) /\ InIt(queue) \subseteq InIt(queue')
    BY <1>1, <1>3 DEF InIt
  <2>2. QED
    BY <1>1, <2>1 DEF Found
<1>5. ASSUME NEW p \in Steady, p \notin visited, p # TreePid, Rooted(p), Unmet(p)
      PROVE  IF p \in visited' THEN Found(p)' ELSE Unmet(p)'
  <2>1. p \in Alive /\ (table[p].parent = pid => ChildOf(p))
    BY DEF Steady, ChildOf
  <2>2. p \in visited' => Found(p)'
    BY <1>1, <1>3, <1>5 DEF Found
  <2>3. ASSUME p \notin visited' PROVE Unmet(p)'
    <3>1. p = q => ~new
      BY <1>1, <2>3
    <3>2. table[p].parent = pid => p # q
      BY <1>5, <2>1, <3>1
    <3>3. \/ table[p].parent \notin visited' \/ table[p].parent \in InIt(queue')
          \/ table[p].parent = pid /\ p \in left'
      BY <1>1, <1>3, <1>5, <3>2 DEF Unmet
    <3>4. QED
      BY <1>1, <1>2, <3>3 DEF Unmet
  <2>4. QED
    BY <2>2, <2>3
<1>6. visited \subseteq visited'
  BY <1>1
<1>7. QED
  BY <1>1, <1>2, <1>4, <1>5, <1>6, StepKeepsSteady

LEMMA PhaseMovesSteady ==
  ASSUME ScanInv, SteadyInv, AllParentsRead \/ QueueEmpty
  PROVE  SteadyInv'
<1>1. /\ phase' \in {"pop", "done"} /\ phase \in {"proc", "pop"}
      /\ phase = "proc" => left = {}
      /\ UNCHANGED <<table, mode, queue, visited, pid, left, counted, steady>>
  BY DEF AllParentsRead, QueueEmpty, kernel, walk, sums
<1>2. \A p : ~ToList(p) /\ (Found(p) => Found(p)')
  BY <1>1 DEF Found, ToList, InIt
<1>3. phase = "pop" => ~Reading
  BY DEF Reading
<1>4. \A p : Unmet(p) => Unmet(p)'
  BY <1>1, <1>3 DEF Unmet, InIt
<1>5. QED
  BY <1>1, <1>2, <1>4, StepKeepsSteady

LEMMA IdleSteady ==
  ASSUME ScanInv, SteadyInv, SubSampled \/ EndTick \/ UNCHANGED vars
  PROVE  SteadyInv'
<1>1. CASE SubSampled
  <2>1. phase' = "idle" /\ depth' = 1 /\ steady' = {} /\ Steady' = {}
    BY <1>1 DEF SubSampled, Steady
  <2>2. QED
    BY <2>1 DEF SteadyInv, Listed, Walked
<1>2. CASE EndTick \/ UNCHANGED vars
  <2>1. /\ UNCHANGED <<table, mode, phase, depth, queue, visited, pid, left, counted, steady>>
    BY <1>2 DEF EndTick, vars, kernel, walk, sums
  <2>2. InScope(table)' = InScope(table)
    BY <2>1, ScopeSame
  <2>3. /\ Steady' = Steady /\ Reading' = Reading
        /\ \A p : /\ Found(p)' = Found(p) /\ ToList(p)' = ToList(p)
                  /\ Rooted(p)' = Rooted(p) /\ Unmet(p)' = Unmet(p)
    BY <2>1 DEF Steady, Alive, Found, ToList, Rooted, Unmet, Reading, InIt
  <2>4. Listed' /\ Walked'
    BY <2>1, <2>3 DEF SteadyInv, Listed, Walked
  <2>5. QED
    BY <2>1, <2>2, <2>4 DEF SteadyInv
<1>3. QED
  BY <1>1, <1>2

LEMMA KernelSteady == ScanInv /\ SteadyInv /\ ScanInv' /\ Kernel => SteadyInv'
<1> SUFFICES ASSUME ScanInv, SteadyInv, ScanInv', Kernel PROVE SteadyInv'
  OBVIOUS
<1>1. Table /\ Table'
  BY DEF ScanInv
<1>2. ASSUME NEW p \in Pids, NEW q \in Pids, NEW main \in BOOLEAN, Fork(p, q, main)
      PROVE  SteadyInv'
  <2>1. /\ phase # "idle" /\ UNCHANGED <<mode, phase, walk, counted>>
        /\ steady' = (steady \ {}) \cap InScope(table')
        /\ births' = births + 1 /\ q \notin Alive
        /\ table' = [r \in Alive \union {q} |->
                      IF r # q THEN table[r]
                      ELSE [id |-> births', parent |-> p, main |-> main,
                            dir |-> table[p].dir]]
    BY <1>2 DEF Fork, Happens, Disturbed, sums
  <2>2. Alive' = Alive \union {q} /\ births \in Nat
    BY <1>1, <2>1 DEF Alive, Table
  <2>3. /\ \A r \in Alive' \ Alive : table'[r].id > births
        /\ \A r \in Alive' \cap Alive : table'[r] = table[r]
    BY <2>1, <2>2
  <2> DEFINE affected == {}
  <2>4. \A r \in Alive' \cap Alive :
          /\ table'[r].id = table[r].id /\ table'[r].dir = table[r].dir
          /\ table'[r].parent = table[r].parent /\ table'[r].main = table[r].main
          /\ table[r].id \notin affected
    BY <2>3
  <2>5. steady' = (steady \ affected) \cap InScope(table')
    BY <2>1
  <2> HIDE DEF affected
  <2>6. QED
    BY <1>1, <2>1, <2>3, <2>4, <2>5, KernelKeepsSteady
<1>3. ASSUME NEW p \in Pids, Exit(p)
      PROVE  SteadyInv'
  <2>1. /\ phase # "idle" /\ UNCHANGED <<mode, phase, walk, counted>> /\ p \in Alive
        /\ steady' = (steady \ {table[p].id}) \cap InScope(table')
        /\ table' = [q \in Alive \ {p} |->
                       IF table[q].parent = p
                         THEN [table[q] EXCEPT !.parent = 0, !.main = TRUE]
                         ELSE table[q]]
    BY <1>3 DEF Exit, Happens, Disturbed, sums
  <2>2. Alive' = Alive \ {p}
    BY <2>1 DEF Alive
  <2>3. ASSUME NEW q \in Alive'
        PROVE  /\ table'[q].id = table[q].id /\ table'[q].dir = table[q].dir
               /\ \/ table'[q].parent = 0
                  \/ /\ table'[q].parent = table[q].parent
                     /\ table'[q].main = table[q].main
    <3>1. table[q] \in Process /\ q \in Alive \ {p}
      BY <1>1, <2>2 DEF Table
    <3>2. CASE table[q].parent = p
      BY <2>1, <3>1, <3>2 DEF Process
    <3>3. CASE table[q].parent # p
      BY <2>1, <3>1, <3>3
    <3>4. QED
      BY <3>2, <3>3
  <2>4. \A q \in Alive' : table[q].id \notin {table[p].id}
    BY <1>1, <2>1, <2>2 DEF Table
  <2>5. Alive' \ Alive = {}
    BY <2>2
  <2>6. QED
    BY <1>1, <2>1, <2>3, <2>4, <2>5, KernelKeepsSteady
<1>4. ASSUME NEW p \in Pids, NEW dir \in JobDirs, Move(p, dir)
      PROVE  SteadyInv'
  <2> DEFINE affected == IF mode = "cgroup" THEN {table[p].id} ELSE {}
  <2>1. /\ phase # "idle" /\ UNCHANGED <<mode, phase, walk, counted>> /\ p \in Alive
        /\ steady' = (steady \ affected) \cap InScope(table')
        /\ table' = [table EXCEPT ![p].dir = dir]
    BY <1>4 DEF Move, Happens, Disturbed, sums
  <2>2. Alive' = Alive
    BY <2>1 DEF Alive
  <2>3. ASSUME NEW q \in Alive
        PROVE  /\ table'[q].id = table[q].id
               /\ table'[q].dir = table[q].dir \/ q = p
               /\ table'[q].parent = table[q].parent /\ table'[q].main = table[q].main
    <3>1. table[q] \in Process
      BY <1>1 DEF Table
    <3>2. QED
      BY <2>1, <3>1 DEF Process, Alive
  <2>4. \A q \in Alive : IF mode = "cgroup" THEN q = p => table[q].id \in affected
                                          ELSE table[q].id \notin affected
    OBVIOUS
  <2>5. Alive' \ Alive = {} /\ Alive' \cap Alive = Alive
    BY <2>2
  <2> HIDE DEF affected
  <2>6. QED
    BY <1>1, <2>1, <2>3, <2>4, <2>5, KernelKeepsSteady
<1>5. QED
  BY <1>2, <1>3, <1>4 DEF Kernel

LEMMA SteadyInitially == Init => SteadyInv
<1> SUFFICES ASSUME Init PROVE SteadyInv
  OBVIOUS
<1>1. phase = "idle" /\ steady = {} /\ depth = 1 /\ Steady = {}
  BY DEF Init, Steady
<1>2. QED
  BY <1>1 DEF SteadyInv, Listed, Walked

THEOREM SteadyAlways == Spec => []SteadyInv
<1>1. ScanInv /\ SteadyInv /\ ScanInv' /\ [Next]_vars => SteadyInv'
  <2> SUFFICES ASSUME ScanInv, SteadyInv, ScanInv', [Next]_vars PROVE SteadyInv'
    OBVIOUS
  <2>1. CASE Scan
    BY <2>1, BeginSteady, ReadDirSteady, PopSteady, StatSteady, DetailSteady,
       ChildrenSteady, ParentSteady, PhaseMovesSteady, IdleSteady DEF Scan
  <2>2. CASE Kernel
    BY <2>2, KernelSteady
  <2>3. QED
    BY <2>1, <2>2, IdleSteady DEF Next
<1>2. QED
  BY <1>1, SteadyInitially, ScanAlways, PTL DEF Spec

(* When the scan is done nobody steady is left out: the first-born of      *)
(* those the walk has not met would have a parent it had met and asked.    *)
LEMMA NoneLeftOut == ScanInv /\ SteadyInv => SteadyCounted
<1> SUFFICES ASSUME ScanInv, SteadyInv, phase = "done" PROVE steady \subseteq InIt(counted)
  BY DEF SteadyCounted, ToSet, InIt
<1>1. Table /\ queue = <<>> /\ InIt(queue) = {} /\ ~Reading
  BY EmptyList DEF ScanInv, Control, Reading
<1>2. \A p : ~ToList(p) /\ (Found(p) => table[p].id \in InIt(counted))
  BY <1>1 DEF Found, ToList
<1>3. ASSUME mode # "cgroup", NEW q \in Steady PROVE q \in visited
  <2> DEFINE Missed == {table[p].id : p \in Steady \ visited}
  <2>1. /\ TreePid \in visited
        /\ \A p \in Steady : Rooted(p) /\ IF p \in visited THEN Found(p) ELSE Unmet(p)
    BY <1>3 DEF SteadyInv, Walked
  <2>2. SUFFICES ASSUME q \notin visited PROVE FALSE
    OBVIOUS
  <2>3. Missed \in SUBSET Nat /\ table[q].id \in Missed
    <3>1. \A p \in Steady : table[p].id \in 1..births /\ births \in Nat
      BY <1>1 DEF Steady, Table
    <3>2. \A p \in Steady : table[p].id \in Nat
      BY <3>1
    <3>3. QED
      BY <1>3, <2>2, <3>2
  <2>4. PICK least \in Missed : \A k \in Missed : least <= k
    <3> HIDE DEF Missed
    <3>1. QED
      BY <2>3, LeastNumber
  <2>5. PICK p \in Steady \ visited : table[p].id = least
    BY <2>4
  <2> DEFINE parent == table[p].parent
  <2>6. parent \in Steady /\ parent \notin visited
    <3>1. Rooted(p) /\ Unmet(p) /\ p # TreePid
      BY <2>1, <2>5
    <3>2. QED
      BY <1>1, <3>1 DEF Rooted, Unmet
  <2>7. table[parent].id < table[p].id /\ table[p].id \in Nat /\ table[parent].id \in Nat
    <3>1. p \in Alive /\ parent \in Alive /\ parent # 0
      BY <1>1, <2>5, <2>6, PidsAssumption DEF Steady, Table
    <3>2. QED
      BY <1>1, <3>1 DEF Table
  <2>8. table[parent].id \in Missed
    BY <2>6
  <2>9. least <= table[parent].id /\ table[p].id = least
    BY <2>4, <2>5, <2>8
  <2>10. QED
    BY <2>7, <2>9
<1>4. \A p \in Steady : table[p].id \in InIt(counted)
  <2>1. CASE mode = "cgroup"
    BY <1>2, <2>1 DEF SteadyInv, Listed
  <2>2. CASE mode # "cgroup"
    BY <1>2, <1>3, <2>2 DEF SteadyInv, Walked
  <2>3. QED
    BY <2>1, <2>2
<1>5. \A id \in steady : \E p \in Alive : table[p].id = id
  BY InScopeAlive DEF SteadyInv, Alive
<1>6. QED
  BY <1>4, <1>5 DEF Steady

(* Whatever starts, ends or is moved around it, a process of the job that  *)
(* nothing happens to during a scan is counted by it: in every directory   *)
(* as deep as the scan looks, or all the way below --tree-pid.             *)
THEOREM SteadyAreCounted == Spec => []SteadyCounted
<1>1. QED
  BY NoneLeftOut, ScanAlways, SteadyAlways, PTL
-----------------------------------------------------------------------------
(* The peak: a list is at least as long as the set of its elements.        *)
LEMMA AtMostLong ==
  ASSUME NEW S, NEW list \in Seq(S), NEW T, T \subseteq InIt(list)
  PROVE  Cardinality(T) \in Nat /\ Cardinality(T) <= Len(list)
<1>1. /\ Len(list) \in Nat /\ DOMAIN list = 1..Len(list)
      /\ list \in [1..Len(list) -> InIt(list)]
  BY DEF InIt
<1>2. list \in Surjection(1..Len(list), InIt(list))
  BY <1>1 DEF Surjection, InIt
<1>3. IsFiniteSet(1..Len(list)) /\ Cardinality(1..Len(list)) = Len(list)
  BY <1>1, CountTo
<1>4. IsFiniteSet(InIt(list)) /\ Cardinality(InIt(list)) <= Len(list)
  BY <1>2, <1>3, FS_Surjection
<1>5. /\ IsFiniteSet(T) /\ Cardinality(T) <= Cardinality(InIt(list))
  BY <1>4, FS_Subset
<1>6. Cardinality(T) \in Nat /\ Cardinality(InIt(list)) \in Nat
  BY <1>4, <1>5, FS_CardinalityType
<1>7. QED
  BY <1>1, <1>4, <1>5, <1>6

Figures ==
  /\ tick \in Nat /\ peak \in Nat /\ due \in [now : Nat, before : Nat]
  /\ PeakKeepsBursts

(* A sub-sample's figure is at least the number of those steady during it, *)
(* the tick's at least that of each of its sub-samples, and the peak at    *)
(* least that of each tick.                                                *)
THEOREM PeaksKeepBursts == Spec => []PeakKeepsBursts
<1>1. Init => Figures
  BY DEF Init, Figures, PeakKeepsBursts
<1>2. ASSUME ScanInv, SteadyInv, Figures, [Next]_vars PROVE Figures'
  <2>1. CASE SubSampled
    <3> DEFINE n == Cardinality(steady)
    <3>1. /\ tick' = Max2(tick, Len(counted)) /\ peak' = peak
          /\ due' = [due EXCEPT !.now = Max2(due.now, n)] /\ phase = "done"
      BY <2>1 DEF SubSampled, MaxWith
    <3>2. steady \subseteq InIt(counted) /\ counted \in Seq(1..births)
      BY <1>2, <3>1, NoneLeftOut DEF SteadyCounted, ToSet, InIt, ScanInv, Once
    <3>3. n \in Nat /\ n <= Len(counted) /\ Len(counted) \in Nat
      BY <3>2, AtMostLong
    <3> HIDE DEF n
    <3>4. /\ due'.now = Max2(due.now, n) /\ due'.before = due.before
          /\ due' \in [now : Nat, before : Nat]
      BY <1>2, <3>1, <3>3 DEF Figures, Max2
    <3>5. QED
      BY <1>2, <3>1, <3>3, <3>4 DEF Figures, PeakKeepsBursts, Max2
  <2>2. CASE EndTick
    <3>1. /\ peak' = Max2(peak, tick) /\ tick' = 0
          /\ due' = [now |-> 0, before |-> Max2(due.now, due.before)]
      BY <2>2 DEF EndTick
    <3>2. QED
      BY <1>2, <3>1 DEF Figures, PeakKeepsBursts, Max2
  <2>3. CASE UNCHANGED peaks
    BY <1>2, <2>3 DEF peaks, Figures, PeakKeepsBursts
  <2>4. UNCHANGED vars => UNCHANGED peaks
    BY DEF vars
  <2>5. Kernel => UNCHANGED peaks
    BY DEF Kernel, Fork, Exit, Move, Happens
  <2>6. Scan => SubSampled \/ EndTick \/ UNCHANGED peaks
    BY DEF Scan, Begin, ReadDir, Pop, ReadStat, ReadDetail, ReadChildren, ReadParent,
           AllParentsRead, QueueEmpty
  <2>7. QED
    BY <1>2, <2>1, <2>2, <2>3, <2>4, <2>5, <2>6 DEF Next
<1>3. Figures => PeakKeepsBursts
  BY DEF Figures
<1>4. QED
  BY <1>1, <1>2, <1>3, ScanAlways, SteadyAlways, PTL DEF Spec
=============================================================================
