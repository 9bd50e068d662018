----------------------- MODULE CounterWindows_proofs -----------------------
(***************************************************************************)
(* For any number of CPUs, any bounds and any ticks that fail: every unit  *)
(* of CPU time is charged to one window, no rate is above what the node    *)
(* can do, the breakdown by CPU adds up, and the network total is the      *)
(* traffic since the first valid reading and nothing else.                 *)
(***************************************************************************)
EXTENDS CounterWindows, FiniteSetTheorems, TLAPS
-----------------------------------------------------------------------------
(* Induction over the numbers and over the subsets of a finite set, with a *)
(* set where the theorems of the library have an operator.                 *)

(* Every nonempty set of numbers has a least one.                          *)
LEMMA LeastNumber ==
  ASSUME NEW S \in SUBSET Nat, S # {}
  PROVE  \E m \in S : \A k \in S : m <= k
<1>1. IsWellFoundedOn(OpToRel(<, Nat), Nat)
  BY NatLessThanWellFounded, Zenon
<1>2. PICK m \in S : \A k \in S : <<k, m>> \notin OpToRel(<, Nat)
  BY <1>1, WFMin
<1>3. \A k \in S : ~(k < m)
  BY <1>2, Zenon DEF OpToRel
<1>4. QED
  BY <1>3

(* A set of numbers with 0 and each successor holds them all.              *)
LEMMA AllNumbers ==
  ASSUME NEW G, 0 \in G, \A n \in Nat : n \in G => n + 1 \in G
  PROVE  Nat \subseteq G
<1> DEFINE Missing == Nat \ G
<1>1. SUFFICES ASSUME Missing # {} PROVE FALSE
  OBVIOUS
<1>2. PICK m \in Missing : \A k \in Missing : m <= k
  <2>1. Missing \in SUBSET Nat
    OBVIOUS
  <2> HIDE DEF Missing
  <2>2. QED
    BY <1>1, <2>1, LeastNumber
<1>3. m \in Nat \ {0} /\ m - 1 \in Nat /\ m - 1 \notin Missing
  <2>1. m \in Nat /\ m # 0
    OBVIOUS
  <2>2. QED
    BY <1>2, <2>1
<1>4. (m - 1) + 1 \in G
  BY <1>3
<1>5. QED
  BY <1>3, <1>4

(* The same for the subsets of a finite set, taking from each the element  *)
(* that a fold takes first.                                                *)
Taken(s) == CHOOSE x \in s : TRUE

LEMMA Smaller ==
  ASSUME NEW s, IsFiniteSet(s), s # {}
  PROVE  /\ Taken(s) \in s /\ Cardinality(s) \in Nat \ {0}
         /\ IsFiniteSet(s \ {Taken(s)})
         /\ Cardinality(s \ {Taken(s)}) = Cardinality(s) - 1
<1>1. Taken(s) \in s
  BY DEF Taken
<1>2. Cardinality(s) \in Nat /\ Cardinality(s) # 0
  BY FS_CardinalityType, FS_EmptySet
<1>3. QED
  BY <1>1, <1>2, FS_RemoveElement

LEMMA AllSubsets ==
  ASSUME NEW S, IsFiniteSet(S), NEW G, {} \in G,
         \A s \in SUBSET S : s # {} /\ s \ {Taken(s)} \in G => s \in G
  PROVE  SUBSET S \subseteq G
<1> DEFINE Sizes == {n \in Nat : \A s \in SUBSET S : Cardinality(s) = n => s \in G}
<1>1. \A s \in SUBSET S : IsFiniteSet(s) /\ Cardinality(s) \in Nat
  BY FS_Subset, FS_CardinalityType
<1>2. 0 \in Sizes
  BY <1>1, FS_EmptySet
<1>3. ASSUME NEW n \in Nat, n \in Sizes
      PROVE  n + 1 \in Sizes
  <2>1. SUFFICES ASSUME NEW s \in SUBSET S, Cardinality(s) = n + 1
                 PROVE  s \in G
    BY <1>3
  <2>2. s # {} /\ IsFiniteSet(s)
    BY <1>1, <2>1, FS_EmptySet
  <2>3. s \ {Taken(s)} \in SUBSET S /\ Cardinality(s \ {Taken(s)}) = n
    BY <2>1, <2>2, Smaller
  <2>4. QED
    BY <1>3, <2>2, <2>3
<1>4. Nat \subseteq Sizes
  <2> HIDE DEF Sizes
  <2>1. QED
    BY <1>2, <1>3, AllNumbers
<1>5. QED
  BY <1>1, <1>4
-----------------------------------------------------------------------------

(* Sums.  A Total is a recursive function of the subsets of its domain:    *)
(* there is one, and it is a number and additive, by induction over them.  *)
SumTo(counts, S) ==
  CHOOSE sum : sum = [s \in SUBSET S |->
       IF s = {} THEN 0 ELSE LET x == CHOOSE x \in s : TRUE IN counts[x] + sum[s \ {x}]]

IsSum(sum, counts, sets) ==
  sum = [s \in sets |-> IF s = {} THEN 0 ELSE counts[Taken(s)] + sum[s \ {Taken(s)}]]

LEMMA SumExists ==
  ASSUME NEW counts, NEW S, IsFiniteSet(S)
  PROVE  IsSum(SumTo(counts, S), counts, SUBSET S)
<1> DEFINE Small(n) == {s \in SUBSET S : Cardinality(s) <= n}
           Sizes == {n \in Nat : \E sum : IsSum(sum, counts, Small(n))}
<1>1. \A s \in SUBSET S : IsFiniteSet(s) /\ Cardinality(s) \in Nat
  BY FS_Subset, FS_CardinalityType
<1>2. 0 \in Sizes
  <2>1. \A s \in Small(0) : s = {}
    <3>1. \A s \in Small(0) : Cardinality(s) = 0
      BY <1>1
    <3>2. QED
      BY <1>1, <3>1, FS_EmptySet
  <2>2. IsSum([s \in Small(0) |-> 0], counts, Small(0))
    BY <2>1 DEF IsSum
  <2>3. QED
    BY <2>2
<1>3. ASSUME NEW n \in Nat, n \in Sizes
      PROVE  n + 1 \in Sizes
  <2>1. PICK f : IsSum(f, counts, Small(n))
    BY <1>3
  <2> DEFINE g == [s \in Small(n + 1) |->
                     IF s = {} THEN 0 ELSE counts[Taken(s)] + f[s \ {Taken(s)}]]
  <2>2. \A s \in Small(n) : s \in Small(n + 1)
    BY <1>1
  <2>3. \A s \in Small(n) : f[s] = g[s]
    <3>1. \A s \in Small(n) :
            f[s] = IF s = {} THEN 0 ELSE counts[Taken(s)] + f[s \ {Taken(s)}]
      BY <2>1 DEF IsSum
    <3>2. \A s \in Small(n + 1) :
            g[s] = IF s = {} THEN 0 ELSE counts[Taken(s)] + f[s \ {Taken(s)}]
      OBVIOUS
    <3>3. QED
      BY <2>2, <3>1, <3>2
  <2>4. ASSUME NEW s \in Small(n + 1), s # {}
        PROVE  f[s \ {Taken(s)}] = g[s \ {Taken(s)}]
    <3>1. s \ {Taken(s)} \in Small(n)
      BY <1>1, <2>4, Smaller
    <3>2. QED
      BY <2>3, <3>1
  <2>5. g = [s \in Small(n + 1) |->
               IF s = {} THEN 0 ELSE counts[Taken(s)] + g[s \ {Taken(s)}]]
    <3>1. \A s \in Small(n + 1) :
            g[s] = IF s = {} THEN 0 ELSE counts[Taken(s)] + g[s \ {Taken(s)}]
      BY <2>4
    <3> DEFINE h == [s \in Small(n + 1) |->
                       IF s = {} THEN 0 ELSE counts[Taken(s)] + g[s \ {Taken(s)}]]
    <3>2. \A s \in Small(n + 1) : h[s] = g[s]
      BY <3>1
    <3>3. g = [s \in Small(n + 1) |-> g[s]] /\ h = [s \in Small(n + 1) |-> h[s]]
      OBVIOUS
    <3>4. QED
      BY <3>2, <3>3
  <2>6. IsSum(g, counts, Small(n + 1))
    BY <2>5 DEF IsSum
  <2> HIDE DEF g, Small
  <2>7. \E sum : IsSum(sum, counts, Small(n + 1))
    BY <2>6
  <2>8. QED
    BY <2>7
<1>4. Cardinality(S) \in Sizes
  <2> HIDE DEF Sizes
  <2>1. QED
    BY <1>1, <1>2, <1>3, AllNumbers
<1>5. Small(Cardinality(S)) = SUBSET S
  BY FS_Subset
<1>6. \E sum : IsSum(sum, counts, SUBSET S)
  BY <1>4, <1>5
<1>7. SumTo(counts, S) = CHOOSE sum : IsSum(sum, counts, SUBSET S)
  BY DEF SumTo, IsSum, Taken
<1>8. QED
  BY <1>6, <1>7

LEMMA SumSteps ==
  ASSUME NEW counts, NEW S, IsFiniteSet(S)
  PROVE  \A s \in SUBSET S :
           SumTo(counts, S)[s] = IF s = {} THEN 0
                                 ELSE counts[Taken(s)] + SumTo(counts, S)[s \ {Taken(s)}]
<1> DEFINE sum == SumTo(counts, S)
<1>1. IsSum(sum, counts, SUBSET S)
  BY SumExists
<1> HIDE DEF sum
<1>2. \A s \in SUBSET S :
        sum[s] = IF s = {} THEN 0 ELSE counts[Taken(s)] + sum[s \ {Taken(s)}]
  BY <1>1 DEF IsSum
<1>3. QED
  BY <1>2 DEF sum

LEMMA TotalIsSum ==
  ASSUME NEW counts
  PROVE  Total(counts) = SumTo(counts, DOMAIN counts)[DOMAIN counts]
BY DEF Total, SumFunction, SumFunctionOnSet, FoldFunctionOnSet, MapThenFoldSet, SumTo

(* A sum of numbers is one, and the sum of sums is that of each.           *)
LEMMA TotalIsNumber ==
  ASSUME NEW S, IsFiniteSet(S), NEW counts \in [S -> Nat]
  PROVE  Total(counts) \in Nat
<1> DEFINE sum == SumTo(counts, S)
           G == {s \in SUBSET S : sum[s] \in Nat}
<1>1. \A s \in SUBSET S :
        sum[s] = IF s = {} THEN 0 ELSE counts[Taken(s)] + sum[s \ {Taken(s)}]
  BY SumSteps
<1>2. \A s \in SUBSET S : s # {} => counts[Taken(s)] \in Nat
  BY DEF Taken
<1> HIDE DEF sum
<1>3. {} \in G /\ \A s \in SUBSET S : s # {} /\ s \ {Taken(s)} \in G => s \in G
  <2>1. {} \in SUBSET S /\ sum[{}] = 0
    BY <1>1
  <2>2. ASSUME NEW s \in SUBSET S, s # {}, s \ {Taken(s)} \in G
        PROVE  sum[s] \in Nat
    <3>1. sum[s] = counts[Taken(s)] + sum[s \ {Taken(s)}]
      BY <1>1, <2>2
    <3>2. QED
      BY <1>2, <2>2, <3>1
  <2>3. QED
    BY <2>1, <2>2
<1>4. SUBSET S \subseteq G
  <2> HIDE DEF G
  <2>1. QED
    BY <1>3, AllSubsets
<1>5. QED
  BY <1>4, TotalIsSum DEF sum

LEMMA TotalOfSums ==
  ASSUME NEW S, IsFiniteSet(S), NEW a \in [S -> Nat], NEW b \in [S -> Nat]
  PROVE  Total([x \in S |-> a[x] + b[x]]) = Total(a) + Total(b)
<1> DEFINE c == [x \in S |-> a[x] + b[x]]
           A == SumTo(a, S)
           B == SumTo(b, S)
           C == SumTo(c, S)
           G == {s \in SUBSET S : A[s] \in Nat /\ B[s] \in Nat /\ C[s] = A[s] + B[s]}
<1>1. /\ \A s \in SUBSET S : A[s] = IF s = {} THEN 0 ELSE a[Taken(s)] + A[s \ {Taken(s)}]
      /\ \A s \in SUBSET S : B[s] = IF s = {} THEN 0 ELSE b[Taken(s)] + B[s \ {Taken(s)}]
      /\ \A s \in SUBSET S : C[s] = IF s = {} THEN 0 ELSE c[Taken(s)] + C[s \ {Taken(s)}]
  <2> HIDE DEF c
  <2>1. \A s \in SUBSET S : A[s] = IF s = {} THEN 0 ELSE a[Taken(s)] + A[s \ {Taken(s)}]
    BY SumSteps
  <2>2. \A s \in SUBSET S : B[s] = IF s = {} THEN 0 ELSE b[Taken(s)] + B[s \ {Taken(s)}]
    BY SumSteps
  <2>3. \A s \in SUBSET S : C[s] = IF s = {} THEN 0 ELSE c[Taken(s)] + C[s \ {Taken(s)}]
    BY SumSteps
  <2>4. QED
    BY <2>1, <2>2, <2>3
<1>2. \A s \in SUBSET S : s # {} =>
        /\ a[Taken(s)] \in Nat /\ b[Taken(s)] \in Nat
        /\ c[Taken(s)] = a[Taken(s)] + b[Taken(s)]
  BY DEF Taken
<1>3. DOMAIN a = S /\ DOMAIN b = S /\ DOMAIN c = S
  OBVIOUS
<1> HIDE DEF c, A, B, C
<1>4. {} \in G
  <2>1. {} \in SUBSET S /\ A[{}] = 0 /\ B[{}] = 0 /\ C[{}] = 0
    BY <1>1
  <2>2. QED
    BY <2>1
<1>5. ASSUME NEW s \in SUBSET S, s # {}, s \ {Taken(s)} \in G
      PROVE  s \in G
  <2>1. /\ A[s] = a[Taken(s)] + A[s \ {Taken(s)}]
        /\ B[s] = b[Taken(s)] + B[s \ {Taken(s)}]
        /\ C[s] = c[Taken(s)] + C[s \ {Taken(s)}]
    BY <1>1, <1>5
  <2>2. QED
    BY <1>2, <1>5, <2>1
<1>6. SUBSET S \subseteq G
  <2> HIDE DEF G
  <2>1. QED
    BY <1>4, <1>5, AllSubsets
<1>7. Total(a) = A[S] /\ Total(b) = B[S] /\ Total(c) = C[S]
  BY <1>3, TotalIsSum DEF A, B, C
<1>8. QED
  BY <1>6, <1>7 DEF c

LEMMA TotalGrows ==
  ASSUME NEW S, IsFiniteSet(S), NEW a \in [S -> Nat], NEW b \in [S -> Nat],
         \A x \in S : a[x] <= b[x]
  PROVE  Total(a) <= Total(b)
<1> DEFINE d == [x \in S |-> b[x] - a[x]]
<1>1. d \in [S -> Nat] /\ b = [x \in S |-> a[x] + d[x]]
  OBVIOUS
<1> HIDE DEF d
<1>2. /\ Total(b) = Total(a) + Total(d)
      /\ Total(a) \in Nat /\ Total(d) \in Nat
  BY <1>1, TotalIsNumber, TotalOfSums
<1>3. QED
  BY <1>2

LEMMA TotalOfZero == Zero \in [Cpus -> Nat] /\ Total(Zero) = 0
<1> DEFINE twice == [c \in Cpus |-> Zero[c] + Zero[c]]
<1>1. Zero \in [Cpus -> Nat] /\ twice = Zero
  BY DEF Zero
<1>2. Total(twice) = Total(Zero) + Total(Zero)
  BY <1>1, CpusAssumption, TotalOfSums
<1>3. Total(Zero) \in Nat
  BY <1>1, CpusAssumption, TotalIsNumber
<1>4. Total(twice) = Total(Zero)
  BY <1>1, Zenon
<1>5. \A n \in Nat : n = n + n => n = 0
  OBVIOUS
<1>6. QED
  BY <1>1, <1>2, <1>3, <1>4, <1>5, Zenon

-----------------------------------------------------------------------------
USE UnreadAssumption

NetTypes ==
  /\ net \in Nat /\ prevNet \in Nat \union {Unread}
  /\ netTotal \in Nat /\ carried \in Nat
  /\ steady \in BOOLEAN

(* What the total still lacks is what the next reading would add; and while*)
(* no counter has gone back, that is all of it.                            *)
NothingBefore == prevNet = Unread => netTotal = 0 /\ carried = 0
NeverTooMuch == prevNet # Unread => netTotal + Gain(prevNet, net) <= carried
NeverTooLittle ==
  (prevNet # Unread /\ steady) =>
    /\ prevNet <= net
    /\ run = "on" => netTotal + (net - prevNet) = carried

NetInductive == NetTypes /\ NothingBefore /\ NeverTooMuch /\ NeverTooLittle

LEMMA InitHolds == Init => NetInductive
  BY DEF Init, NetInductive, NetTypes, NothingBefore, NeverTooMuch,
         NeverTooLittle, Gain

(* Every reading of the network, whether its sample counts or not.         *)
LEMMA TickKeeps == NetInductive /\ Tick => NetInductive'
<1> SUFFICES ASSUME NetInductive, Tick
             PROVE  NetInductive'
  OBVIOUS
<1>1. CASE prevNet' = net /\ netTotal' = netTotal + NetGain
  BY <1>1 DEF Tick, NetInductive, NetTypes, NothingBefore, NeverTooMuch,
              NeverTooLittle, NetGain, Gain
<1>2. CASE NetReadFails /\ UNCHANGED netTotal
  BY <1>2 DEF Tick, NetReadFails, NetInductive, NetTypes, NothingBefore,
              NeverTooMuch, NeverTooLittle, Gain
<1>3. QED
  BY <1>1, <1>2 DEF Tick, ReadNetwork

(* A counter that goes back makes up for no traffic.                       *)
LEMMA InterfaceKeeps == NetInductive /\ InterfaceGone => NetInductive'
<1> SUFFICES ASSUME NetInductive, InterfaceGone
             PROVE  NetInductive'
  OBVIOUS
<1>1. /\ net' \in Nat /\ net' <= net /\ steady' = FALSE
      /\ prevNet' = prevNet /\ netTotal' = netTotal /\ carried' = carried
  BY DEF InterfaceGone, NetInductive, NetTypes
<1>2. NeverTooMuch'
  <2>1. CASE prevNet = Unread
    BY <1>1, <2>1 DEF NeverTooMuch
  <2>2. CASE prevNet \in Nat
    <3>1. netTotal + Gain(prevNet, net) <= carried
      BY <2>2 DEF NetInductive, NeverTooMuch
    <3>2. netTotal \in Nat /\ carried \in Nat /\ net \in Nat
      BY DEF NetInductive, NetTypes
    <3>3. CASE net' > prevNet
      <4>1. net > prevNet
        BY <1>1, <2>2, <3>2, <3>3
      <4>2. netTotal + (net - prevNet) <= carried
        BY <3>1, <4>1 DEF Gain
      <4>3. netTotal + (net' - prevNet) <= carried
        <5>1. \A t, n, m, p, c \in Nat :
                 m <= n /\ t + (n - p) <= c => t + (m - p) <= c
          OBVIOUS
        <5>2. QED
          BY <1>1, <2>2, <3>2, <4>2, <5>1
      <4>4. netTotal' + Gain(prevNet', net') <= carried'
        BY <1>1, <3>3, <4>3 DEF Gain
      <4>5. QED
        BY <4>4 DEF NeverTooMuch, Gain
    <3>4. CASE ~(net' > prevNet)
      BY <1>1, <2>2, <3>1, <3>2, <3>4 DEF NeverTooMuch, Gain
    <3>5. QED
      BY <3>3, <3>4
  <2>3. QED
    BY <2>1, <2>2 DEF NetInductive, NetTypes
<1>3. NetTypes' /\ NothingBefore' /\ NeverTooLittle'
  BY <1>1 DEF NetInductive, NetTypes, NothingBefore, NeverTooLittle
<1>4. QED
  BY <1>2, <1>3 DEF NetInductive

LEMMA StepKeeps == NetInductive /\ [Next]_vars => NetInductive'
<1> SUFFICES ASSUME NetInductive, [Next]_vars
             PROVE  NetInductive'
  OBVIOUS
<1> USE DEF NetInductive, NetTypes, NothingBefore, NeverTooMuch,
            NeverTooLittle, Gain
<1>1. CASE Interval
  BY <1>1 DEF Interval, netState
<1>2. CASE Traffic
  BY <1>2 DEF Traffic
<1>3. CASE CgroupReplaced
  BY <1>3 DEF CgroupReplaced, netState
<1>4. CASE InterfaceGone
  BY <1>4, InterfaceKeeps
<1>5. CASE Tick
  BY <1>5, TickKeeps
<1>6. CASE TickFails
  BY <1>6 DEF TickFails, netState
<1>7. CASE LastLineLost
  <2>1. /\ run' = "over" /\ UNCHANGED <<net, netTotal, carried, steady>>
        /\ prevNet' = net \/ prevNet' = prevNet
    BY <1>7 DEF LastLineLost
  <2>2. CASE prevNet' = prevNet
    BY <2>1, <2>2
  <2>3. CASE prevNet' = net
    BY <2>1, <2>3
  <2>4. QED
    BY <2>1, <2>2, <2>3
<1>8. CASE Stop
  BY <1>8 DEF Stop, netState
<1>9. CASE UNCHANGED vars
  BY <1>9 DEF vars, netState
<1>10. QED
  BY <1>1, <1>2, <1>3, <1>4, <1>5, <1>6, <1>7, <1>8, <1>9 DEF Next, Over

(* NetChargedOnce, for a node with any traffic, any failed readings and    *)
(* any interface that goes away.                                           *)
THEOREM NetAlwaysChargedOnce == Spec => []NetChargedOnce
<1>1. NetInductive => NetChargedOnce
  BY DEF NetInductive, NetTypes, NothingBefore, NeverTooMuch, NeverTooLittle,
         NetChargedOnce, Gain
<1>2. QED
  BY InitHolds, StepKeeps, <1>1, PTL DEF Spec
-----------------------------------------------------------------------------
(* The CPU.  What the summary still lacks is what the next reading would   *)
(* add, in all and CPU by CPU; no CPU has run for more than the window;    *)
(* and while no counter has gone back the summary is the last reading.     *)
Machine == Total([c \in Cpus |-> 1])
Readings == [at : Nat, cpu : [Cpus -> Nat]]
Pending == Gain(Total(prevCpu.cpu), Total(cpu))

CpuTypes ==
  /\ clock \in Nat /\ steady \in BOOLEAN /\ coreSeconds \in Nat /\ charged \in Nat
  /\ cpu \in [Cpus -> Nat] /\ used \in [Cpus -> Nat] /\ byCpu \in [Cpus -> Nat]
  /\ peak \in [gain : Nat, dt : Nat]
  /\ prevCpu \in Readings /\ prevCpu.at <= clock

NotOvercharged == coreSeconds + Pending <= Total(used)
UpToLast ==
  steady => /\ \A c \in Cpus : prevCpu.cpu[c] <= cpu[c]
            /\ run = "on" => coreSeconds + charged = Total(prevCpu.cpu)
WithinMachine ==
  /\ Pending <= (clock - prevCpu.at) * Machine
  /\ peak.gain <= peak.dt * Machine
CoreByCore ==
  version = "v1" =>
    /\ \A c \in Cpus : byCpu[c] + Gain(prevCpu.cpu[c], cpu[c]) <= used[c]
    /\ steady => /\ \A c \in Cpus : cpu[c] - prevCpu.cpu[c] <= clock - prevCpu.at
                 /\ Total(byCpu) = coreSeconds

CpuInv ==
  primed => CpuTypes /\ NotOvercharged /\ UpToLast /\ WithinMachine /\ CoreByCore

LEMMA MachineIsNumber == Machine \in Nat
<1> DEFINE ones == [c \in Cpus |-> 1]
<1>1. ones \in [Cpus -> Nat]
  OBVIOUS
<1> HIDE DEF ones
<1>2. Total(ones) \in Nat
  BY <1>1, CpusAssumption, TotalIsNumber
<1>3. QED
  BY <1>2 DEF ones, Machine

(* The sums the invariant is about.                                        *)
LEMMA SumsAreNumbers ==
  ASSUME CpuTypes
  PROVE  /\ Total(prevCpu.cpu) \in Nat /\ Total(cpu) \in Nat /\ Total(used) \in Nat
         /\ Total(byCpu) \in Nat /\ Pending \in Nat
<1>1. prevCpu.cpu \in [Cpus -> Nat]
  BY DEF CpuTypes, Readings
<1>2. /\ Total(prevCpu.cpu) \in Nat /\ Total(cpu) \in Nat
      /\ Total(used) \in Nat /\ Total(byCpu) \in Nat
  BY <1>1, CpusAssumption, TotalIsNumber DEF CpuTypes
<1>3. QED
  BY <1>2 DEF Pending, Gain

LEMMA CpuInitially == Init => CpuInv
<1> SUFFICES ASSUME Init, primed PROVE CpuInv
  BY DEF CpuInv
<1>1. /\ clock = 1 /\ cpu \in [Cpus -> Nat] /\ used = Zero /\ byCpu = Zero
      /\ prevCpu = [at |-> clock, cpu |-> cpu] /\ charged = Total(cpu)
      /\ coreSeconds = 0 /\ peak = [gain |-> 0, dt |-> 1] /\ steady = TRUE
  BY DEF Init
<1>2. Zero \in [Cpus -> Nat] /\ Total(Zero) = 0 /\ Total(cpu) \in Nat
  BY <1>1, TotalOfZero, CpusAssumption, TotalIsNumber
<1>3. CpuTypes /\ Machine \in Nat
  BY <1>1, <1>2, MachineIsNumber DEF CpuTypes, Readings
<1>4. Pending = 0 /\ \A c \in Cpus : Gain(prevCpu.cpu[c], cpu[c]) = 0
  BY <1>1, <1>2 DEF Pending, Gain
<1>5. NotOvercharged /\ UpToLast /\ CoreByCore
  <2>1. \A c \in Cpus : byCpu[c] = 0 /\ used[c] = 0
    BY <1>1 DEF Zero
  <2>2. NotOvercharged
    BY <1>1, <1>2, <1>4 DEF NotOvercharged
  <2>3. UpToLast
    BY <1>1, <1>2 DEF UpToLast
  <2>4. CoreByCore
    BY <1>1, <1>2, <1>4, <2>1 DEF CoreByCore
  <2>5. QED
    BY <2>2, <2>3, <2>4
<1>6. WithinMachine
  BY <1>1, <1>3, <1>4 DEF WithinMachine
<1>7. QED
  BY <1>3, <1>5, <1>6 DEF CpuInv

(* An interval adds to the counters what it adds to the use, and at most   *)
(* itself for each CPU.                                                    *)
LEMMA IntervalKeeps == CpuInv /\ primed /\ Interval => CpuInv'
<1> SUFFICES ASSUME CpuInv, primed, Interval PROVE CpuInv'
  OBVIOUS
<1>1. /\ CpuTypes /\ NotOvercharged /\ UpToLast /\ WithinMachine /\ CoreByCore
      /\ Machine \in Nat
  BY MachineIsNumber DEF CpuInv
<1>2. PICK busy \in [Cpus -> 0..1] :
        /\ cpu' = [c \in Cpus |-> cpu[c] + busy[c]]
        /\ used' = [c \in Cpus |-> used[c] + busy[c]]
  BY DEF Interval
<1>3. /\ clock' = clock + 1
      /\ UNCHANGED <<run, version, prevCpu, coreSeconds, byCpu, peak, primed, charged, steady>>
  BY DEF Interval
<1>4. /\ Total(cpu') = Total(cpu) + Total(busy) /\ Total(used') = Total(used) + Total(busy)
      /\ Total(busy) \in Nat /\ Total(busy) <= Machine
  <2>1. busy \in [Cpus -> Nat]
    OBVIOUS
  <2>2. Total(cpu') = Total(cpu) + Total(busy) /\ Total(used') = Total(used) + Total(busy)
    BY <1>1, <1>2, <2>1, CpusAssumption, TotalOfSums DEF CpuTypes
  <2> DEFINE ones == [c \in Cpus |-> 1]
  <2>3. ones \in [Cpus -> Nat] /\ \A c \in Cpus : busy[c] <= ones[c]
    OBVIOUS
  <2> HIDE DEF ones
  <2>4. Total(busy) <= Total(ones) /\ Total(busy) \in Nat
    BY <2>1, <2>3, CpusAssumption, TotalGrows, TotalIsNumber
  <2>5. QED
    BY <2>2, <2>4 DEF Machine, ones
<1>5. /\ Total(prevCpu.cpu) \in Nat /\ Total(cpu) \in Nat /\ Total(used) \in Nat
      /\ Pending \in Nat
  BY <1>1, SumsAreNumbers
<1>6. CpuTypes'
  BY <1>1, <1>2, <1>3 DEF CpuTypes, Readings
<1>7. Pending' <= Pending + Total(busy)
  BY <1>3, <1>4, <1>5 DEF Pending, Gain
<1>8. Pending' \in Nat
  BY <1>6, SumsAreNumbers, <1>3, <1>4, <1>5 DEF Pending, Gain
<1>9. NotOvercharged'
  BY <1>1, <1>3, <1>4, <1>5, <1>7, <1>8 DEF NotOvercharged, CpuTypes
<1>10. \A c \in Cpus :
         /\ cpu[c] \in Nat /\ used[c] \in Nat /\ busy[c] \in 0..1 /\ byCpu[c] \in Nat
         /\ cpu'[c] = cpu[c] + busy[c] /\ used'[c] = used[c] + busy[c]
         /\ prevCpu.cpu[c] \in Nat
  BY <1>1, <1>2 DEF CpuTypes, Readings
<1>11. UpToLast'
  BY <1>1, <1>3, <1>10 DEF UpToLast
<1>12. WithinMachine'
  <2> DEFINE w == clock - prevCpu.at
  <2>1. w \in Nat /\ clock' - prevCpu.at = w + 1
    BY <1>1, <1>3 DEF CpuTypes, Readings
  <2>2. \A n \in Nat : (w + 1) * n = w * n + n /\ w * n \in Nat
    BY <2>1
  <2>3. Pending <= w * Machine
    BY <1>1 DEF WithinMachine
  <2> HIDE DEF w
  <2>4. Pending' <= (w + 1) * Machine
    BY <1>1, <1>4, <1>5, <1>7, <1>8, <2>2, <2>3
  <2>5. Machine' = Machine /\ peak' = peak /\ prevCpu' = prevCpu
    BY <1>3 DEF Machine
  <2>6. QED
    BY <1>1, <2>1, <2>4, <2>5 DEF WithinMachine
<1>13. CoreByCore'
  <2>1. SUFFICES ASSUME version = "v1"
                 PROVE  /\ \A c \in Cpus : byCpu[c] + Gain(prevCpu.cpu[c], cpu'[c]) <= used'[c]
                        /\ steady =>
                             /\ \A c \in Cpus : cpu'[c] - prevCpu.cpu[c] <= clock' - prevCpu.at
                             /\ Total(byCpu) = coreSeconds
    BY <1>3 DEF CoreByCore, Gain
  <2>2. ASSUME NEW c \in Cpus PROVE byCpu[c] + Gain(prevCpu.cpu[c], cpu'[c]) <= used'[c]
    <3>1. byCpu[c] + Gain(prevCpu.cpu[c], cpu[c]) <= used[c]
      BY <1>1, <2>1 DEF CoreByCore
    <3>2. QED
      BY <1>10, <3>1 DEF Gain
  <2>3. ASSUME steady, NEW c \in Cpus
        PROVE  cpu'[c] - prevCpu.cpu[c] <= clock' - prevCpu.at
    <3>1. /\ cpu[c] - prevCpu.cpu[c] <= clock - prevCpu.at /\ clock \in Nat
          /\ prevCpu.at \in Nat
      BY <1>1, <2>1, <2>3 DEF CoreByCore, CpuTypes, Readings
    <3>2. QED
      BY <1>3, <1>10, <3>1
  <2>4. QED
    BY <1>1, <2>1, <2>2, <2>3 DEF CoreByCore
<1>14. QED
  BY <1>6, <1>9, <1>11, <1>12, <1>13 DEF CpuInv

(* A new reading, charged or not, leaves nothing pending.                  *)
LEMMA ReadingClears ==
  ASSUME CpuTypes, prevCpu' = [at |-> clock, cpu |-> cpu], UNCHANGED <<clock, cpu>>
  PROVE  /\ prevCpu' \in Readings /\ prevCpu'.at <= clock' /\ Pending' = 0
         /\ \A c \in Cpus : /\ Gain(prevCpu'.cpu[c], cpu'[c]) = 0
                            /\ cpu'[c] - prevCpu'.cpu[c] = 0
         /\ clock' - prevCpu'.at = 0
<1>1. Total(cpu) \in Nat /\ \A c \in Cpus : cpu[c] \in Nat
  BY SumsAreNumbers DEF CpuTypes
<1>2. prevCpu'.cpu = cpu /\ prevCpu'.at = clock /\ clock \in Nat
  BY DEF CpuTypes
<1>3. QED
  BY <1>1, <1>2 DEF CpuTypes, Readings, Pending, Gain

LEMMA CpuTickKeeps == CpuInv /\ primed /\ Tick => CpuInv'
<1> SUFFICES ASSUME CpuInv, primed, Tick PROVE CpuInv'
  OBVIOUS
<1>1. /\ CpuTypes /\ NotOvercharged /\ UpToLast /\ WithinMachine /\ CoreByCore
      /\ Machine \in Nat
  BY MachineIsNumber DEF CpuInv
<1>2. /\ prevCpu' = [at |-> clock, cpu |-> cpu]
      /\ UNCHANGED <<clock, run, version, cpu, primed, used, charged, steady>>
      /\ UpdateSummary
  BY DEF Tick
<1>3. Baseline = prevCpu /\ TotalGain = Pending /\ Window = clock - prevCpu.at
  <2>1. prevCpu # Unread
    BY <1>1, UnreadAssumption DEF CpuTypes, Readings
  <2>2. QED
    BY <2>1 DEF Baseline, TotalGain, Pending, Window
<1>4. /\ coreSeconds' = coreSeconds + Pending
      /\ byCpu' = [c \in Cpus |-> byCpu[c] + CpuGain(c)]
      /\ peak' = Busier(peak, [gain |-> Pending, dt |-> clock - prevCpu.at])
  BY <1>2, <1>3 DEF UpdateSummary
<1>5. /\ prevCpu' \in Readings /\ prevCpu'.at <= clock' /\ Pending' = 0
      /\ clock' - prevCpu'.at = 0
      /\ \A c \in Cpus : /\ Gain(prevCpu'.cpu[c], cpu'[c]) = 0
                         /\ cpu'[c] - prevCpu'.cpu[c] = 0
  BY <1>1, <1>2, ReadingClears
<1>6. /\ Total(prevCpu.cpu) \in Nat /\ Total(cpu) \in Nat /\ Total(used) \in Nat
      /\ Total(byCpu) \in Nat /\ Pending \in Nat
  BY <1>1, SumsAreNumbers
<1>7. /\ clock \in Nat /\ prevCpu.at \in Nat /\ clock - prevCpu.at \in Nat
      /\ prevCpu.cpu \in [Cpus -> Nat]
  BY <1>1 DEF CpuTypes, Readings
<1>8. \A c \in Cpus :
        /\ CpuGain(c) \in Nat
        /\ version = "v1" => CpuGain(c) <= Gain(prevCpu.cpu[c], cpu[c])
        /\ (version = "v1" /\ steady) => CpuGain(c) = cpu[c] - prevCpu.cpu[c]
  <2>1. SUFFICES ASSUME NEW c \in Cpus
                 PROVE  /\ CpuGain(c) \in Nat
                        /\ version = "v1" => CpuGain(c) <= Gain(prevCpu.cpu[c], cpu[c])
                        /\ (version = "v1" /\ steady) => CpuGain(c) = cpu[c] - prevCpu.cpu[c]
    OBVIOUS
  <2>2. cpu[c] \in Nat /\ prevCpu.cpu[c] \in Nat
    BY <1>1, <1>7 DEF CpuTypes
  <2>3. CpuGain(c) = IF version = "v1" THEN Clamped(Gain(prevCpu.cpu[c], cpu[c])) ELSE 0
    BY <1>3 DEF CpuGain
  <2>4. Gain(prevCpu.cpu[c], cpu[c]) \in Nat
    BY <2>2 DEF Gain
  <2>5. /\ Clamped(Gain(prevCpu.cpu[c], cpu[c])) \in Nat
        /\ Clamped(Gain(prevCpu.cpu[c], cpu[c])) <= Gain(prevCpu.cpu[c], cpu[c])
    BY <1>3, <1>7, <2>4 DEF Clamped
  <2>6. ASSUME version = "v1", steady
        PROVE  Clamped(Gain(prevCpu.cpu[c], cpu[c])) = cpu[c] - prevCpu.cpu[c]
    <3>1. prevCpu.cpu[c] <= cpu[c] /\ cpu[c] - prevCpu.cpu[c] <= clock - prevCpu.at
      BY <1>1, <2>6 DEF UpToLast, CoreByCore
    <3>2. Gain(prevCpu.cpu[c], cpu[c]) = cpu[c] - prevCpu.cpu[c]
      BY <2>2, <3>1 DEF Gain
    <3>3. QED
      BY <1>3, <1>7, <2>2, <3>1, <3>2 DEF Clamped
  <2>7. QED
    BY <2>3, <2>5, <2>6
<1>9. CpuTypes'
  <2>1. byCpu' \in [Cpus -> Nat]
    BY <1>1, <1>4, <1>8 DEF CpuTypes
  <2>2. peak' \in [gain : Nat, dt : Nat]
    BY <1>1, <1>4, <1>6, <1>7 DEF CpuTypes, Busier
  <2>3. coreSeconds' \in Nat
    BY <1>1, <1>4, <1>6 DEF CpuTypes
  <2>4. QED
    BY <1>1, <1>2, <1>5, <2>1, <2>2, <2>3 DEF CpuTypes
<1>10. NotOvercharged'
  <2>1. coreSeconds' + Pending' <= Total(used)
    BY <1>1, <1>4, <1>5, <1>6 DEF NotOvercharged, CpuTypes
  <2>2. QED
    BY <1>2, <2>1 DEF NotOvercharged
<1>11. steady => Pending = Total(cpu) - Total(prevCpu.cpu)
  <2>1. steady => Total(prevCpu.cpu) <= Total(cpu)
    BY <1>1, <1>7, CpusAssumption, TotalGrows DEF UpToLast, CpuTypes
  <2>2. QED
    BY <1>6, <2>1 DEF Pending, Gain
<1>12. UpToLast'
  <2>1. \A c \in Cpus : prevCpu'.cpu[c] <= cpu'[c]
    BY <1>1, <1>2 DEF CpuTypes
  <2>2. (steady /\ run = "on") => coreSeconds' + charged = Total(cpu)
    BY <1>1, <1>4, <1>6, <1>11 DEF UpToLast, CpuTypes
  <2>3. QED
    BY <1>2, <2>1, <2>2 DEF UpToLast
<1>13. WithinMachine'
  <2>1. Pending <= (clock - prevCpu.at) * Machine /\ peak.gain <= peak.dt * Machine
    BY <1>1 DEF WithinMachine
  <2>2. peak'.gain <= peak'.dt * Machine
    <3>1. CASE peak' = peak
      BY <2>1, <3>1
    <3>2. CASE peak' = [gain |-> Pending, dt |-> clock - prevCpu.at]
      BY <2>1, <3>2
    <3>3. QED
      BY <1>4, <3>1, <3>2 DEF Busier
  <2>3. 0 <= 0 * Machine
    BY <1>1
  <2>4. Machine' = Machine
    BY DEF Machine
  <2>5. QED
    BY <1>5, <2>2, <2>3, <2>4 DEF WithinMachine
<1>14. CoreByCore'
  <2>1. SUFFICES ASSUME version = "v1"
                 PROVE  /\ \A c \in Cpus : byCpu'[c] <= used[c]
                        /\ steady => Total(byCpu') = coreSeconds'
    <3>1. \A c \in Cpus : byCpu'[c] + 0 = byCpu'[c]
      BY <1>9 DEF CpuTypes
    <3>2. QED
      BY <1>2, <1>5, <3>1 DEF CoreByCore
  <2>2. ASSUME NEW c \in Cpus PROVE byCpu'[c] <= used[c]
    <3>1. byCpu[c] + Gain(prevCpu.cpu[c], cpu[c]) <= used[c] /\ byCpu'[c] = byCpu[c] + CpuGain(c)
      BY <1>1, <1>4, <2>1 DEF CoreByCore
    <3>2. /\ CpuGain(c) \in Nat /\ CpuGain(c) <= Gain(prevCpu.cpu[c], cpu[c])
          /\ byCpu[c] \in Nat /\ used[c] \in Nat /\ cpu[c] \in Nat /\ prevCpu.cpu[c] \in Nat
      BY <1>1, <1>7, <1>8, <2>1 DEF CpuTypes
    <3>3. Gain(prevCpu.cpu[c], cpu[c]) \in Nat
      BY <3>2 DEF Gain
    <3>4. QED
      BY <3>1, <3>2, <3>3
  <2>3. ASSUME steady PROVE Total(byCpu') = coreSeconds'
    <3> DEFINE one == [c \in Cpus |-> byCpu'[c] + prevCpu.cpu[c]]
               two == [c \in Cpus |-> byCpu[c] + cpu[c]]
    <3>1. \A c \in Cpus : byCpu'[c] + prevCpu.cpu[c] = byCpu[c] + cpu[c]
      <4>1. SUFFICES ASSUME NEW c \in Cpus
                     PROVE  byCpu'[c] + prevCpu.cpu[c] = byCpu[c] + cpu[c]
        OBVIOUS
      <4>2. byCpu'[c] = byCpu[c] + (cpu[c] - prevCpu.cpu[c])
        BY <1>4, <1>8, <2>1, <2>3
      <4>3. byCpu[c] \in Nat /\ cpu[c] \in Nat /\ prevCpu.cpu[c] \in Nat
        BY <1>1, <1>7 DEF CpuTypes
      <4>4. QED
        BY <4>2, <4>3
    <3>2. one = two
      BY <3>1
    <3>3. Total(one) = Total(byCpu') + Total(prevCpu.cpu) /\ Total(byCpu') \in Nat
      BY <1>7, <1>9, CpusAssumption, TotalOfSums, TotalIsNumber DEF CpuTypes
    <3>4. Total(two) = Total(byCpu) + Total(cpu)
      BY <1>1, CpusAssumption, TotalOfSums DEF CpuTypes
    <3> HIDE DEF one, two
    <3>5. Total(byCpu') + Total(prevCpu.cpu) = Total(byCpu) + Total(cpu)
      BY <3>2, <3>3, <3>4
    <3>6. Total(byCpu) = coreSeconds
      BY <1>1, <2>1, <2>3 DEF CoreByCore
    <3>7. QED
      BY <1>4, <1>6, <1>11, <2>3, <3>3, <3>5, <3>6
  <2>4. QED
    BY <2>2, <2>3
<1>15. QED
  BY <1>9, <1>10, <1>12, <1>13, <1>14 DEF CpuInv

(* A line that is lost was read all the same: what it measured is dropped. *)
LEMMA LostKeeps == CpuInv /\ primed /\ LastLineLost => CpuInv'
<1> SUFFICES ASSUME CpuInv, primed, LastLineLost PROVE CpuInv'
  OBVIOUS
<1>1. /\ CpuTypes /\ NotOvercharged /\ UpToLast /\ WithinMachine /\ CoreByCore
      /\ Machine \in Nat
  BY MachineIsNumber DEF CpuInv
<1>2. /\ prevCpu' = [at |-> clock, cpu |-> cpu] /\ run' = "over"
      /\ UNCHANGED <<clock, version, cpu, primed, used, charged, steady>>
      /\ UNCHANGED <<coreSeconds, byCpu, peak>>
  BY DEF LastLineLost
<1>3. /\ prevCpu' \in Readings /\ prevCpu'.at <= clock' /\ Pending' = 0
      /\ clock' - prevCpu'.at = 0
      /\ \A c \in Cpus : /\ Gain(prevCpu'.cpu[c], cpu'[c]) = 0
                         /\ cpu'[c] - prevCpu'.cpu[c] = 0
  BY <1>1, <1>2, ReadingClears
<1>4. Total(used) \in Nat /\ Pending \in Nat
  BY <1>1, SumsAreNumbers
<1>5. CpuTypes'
  BY <1>1, <1>2, <1>3 DEF CpuTypes
<1>6. NotOvercharged'
  <2>1. coreSeconds + 0 <= Total(used)
    BY <1>1, <1>4 DEF NotOvercharged, CpuTypes
  <2>2. QED
    BY <1>2, <1>3, <2>1 DEF NotOvercharged
<1>7. UpToLast'
  BY <1>1, <1>2 DEF UpToLast, CpuTypes
<1>8. WithinMachine'
  <2>1. 0 <= 0 * Machine /\ Machine' = Machine
    BY <1>1 DEF Machine
  <2>2. QED
    BY <1>1, <1>2, <1>3, <2>1 DEF WithinMachine
<1>9. CoreByCore'
  <2>1. SUFFICES ASSUME version = "v1"
                 PROVE  /\ \A c \in Cpus : byCpu[c] + 0 <= used[c]
                        /\ steady => Total(byCpu) = coreSeconds
    <3>1. \A c \in Cpus : 0 <= clock' - prevCpu'.at
      BY <1>3
    <3>2. QED
      BY <1>2, <1>3, <3>1 DEF CoreByCore
  <2>2. ASSUME NEW c \in Cpus PROVE byCpu[c] + 0 <= used[c]
    <3>1. byCpu[c] + Gain(prevCpu.cpu[c], cpu[c]) <= used[c]
      BY <1>1, <2>1 DEF CoreByCore
    <3>2. byCpu[c] \in Nat /\ used[c] \in Nat /\ cpu[c] \in Nat /\ prevCpu.cpu[c] \in Nat
      BY <1>1 DEF CpuTypes, Readings
    <3>3. QED
      BY <3>1, <3>2 DEF Gain
  <2>3. QED
    BY <1>1, <2>1, <2>2 DEF CoreByCore
<1>10. QED
  BY <1>5, <1>6, <1>7, <1>8, <1>9 DEF CpuInv

(* A counter at zero again has nothing to add.                             *)
LEMMA ReplacedKeeps == CpuInv /\ primed /\ CgroupReplaced => CpuInv'
<1> SUFFICES ASSUME CpuInv, primed, CgroupReplaced PROVE CpuInv'
  OBVIOUS
<1>1. /\ CpuTypes /\ NotOvercharged /\ WithinMachine /\ CoreByCore /\ Machine \in Nat
  BY MachineIsNumber DEF CpuInv
<1>2. /\ cpu' = Zero /\ steady' = FALSE
      /\ UNCHANGED <<clock, run, version, prevCpu, coreSeconds, byCpu, peak, primed, used, charged>>
  BY DEF CgroupReplaced
<1>3. /\ Zero \in [Cpus -> Nat] /\ Total(Zero) = 0 /\ \A c \in Cpus : Zero[c] = 0
  BY TotalOfZero DEF Zero
<1>4. /\ Total(prevCpu.cpu) \in Nat /\ Total(used) \in Nat /\ Pending \in Nat
  BY <1>1, SumsAreNumbers
<1>5. Pending' = 0
  BY <1>2, <1>3, <1>4 DEF Pending, Gain
<1>6. CpuTypes'
  BY <1>1, <1>2, <1>3 DEF CpuTypes
<1>7. NotOvercharged' /\ UpToLast'
  <2>1. coreSeconds + 0 <= Total(used)
    BY <1>1, <1>4 DEF NotOvercharged, CpuTypes
  <2>2. QED
    BY <1>2, <1>5, <2>1 DEF NotOvercharged, UpToLast
<1>8. WithinMachine'
  <2>1. 0 <= (clock - prevCpu.at) * Machine
    <3>1. clock - prevCpu.at \in Nat
      BY <1>1 DEF CpuTypes, Readings
    <3>2. QED
      BY <1>1, <3>1
  <2>2. Machine' = Machine
    BY DEF Machine
  <2>3. QED
    BY <1>1, <1>2, <1>5, <2>1, <2>2 DEF WithinMachine
<1>9. CoreByCore'
  <2>1. SUFFICES ASSUME version = "v1", NEW c \in Cpus
                 PROVE  byCpu[c] + Gain(prevCpu.cpu[c], 0) <= used[c]
    BY <1>2, <1>3 DEF CoreByCore
  <2>2. byCpu[c] + Gain(prevCpu.cpu[c], cpu[c]) <= used[c]
    BY <1>1, <2>1 DEF CoreByCore
  <2>3. byCpu[c] \in Nat /\ used[c] \in Nat /\ cpu[c] \in Nat /\ prevCpu.cpu[c] \in Nat
    BY <1>1 DEF CpuTypes, Readings
  <2>4. QED
    BY <2>2, <2>3 DEF Gain
<1>10. QED
  BY <1>6, <1>7, <1>8, <1>9 DEF CpuInv

(* Any other step leaves all this alone, but for what ends the run or      *)
(* what goes back elsewhere.                                               *)
LEMMA CpuElsewhere ==
  ASSUME CpuInv, UNCHANGED <<clock, version, cpu, prevCpu, coreSeconds, byCpu, peak>>,
         UNCHANGED <<primed, used, charged>>, run' \in {run, "over"},
         steady' \in {steady, FALSE}
  PROVE  CpuInv'
<1>1. Pending' = Pending /\ Machine' = Machine
  BY DEF Pending, Gain, Machine
<1>2. QED
  BY <1>1 DEF CpuInv, CpuTypes, Readings, NotOvercharged, UpToLast, WithinMachine,
              CoreByCore, Gain

LEMMA CpuStepKeeps == CpuInv /\ [Next]_vars => CpuInv'
<1> SUFFICES ASSUME CpuInv, [Next]_vars PROVE CpuInv'
  OBVIOUS
<1>1. CASE ~primed
  <2>1. primed' = primed
    BY DEF Next, Interval, Traffic, CgroupReplaced, InterfaceGone, Tick, TickFails,
           LastLineLost, Stop, Over, vars, cpuState
  <2>2. QED
    BY <1>1, <2>1 DEF CpuInv
<1>2. CASE primed /\ (Traffic \/ InterfaceGone \/ TickFails \/ Stop \/ Over \/ UNCHANGED vars)
  <2>1. /\ UNCHANGED <<clock, version, cpu, prevCpu, coreSeconds, byCpu, peak>>
        /\ UNCHANGED <<primed, used, charged>> /\ run' \in {run, "over"}
        /\ steady' \in {steady, FALSE}
    BY <1>2 DEF Traffic, InterfaceGone, TickFails, KeptReading, Stop, Over, vars, cpuState
  <2>2. QED
    BY <2>1, CpuElsewhere
<1>3. QED
  BY <1>1, <1>2, IntervalKeeps, CpuTickKeeps, LostKeeps, ReplacedKeeps DEF Next

THEOREM CpuAlways == Spec => []CpuInv
<1>1. QED
  BY CpuInitially, CpuStepKeeps, PTL DEF Spec

LEMMA LastReading == CpuInv /\ primed => Baseline = prevCpu
<1> SUFFICES ASSUME CpuInv, primed PROVE prevCpu # Unread
  BY DEF Baseline
<1>1. QED
  BY UnreadAssumption DEF CpuInv, CpuTypes, Readings

(* CpuChargedOnce, for any number of CPUs, any ticks that fail and any     *)
(* cgroup replaced by another.                                             *)
THEOREM CpuAlwaysChargedOnce == Spec => []CpuChargedOnce
<1>1. CpuInv => CpuChargedOnce
  <2> SUFFICES ASSUME CpuInv, primed
               PROVE  /\ coreSeconds <= Total(used)
                      /\ (steady /\ run = "on") =>
                           coreSeconds = Total(Baseline.cpu) - charged
    BY DEF CpuChargedOnce
  <2>1. CpuTypes /\ NotOvercharged /\ UpToLast /\ Baseline = prevCpu
    BY LastReading DEF CpuInv
  <2>2. /\ Total(used) \in Nat /\ Pending \in Nat /\ coreSeconds \in Nat
        /\ charged \in Nat /\ Total(prevCpu.cpu) \in Nat
    BY <2>1, SumsAreNumbers DEF CpuTypes
  <2>3. coreSeconds <= Total(used)
    BY <2>1, <2>2 DEF NotOvercharged
  <2>4. (steady /\ run = "on") => coreSeconds = Total(prevCpu.cpu) - charged
    BY <2>1, <2>2 DEF UpToLast
  <2>5. QED
    BY <2>1, <2>3, <2>4
<1>2. QED
  BY <1>1, CpuAlways, PTL

(* No peak is above what the CPUs of the node can do, over windows of any  *)
(* length.                                                                 *)
THEOREM PeakIsPossible == Spec => []PeakWithinMachine
<1>1. CpuInv => PeakWithinMachine
  BY DEF CpuInv, WithinMachine, PeakWithinMachine, Machine
<1>2. QED
  BY <1>1, CpuAlways, PTL

(* The breakdown adds up to the total, and charges no CPU too much.        *)
THEOREM BreakdownIsExact == Spec => []BreakdownAddsUp
<1>1. CpuInv => BreakdownAddsUp
  <2> SUFFICES ASSUME CpuInv, version = "v1", primed
               PROVE  /\ steady => Total(byCpu) = coreSeconds
                      /\ \A c \in Cpus : byCpu[c] <= used[c]
    BY DEF BreakdownAddsUp
  <2>1. CpuTypes /\ CoreByCore
    BY DEF CpuInv
  <2>2. ASSUME NEW c \in Cpus PROVE byCpu[c] <= used[c]
    <3>1. byCpu[c] + Gain(prevCpu.cpu[c], cpu[c]) <= used[c]
      BY <2>1 DEF CoreByCore
    <3>2. byCpu[c] \in Nat /\ used[c] \in Nat /\ cpu[c] \in Nat /\ prevCpu.cpu[c] \in Nat
      BY <2>1 DEF CpuTypes, Readings
    <3>3. QED
      BY <3>1, <3>2 DEF Gain
  <2>3. QED
    BY <2>1, <2>2 DEF CoreByCore
<1>2. QED
  BY <1>1, CpuAlways, PTL
=============================================================================
