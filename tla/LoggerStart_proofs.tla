-------------------------- MODULE LoggerStart_proofs --------------------------
(***************************************************************************)
(* For every node, every environment and every placement of the processes: *)
(* the whole node is taken for the job only as the last resort, and a time *)
(* limit that Slurm gives is booked to the second.  And on every site      *)
(* where names and files can be relied upon, as LoggerStart states it: no  *)
(* neighbour is measured, the CPUs are the job's, and the preflight keeps  *)
(* its word.                                                               *)
(*                                                                         *)
(* The arguments are those given or what two resolutions made of them      *)
(* (ArgsInv).  What was taken is what the files of some processes that     *)
(* were alive together lead to, and by the ranking it is a file's that is  *)
(* in no later bucket than another that leads somewhere (FoundInv,         *)
(* DiscoverTakes).  What was measured is what that cgroup shows            *)
(* (MeasuredInv), and what the preflight said stays so of the logger's own *)
(* file (CheckInv).                                                        *)
(***************************************************************************)
EXTENDS LoggerStart, SequenceTheorems, WellFoundedInduction, TLAPS

(* Every nonempty set of numbers has a least one.                          *)
LEMMA LeastNumber ==
  ASSUME NEW S \in SUBSET Nat, S # {}
  PROVE  \E m \in S : \A k \in S : m <= k
<1>1. IsWellFoundedOn(OpToRel(<, Nat), Nat)
  BY NatLessThanWellFounded, Zenon
<1>2. PICK m \in S : \A k \in S : <<k, m>> \notin OpToRel(<, Nat)
  BY <1>1, WFMin
<1>3. \A k \in S : ~(k < m)
  BY <1>2, Zenon DEF OpToRel
<1>4. QED
  BY <1>3

(* The first and the last of three.                                        *)
LEMMA LeastIs ==
  ASSUME NEW S \in SUBSET Int, NEW m \in S, \A k \in S : m <= k
  PROVE  Min(S) = m
<1>1. Min(S) = CHOOSE x \in S : \A y \in S : x <= y
  BY DEF Min
<1>2. \A x \in S : (\A y \in S : x <= y) => x = m
  OBVIOUS
<1>3. QED
  BY <1>1, <1>2

LEMMA GreatestIs ==
  ASSUME NEW S \in SUBSET Int, NEW m \in S, \A k \in S : m >= k
  PROVE  Max(S) = m
<1>1. Max(S) = CHOOSE x \in S : \A y \in S : x >= y
  BY DEF Max
<1>2. \A x \in S : (\A y \in S : x >= y) => x = m
  OBVIOUS
<1>3. QED
  BY <1>1, <1>2

LEMMA EndsOfThree ==
  ASSUME NEW S \in SUBSET (1..3), S # {}
  PROVE  /\ Min(S) = IF 1 \in S THEN 1 ELSE IF 2 \in S THEN 2 ELSE 3
         /\ Max(S) = IF 3 \in S THEN 3 ELSE IF 2 \in S THEN 2 ELSE 1
<1>1. S \in SUBSET Int /\ \A k \in S : k = 1 \/ k = 2 \/ k = 3
  OBVIOUS
<1>2. 1 \in S \/ 2 \in S \/ 3 \in S
  BY <1>1
<1>3. Min(S) = IF 1 \in S THEN 1 ELSE IF 2 \in S THEN 2 ELSE 3
  <2>1. CASE 1 \in S
    <3>1. \A k \in S : 1 <= k
      BY <1>1
    <3>2. Min(S) = 1
      BY <1>1, <2>1, <3>1, LeastIs
    <3>3. QED
      BY <2>1, <3>2
  <2>2. CASE 1 \notin S /\ 2 \in S
    <3>1. \A k \in S : 2 <= k
      BY <1>1, <2>2
    <3>2. Min(S) = 2
      BY <1>1, <2>2, <3>1, LeastIs
    <3>3. QED
      BY <2>2, <3>2
  <2>3. CASE 1 \notin S /\ 2 \notin S
    <3>1. 3 \in S /\ \A k \in S : 3 <= k
      BY <1>1, <1>2, <2>3
    <3>2. Min(S) = 3
      BY <1>1, <3>1, LeastIs
    <3>3. QED
      BY <2>3, <3>2
  <2>4. QED
    BY <2>1, <2>2, <2>3
<1>4. Max(S) = IF 3 \in S THEN 3 ELSE IF 2 \in S THEN 2 ELSE 1
  <2>1. CASE 3 \in S
    <3>1. \A k \in S : 3 >= k
      BY <1>1
    <3>2. Max(S) = 3
      BY <1>1, <2>1, <3>1, GreatestIs
    <3>3. QED
      BY <2>1, <3>2
  <2>2. CASE 3 \notin S /\ 2 \in S
    <3>1. \A k \in S : 2 >= k
      BY <1>1, <2>2
    <3>2. Max(S) = 2
      BY <1>1, <2>2, <3>1, GreatestIs
    <3>3. QED
      BY <2>2, <3>2
  <2>3. CASE 3 \notin S /\ 2 \notin S
    <3>1. 1 \in S /\ \A k \in S : 1 >= k
      BY <1>1, <1>2, <2>3
    <3>2. Max(S) = 1
      BY <1>1, <3>1, GreatestIs
    <3>3. QED
      BY <2>3, <3>2
  <2>4. QED
    BY <2>1, <2>2, <2>3
<1>5. QED
  BY <1>3, <1>4

LEMMA SmallestOfThree ==
  ASSUME NEW S \in SUBSET (1..3), S # {}
  PROVE  Min(S) \in S /\ \A k \in S : Min(S) <= k
<1>1. \A k \in S : k = 1 \/ k = 2 \/ k = 3
  OBVIOUS
<1>2. Min(S) = IF 1 \in S THEN 1 ELSE IF 2 \in S THEN 2 ELSE 3
  BY EndsOfThree
<1>3. 1 \in S \/ 2 \in S \/ 3 \in S
  BY <1>1
<1>4. Min(S) \in S
  BY <1>2, <1>3
<1>5. ASSUME NEW k \in S PROVE Min(S) <= k
  BY <1>1, <1>2, <1>5
<1>6. QED
  BY <1>4, <1>5

LEMMA FirstOfTwo ==
  ASSUME NEW a, NEW b
  PROVE  FirstGiven(<<a, b>>) = IF Given(a) THEN a ELSE b
<1> DEFINE S == {i \in 1..2 : Given(<<a, b>>[i])}
<1>1. S \in SUBSET (1..3) /\ (1 \in S <=> Given(a)) /\ (2 \in S <=> Given(b))
      /\ 3 \notin S
  OBVIOUS
<1>2. SelectInSeq(<<a, b>>, Given) = IF S # {} THEN Min(S) ELSE 0
  BY DEF SelectInSeq
<1> HIDE DEF S
<1>3. SelectInSeq(<<a, b>>, Given) = IF Given(a) THEN 1 ELSE IF Given(b) THEN 2 ELSE 0
  BY <1>1, <1>2, EndsOfThree DEF Given
<1>4. QED
  BY <1>3 DEF FirstGiven, Given

LEMMA FirstOfThree ==
  ASSUME NEW a, NEW b, NEW c
  PROVE  FirstGiven(<<a, b, c>>) = IF Given(a) THEN a ELSE IF Given(b) THEN b ELSE c
<1> DEFINE S == {i \in 1..3 : Given(<<a, b, c>>[i])}
<1>1. S \in SUBSET (1..3) /\ (1 \in S <=> Given(a)) /\ (2 \in S <=> Given(b))
      /\ (3 \in S <=> Given(c))
  OBVIOUS
<1>2. SelectInSeq(<<a, b, c>>, Given) = IF S # {} THEN Min(S) ELSE 0
  BY DEF SelectInSeq
<1> HIDE DEF S
<1>3. SelectInSeq(<<a, b, c>>, Given) =
        IF Given(a) THEN 1 ELSE IF Given(b) THEN 2 ELSE IF Given(c) THEN 3 ELSE 0
  BY <1>1, <1>2, EndsOfThree DEF Given
<1>4. QED
  BY <1>3 DEF FirstGiven, Given
-----------------------------------------------------------------------------
(* parse_hms_to_seconds of three fields: its fold is a function of the     *)
(* sets of positions, of which there is one.                               *)
Shift(total, n) == (total * 60 + n) % Width

IsFold(iter, seq) ==
  iter = [s \in SUBSET (1..3) |->
    IF s = {} THEN 0 ELSE Shift(iter[s \ {Max(s)}], seq[Max(s)])]

LEMMA FoldExists ==
  ASSUME NEW seq
  PROVE  \E iter : IsFold(iter, seq)
<1> DEFINE one(s) == IF 1 \in s THEN Shift(0, seq[1]) ELSE 0
           two(s) == IF 2 \in s THEN Shift(one(s), seq[2]) ELSE one(s)
           all(s) == IF 3 \in s THEN Shift(two(s), seq[3]) ELSE two(s)
           iter == [s \in SUBSET (1..3) |-> all(s)]
           next == [s \in SUBSET (1..3) |->
             IF s = {} THEN 0 ELSE Shift(iter[s \ {Max(s)}], seq[Max(s)])]
<1>1. ASSUME NEW s \in SUBSET (1..3)
      PROVE  iter[s] = next[s]
  <2>1. CASE s = {}
    BY <2>1
  <2>2. CASE 3 \in s
    <3>1. Max(s) = 3 /\ s \ {3} \in SUBSET (1..3) /\ iter[s \ {3}] = two(s)
      BY <2>2, EndsOfThree
    <3>2. QED
      BY <2>2, <3>1
  <2>3. CASE 3 \notin s /\ 2 \in s
    <3>1. Max(s) = 2 /\ s \ {2} \in SUBSET (1..3) /\ iter[s \ {2}] = one(s)
      BY <2>3, EndsOfThree
    <3>2. QED
      BY <2>3, <3>1
  <2>4. CASE s # {} /\ 3 \notin s /\ 2 \notin s
    <3>1. \A k \in s : k = 1
      BY <2>4
    <3>2. 1 \in s /\ s \ {1} = {}
      BY <2>4, <3>1
    <3>3. Max(s) = 1 /\ iter[{}] = 0
      BY <2>4, EndsOfThree
    <3>4. QED
      BY <2>4, <3>2, <3>3
  <2>5. QED
    BY <2>1, <2>2, <2>3, <2>4
<1>2. iter = next
  BY <1>1
<1>3. IsFold(iter, seq)
  BY <1>2 DEF IsFold
<1>4. QED
  BY <1>3

LEMMA HmsOfThree ==
  ASSUME NEW f, f = <<f[1], f[2], f[3]>>, f \notin {Garbage, Unset}
  PROVE  HmsToSeconds(f) = Shift(Shift(Shift(0, f[1]), f[2]), f[3])
<1> DEFINE iter == CHOOSE iter : IsFold(iter, f)
<1>1. Len(f) = 3 /\ DOMAIN f = 1..3
  OBVIOUS
<1>2. HmsToSeconds(f) = FoldLeft(LAMBDA total, n : (total * 60 + n) % Width, 0, f)
  <2>1. ~(f \in {Garbage, Unset} \/ Len(f) \notin 1..3)
    BY <1>1
  <2>2. QED
    BY <2>1, Zenon DEF HmsToSeconds
<1>3. FoldLeft(LAMBDA total, n : (total * 60 + n) % Width, 0, f) = iter[1..3]
  BY <1>1 DEF FoldLeft, MapThenFoldSet, IsFold, Shift
<1>4. IsFold(iter, f)
  BY FoldExists
<1> HIDE DEF iter
<1>5. \A s \in SUBSET (1..3) :
        iter[s] = IF s = {} THEN 0 ELSE Shift(iter[s \ {Max(s)}], f[Max(s)])
  BY <1>4 DEF IsFold
<1>6. ASSUME NEW s \in SUBSET (1..3), NEW k, s # {}, Max(s) = k
      PROVE  iter[s] = Shift(iter[s \ {k}], f[k])
  BY <1>5, <1>6
<1>7. /\ iter[{}] = 0
      /\ iter[{1}] = Shift(iter[{}], f[1])
      /\ iter[1..2] = Shift(iter[{1}], f[2])
      /\ iter[1..3] = Shift(iter[1..2], f[3])
  <2>1. {} \in SUBSET (1..3)
    OBVIOUS
  <2>2. iter[{}] = 0
    BY <1>5, <2>1, Zenon
  <2>3. iter[{1}] = Shift(iter[{}], f[1])
    <3>1. {1} \in SUBSET (1..3) /\ {1} # {} /\ {1} \ {1} = {}
      OBVIOUS
    <3>2. Max({1}) = 1
      BY <3>1, EndsOfThree
    <3>3. QED
      BY <1>6, <3>1, <3>2
  <2>4. iter[1..2] = Shift(iter[{1}], f[2])
    <3>1. 1..2 \in SUBSET (1..3) /\ 1..2 # {} /\ (1..2) \ {2} = {1}
      OBVIOUS
    <3>2. 2 \in 1..2 /\ 3 \notin 1..2
      OBVIOUS
    <3>3. Max(1..2) = 2
      BY <3>1, <3>2, EndsOfThree
    <3>4. QED
      BY <1>6, <3>1, <3>3
  <2>5. iter[1..3] = Shift(iter[1..2], f[3])
    <3>1. 1..3 \in SUBSET (1..3) /\ 1..3 # {} /\ (1..3) \ {3} = 1..2
      OBVIOUS
    <3>2. 3 \in 1..3
      OBVIOUS
    <3>3. Max(1..3) = 3
      BY <3>1, <3>2, EndsOfThree
    <3>4. QED
      BY <1>6, <3>1, <3>3
  <2>6. QED
    BY <2>2, <2>3, <2>4, <2>5
<1>8. QED
  BY <1>2, <1>3, <1>7
-----------------------------------------------------------------------------
(* What fits in a u64 does not wrap, and comes back from the text it is    *)
(* carried in.                                                             *)
LEMMA Fits ==
  ASSUME NEW n \in Nat, n < Width
  PROVE  n % Width = n
  BY WidthAssumption

LEMMA ClockAddsUp ==
  ASSUME NEW x \in Nat, x < Width
  PROVE  Given(Hms(x)) /\ HmsToSeconds(Hms(x)) = x
<1> DEFINE h == x \div 3600
           m == (x % 3600) \div 60
           s == x % 60
<1>1. /\ h \in Nat /\ m \in Nat /\ s \in Nat
      /\ (h * 60 + m) * 60 + s = x
      /\ h <= h * 60 + m /\ h * 60 + m <= x
  OBVIOUS
<1>2. Hms(x) = <<h, m, s>>
  BY DEF Hms
<1> HIDE DEF h, m, s
<1>3. Hms(x) \in Seq(Nat) /\ Hms(x) = <<Hms(x)[1], Hms(x)[2], Hms(x)[3]>>
  BY <1>1, <1>2
<1>4. Hms(x) \notin {Garbage, Unset}
  BY <1>3, UnsetAssumption
<1>5. HmsToSeconds(Hms(x)) = Shift(Shift(Shift(0, h), m), s)
  BY <1>2, <1>3, <1>4, HmsOfThree
<1>6. Shift(0, h) = h /\ Shift(h, m) = h * 60 + m
  <2>1. /\ 0 * 60 + h = h /\ h < Width
        /\ h * 60 + m \in Nat /\ h * 60 + m < Width
    BY <1>1, WidthAssumption
  <2>2. QED
    BY <1>1, <2>1, Fits DEF Shift
<1>7. Shift(h * 60 + m, s) = x
  BY <1>1, Fits DEF Shift
<1>8. Given(Hms(x))
  BY <1>4 DEF Given
<1>9. QED
  BY <1>5, <1>6, <1>7, <1>8

(* A time as Slurm writes it.                                              *)
SlurmTime(limit) ==
  /\ limit # Garbage
  /\ limit.fields \in Seq(Nat) /\ limit.days \in Nat \union {Unset}
  /\ Len(limit.fields) \in 1..3

LEMMA SecondsOf ==
  ASSUME NEW d \in Nat, NEW h \in Nat, NEW m \in Nat, NEW s \in Nat
  PROVE  /\ ((d * 24 + h) * 60 + m) * 60 + s = d * 86400 + h * 3600 + m * 60 + s
         /\ d * 86400 + h * 3600 + m * 60 + s \in Nat
  OBVIOUS

(* What the concatenation k of two lists of numbers is.                    *)
IsJoin(k, g, h) ==
  /\ k \in Seq(Nat) /\ Len(k) = Len(g) + Len(h)
  /\ \A i \in DOMAIN g : k[i] = g[i]
  /\ \A i \in DOMAIN h : k[Len(g) + i] = h[i]

LEMMA Joined ==
  ASSUME NEW g \in Seq(Nat), NEW h \in Seq(Nat)
  PROVE  IsJoin(g \o h, g, h)
<1>1. g \o h \in Seq(Nat) /\ Len(g \o h) = Len(g) + Len(h)
  OBVIOUS
<1>2. ASSUME NEW i \in DOMAIN g PROVE (g \o h)[i] = g[i]
  OBVIOUS
<1>3. ASSUME NEW i \in DOMAIN h PROVE (g \o h)[Len(g) + i] = h[i]
  OBVIOUS
<1>4. QED
  BY <1>1, <1>2, <1>3, Zenon DEF IsJoin

LEMMA Framed ==
  ASSUME NEW f \in Seq(Nat), Len(f) = 1
  PROVE  /\ (<<0>> \o f \o <<0>>)[1] = 0 /\ (<<0>> \o f \o <<0>>)[2] = f[1]
         /\ (<<0>> \o f \o <<0>>)[3] = 0
<1> DEFINE zero == <<0>>
           g == zero \o f
           h == g \o zero
<1>1. zero \in Seq(Nat) /\ Len(zero) = 1 /\ zero[1] = 0
  OBVIOUS
<1> HIDE DEF zero
<1>2. IsJoin(g, zero, f)
  BY <1>1, Joined, Zenon
<1> HIDE DEF g
<1>3. g \in Seq(Nat) /\ Len(g) = 2 /\ g[1] = 0 /\ g[2] = f[1]
  BY <1>1, <1>2 DEF IsJoin
<1>4. IsJoin(h, g, zero)
  BY <1>1, <1>3, Joined, Zenon
<1> HIDE DEF h
<1>5. h[1] = 0 /\ h[2] = f[1] /\ h[3] = 0
  BY <1>1, <1>3, <1>4 DEF IsJoin
<1>6. QED
  BY <1>5 DEF h, g, zero

LEMMA LimitIsParsed ==
  ASSUME NEW limit, SlurmTime(limit), SlurmSeconds(limit) < Width
  PROVE  /\ SlurmSeconds(limit) \in Nat
         /\ ParseSlurmTime(limit) = SlurmSeconds(limit)
<1> DEFINE f == limit.fields
           days == IF Given(limit.days) THEN limit.days ELSE 0
           total == days * 86400 + Fields(limit)[1] * 3600
                      + Fields(limit)[2] * 60 + Fields(limit)[3]
<1>1. f \in Seq(Nat) /\ Len(f) \in {1, 2, 3} /\ days \in Nat
  BY DEF SlurmTime, Given
<1>2. \A i \in 1..Len(f) : f[i] \in Nat
  BY <1>1
<1>3. SlurmSeconds(limit) = total /\ total \in Nat
  <2>0. ASSUME NEW h \in Nat, NEW m \in Nat, NEW s \in Nat,
               Fields(limit) = <<h, m, s>>,
               SlurmSeconds(limit) = ((days * 24 + h) * 60 + m) * 60 + s
        PROVE  SlurmSeconds(limit) = total /\ total \in Nat
    <3>1. total = days * 86400 + h * 3600 + m * 60 + s
      BY <2>0
    <3> HIDE DEF days, total
    <3>2. QED
      BY <1>1, <2>0, <3>1, SecondsOf
  <2>1. CASE Given(limit.days) /\ Len(f) = 1
    <3>1. Fields(limit) = <<f[1], 0, 0>> /\ f[1] \in Nat
      BY <1>2, <2>1 DEF Fields
    <3>2. (f \o <<0, 0>>)[1] = f[1] /\ (f \o <<0, 0>>)[2] = 0 /\ (f \o <<0, 0>>)[3] = 0
      BY <1>1, <2>1
    <3>3. SlurmSeconds(limit) = ((days * 24 + f[1]) * 60 + 0) * 60 + 0
      BY <2>1, <3>2 DEF SlurmSeconds
    <3> HIDE DEF days, total
    <3>4. QED
      BY <2>0, <3>1, <3>3
  <2>2. CASE Given(limit.days) /\ Len(f) = 2
    <3>1. Fields(limit) = <<f[1], f[2], 0>> /\ f[1] \in Nat /\ f[2] \in Nat
      BY <1>2, <2>2 DEF Fields
    <3>2. (f \o <<0, 0>>)[1] = f[1] /\ (f \o <<0, 0>>)[2] = f[2] /\ (f \o <<0, 0>>)[3] = 0
      BY <1>1, <2>2
    <3>3. SlurmSeconds(limit) = ((days * 24 + f[1]) * 60 + f[2]) * 60 + 0
      BY <2>2, <3>2 DEF SlurmSeconds
    <3> HIDE DEF days, total
    <3>4. QED
      BY <2>0, <3>1, <3>3
  <2>3. CASE Given(limit.days) /\ Len(f) = 3
    <3>1. /\ Fields(limit) = <<f[1], f[2], f[3]>>
          /\ f[1] \in Nat /\ f[2] \in Nat /\ f[3] \in Nat
      BY <1>1, <1>2, <2>3 DEF Fields
    <3>2. \A i \in 1..3 : (f \o <<0, 0>>)[i] = f[i]
      BY <1>1, <2>3
    <3>3. SlurmSeconds(limit) = ((days * 24 + f[1]) * 60 + f[2]) * 60 + f[3]
      BY <2>3, <3>2 DEF SlurmSeconds
    <3> HIDE DEF days, total
    <3>4. QED
      BY <2>0, <3>1, <3>3
  <2>4. CASE ~Given(limit.days) /\ Len(f) = 1
    <3>1. Fields(limit) = <<0, f[1], 0>> /\ f[1] \in Nat
      BY <1>2, <2>4 DEF Fields
    <3>2. /\ (<<0>> \o f \o <<0>>)[1] = 0 /\ (<<0>> \o f \o <<0>>)[2] = f[1]
          /\ (<<0>> \o f \o <<0>>)[3] = 0
      BY <1>1, <2>4, Framed
    <3>3. SlurmSeconds(limit) = ((days * 24 + 0) * 60 + f[1]) * 60 + 0
      BY <2>4, <3>2 DEF SlurmSeconds
    <3> HIDE DEF days, total
    <3>4. QED
      BY <2>0, <3>1, <3>3
  <2>5. CASE ~Given(limit.days) /\ Len(f) = 2
    <3>1. Fields(limit) = <<0, f[1], f[2]>> /\ f[1] \in Nat /\ f[2] \in Nat
      BY <1>2, <2>5 DEF Fields
    <3>2. /\ (<<0>> \o f)[1] = 0 /\ (<<0>> \o f)[2] = f[1] /\ (<<0>> \o f)[3] = f[2]
      BY <1>1, <2>5
    <3>3. SlurmSeconds(limit) = ((days * 24 + 0) * 60 + f[1]) * 60 + f[2]
      BY <2>5, <3>2 DEF SlurmSeconds
    <3> HIDE DEF days, total
    <3>4. QED
      BY <2>0, <3>1, <3>3
  <2>6. CASE ~Given(limit.days) /\ Len(f) = 3
    <3>1. /\ Fields(limit) = <<f[1], f[2], f[3]>>
          /\ f[1] \in Nat /\ f[2] \in Nat /\ f[3] \in Nat
      BY <1>1, <1>2, <2>6 DEF Fields
    <3>2. SlurmSeconds(limit) = ((days * 24 + f[1]) * 60 + f[2]) * 60 + f[3]
      BY <2>6 DEF SlurmSeconds
    <3> HIDE DEF days, total
    <3>3. QED
      BY <2>0, <3>1, <3>2
  <2>7. QED
    BY <1>1, <2>1, <2>2, <2>3, <2>4, <2>5, <2>6
<1>4. ParseSlurmTime(limit) = total % Width
  BY <1>1 DEF ParseSlurmTime, SlurmTime
<1>5. total % Width = total
  BY <1>3, Fits
<1>6. QED
  BY <1>3, <1>4, <1>5
-----------------------------------------------------------------------------
(* From the start to the end the arguments are those given, or what the    *)
(* two resolutions made of them.                                           *)
ResolvedTime == FirstGiven(<<PbsWalltime(start.args, env), SlurmWalltime(env)>>)

ResolvedJob == FirstGiven(<<start.args.job, SlurmJobId(env)>>)
Untouched ==
  {"outfile", "interval", "gpuInterval", "treePid", "cgroup", "procsFrom"}

ArgsInv ==
  /\ start \in Starts /\ DOMAIN args = Options
  /\ args.mode \in {"check", "manifest", "merge", "log"}
  /\ \A o \in Untouched : args[o] = start.args[o]
  /\ args.walltime = IF phase = "parsed" THEN start.args.walltime ELSE ResolvedTime
  /\ args.job = IF phase = "parsed" THEN start.args.job ELSE ResolvedJob

LEMMA ArgsInitially == Init => ArgsInv
  BY StartsAssumption DEF Init, ArgsInv

LEMMA Resolution ==
  ASSUME DOMAIN args = Options,
         NEW resolved, resolved = ResolveSlurmDefaults(ResolvePbsDefaults(args, env), env)
  PROVE  /\ DOMAIN resolved = Options /\ resolved.mode = args.mode
         /\ \A o \in Untouched : resolved[o] = args[o]
         /\ resolved.walltime =
              FirstGiven(<<PbsWalltime(args, env), SlurmWalltime(env)>>)
         /\ resolved.job = FirstGiven(<<args.job, SlurmJobId(env)>>)
<1> DEFINE pbs == ResolvePbsDefaults(args, env)
<1>1. /\ DOMAIN pbs = Options /\ pbs.mode = args.mode
      /\ pbs.walltime = PbsWalltime(args, env) /\ pbs.job = args.job
      /\ \A o \in Untouched : pbs[o] = args[o]
  BY DEF ResolvePbsDefaults, Options, Untouched
<1> HIDE DEF pbs
<1>2. /\ DOMAIN ResolveSlurmDefaults(pbs, env) = Options
      /\ ResolveSlurmDefaults(pbs, env).mode = pbs.mode
      /\ ResolveSlurmDefaults(pbs, env).walltime
           = FirstGiven(<<pbs.walltime, SlurmWalltime(env)>>)
      /\ ResolveSlurmDefaults(pbs, env).job = FirstGiven(<<pbs.job, SlurmJobId(env)>>)
      /\ \A o \in Untouched : ResolveSlurmDefaults(pbs, env)[o] = pbs[o]
  BY <1>1 DEF ResolveSlurmDefaults, Options, Untouched
<1>3. resolved = ResolveSlurmDefaults(pbs, env)
  BY DEF pbs
<1>4. QED
  BY <1>1, <1>2, <1>3

LEMMA ArgsKept == ArgsInv /\ [Next]_vars => ArgsInv'
<1> SUFFICES ASSUME ArgsInv, [Next]_vars PROVE ArgsInv'
  OBVIOUS
<1> USE DEF ArgsInv, ResolvedTime, ResolvedJob, Untouched, env, Reached
<1>1. CASE Resolve
  <2>1. /\ start' = start /\ phase = "parsed" /\ phase' = "resolved"
        /\ args' = ResolveSlurmDefaults(ResolvePbsDefaults(args, env), env)
    BY <1>1 DEF Resolve
  <2>2. PbsWalltime(args, env) = PbsWalltime(start.args, env)
    BY <2>1 DEF PbsWalltime
  <2>3. QED
    BY <2>1, <2>2, Resolution
<1>2. CASE Submit
  <2>1. args' = [start.args EXCEPT !.mode = "log"] /\ phase' = "parsed" /\ start' = start
    BY <1>2 DEF Submit
  <2>2. QED
    BY <2>1, StartsAssumption DEF Options
<1>3. ASSUME UNCHANGED <<start, args>>, phase' # "parsed", phase # "parsed"
      PROVE  ArgsInv'
  BY <1>3
<1>4. CASE UNCHANGED vars
  BY <1>4 DEF vars
<1>5. ASSUME NEW p \in Processes, Exits(p)
      PROVE  ArgsInv'
  BY <1>5 DEF Exits
<1>6. CASE Refuse \/ Dispatch
  BY <1>3, <1>6 DEF Refuse, Dispatch
<1>7. CASE Preflight \/ OpenOutput \/ FindCgroup \/ Measure \/ ChooseProcs \/ Book
  BY <1>3, <1>7 DEF Preflight, OpenOutput, FindCgroup, Measure, ChooseProcs, Book
<1>8. QED
  BY <1>1, <1>2, <1>4, <1>5, <1>6, <1>7 DEF Next, Main, Terminated

(* A Slurm limit reaches the booking to the second, for any limit below    *)
(* 2^64 seconds and any other variables: the three forms of a limit come   *)
(* out in seconds, and the text they are written to says the same.         *)
THEOREM LimitIsBooked == Spec => []SlurmLimitIsBooked
<1>1. ArgsInv => SlurmLimitIsBooked
  <2> DEFINE limit == Get(env, "SLURM_TIMELIMIT")
  <2>1. SUFFICES ASSUME ArgsInv, phase = "running", limit \notin {Unset, Garbage},
                        ~Given(start.args.walltime),
                        {"PBS_WALLTIME", "PBS_RESOURCE_walltime"} \cap DOMAIN env = {},
                        Len(limit.fields) \in 1..3, SlurmSeconds(limit) < Width
                 PROVE  HmsToSeconds(args.walltime) = SlurmSeconds(limit)
    BY Zenon DEF SlurmLimitIsBooked
  <2>2. SlurmTime(limit)
    BY <2>1, StartsAssumption, LimitsAssumption DEF ArgsInv, SlurmTime, env
  <2> DEFINE seconds == SlurmSeconds(limit)
  <2>3. seconds \in Nat /\ ParseSlurmTime(limit) = seconds
    BY <2>1, <2>2, LimitIsParsed
  <2>4. ~Given(PbsWalltime(start.args, env))
    <3>1. /\ Get(env, "PBS_WALLTIME") = Unset
          /\ Get(env, "PBS_RESOURCE_walltime") = Unset
      BY <2>1 DEF Get
    <3>2. ~Given(Numeric(env, "PBS_WALLTIME"))
      BY <3>1 DEF Numeric, Given
    <3>3. QED
      BY <2>1, <3>1, <3>2, FirstOfThree DEF PbsWalltime, Given
  <2>5. SlurmWalltime(env) = Hms(seconds)
    <3>1. Given(limit) /\ Given(seconds)
      BY <2>1, <2>3, UnsetAssumption DEF Given
    <3> HIDE DEF limit, seconds
    <3>2. \A other : FirstGiven(<<seconds, other>>) = seconds
      BY <3>1, FirstOfTwo
    <3>3. QED
      BY <2>3, <3>1, <3>2 DEF SlurmWalltime, limit
  <2>6. args.walltime = Hms(seconds)
    BY <2>1, <2>4, <2>5, FirstOfTwo DEF ArgsInv, ResolvedTime
  <2>7. QED
    BY <2>1, <2>3, <2>6, ClockAddsUp
<1>2. QED
  BY ArgsInitially, ArgsKept, <1>1, PTL DEF Spec
-----------------------------------------------------------------------------
(* rank_candidates: there is an order, and what it puts first is in no     *)
(* later bucket.                                                           *)
LEMMA RepresentativeIsPath ==
  ASSUME NEW file \in CgroupFile
  PROVE  RepresentativeRelPath(file) \in Paths
<1> DEFINE options == <<file.v1["cpuacct"], file.v1["cpu"], file.v2>>
           I == {i \in 1..Len(options) : Known(options[i])}
<1>1. /\ Len(options) = 3
      /\ \A i \in 1..3 : options[i] \in Paths \union {NoPath}
      /\ Root \in Paths
  BY DEF CgroupFile, Controllers, Paths, Root
<1>2. I \in SUBSET (1..3) /\ \A i \in I : options[i] \in Paths
  BY <1>1 DEF Known
<1>3. I # {} => Min(I) \in I /\ Min(I) # 0
  BY <1>2, EndsOfThree
<1>4. SelectInSeq(options, Known) = IF I # {} THEN Min(I) ELSE 0
  BY DEF SelectInSeq
<1>5. RepresentativeRelPath(file) =
        LET i == SelectInSeq(options, Known) IN IF i = 0 THEN Root ELSE options[i]
  BY DEF RepresentativeRelPath, FirstOf
<1> HIDE DEF I, options
<1>6. QED
  BY <1>1, <1>2, <1>3, <1>4, <1>5

PathOf(files, i) == RepresentativeRelPath(files[i])
Goes(files, job, i, j) ==
  \/ Bucket(PathOf(files, i), job) < Bucket(PathOf(files, j), job)
  \/ /\ Bucket(PathOf(files, i), job) = Bucket(PathOf(files, j), job)
     /\ \/ Len(PathOf(files, i)) > Len(PathOf(files, j))
        \/ Len(PathOf(files, i)) = Len(PathOf(files, j)) /\ i < j

InOrder(ranked, files, job) ==
  /\ ranked \in [DOMAIN files -> DOMAIN files]
  /\ \A i, j \in DOMAIN files : i < j => Goes(files, job, ranked[i], ranked[j])

(* /proc/self and the process of --tree-pid are all there is to rank.      *)
AtMostTwo(files) ==
  /\ DOMAIN files \in {{}, {1}, {1, 2}}
  /\ \A i \in DOMAIN files : files[i] \in CgroupFile

LEMMA BucketIs ==
  ASSUME NEW path, NEW job
  PROVE  /\ Bucket(path, job) \in {0, 1, 2}
         /\ Bucket(path, job) = 2 <=> path = Root
  BY DEF Bucket

LEMMA Ranked ==
  ASSUME NEW files, AtMostTwo(files), NEW job
  PROVE  InOrder(RankCandidates(files, job), files, job)
<1>1. \A i \in DOMAIN files :
        /\ Bucket(PathOf(files, i), job) \in {0, 1, 2}
        /\ Len(PathOf(files, i)) \in Nat
  BY BucketIs, RepresentativeIsPath DEF AtMostTwo, PathOf, Paths
<1>2. \E ranked : InOrder(ranked, files, job)
  <2>1. CASE DOMAIN files \in {{}, {1}}
    <3>1. InOrder([i \in DOMAIN files |-> i], files, job)
      BY <2>1 DEF InOrder
    <3>2. QED
      BY <3>1
  <2>2. CASE DOMAIN files = {1, 2} /\ Goes(files, job, 1, 2)
    <3>1. InOrder([i \in DOMAIN files |-> i], files, job)
      BY <2>2 DEF InOrder
    <3>2. QED
      BY <3>1
  <2>3. CASE DOMAIN files = {1, 2} /\ ~Goes(files, job, 1, 2)
    <3>1. Goes(files, job, 2, 1)
      BY <1>1, <2>3 DEF Goes
    <3>2. InOrder([i \in DOMAIN files |-> 3 - i], files, job)
      BY <2>3, <3>1 DEF InOrder
    <3>3. QED
      BY <3>2
  <2>4. QED
    BY <2>1, <2>2, <2>3 DEF AtMostTwo
<1>3. RankCandidates(files, job) = CHOOSE ranked : InOrder(ranked, files, job)
  BY DEF RankCandidates, InOrder, Goes, PathOf
<1>4. QED
  BY <1>2, <1>3

(* Cgroup::discover takes the first candidate in that order that leads     *)
(* anywhere.                                                               *)
LEMMA DiscoverTakes ==
  ASSUME NEW hosted, NEW files, AtMostTwo(files), NEW job,
         Discover(hosted, files, job) # NoCgroup
  PROVE  \E i \in DOMAIN files :
           /\ Discover(hosted, files, job) = FromCgroupFile(hosted, files[i], job)
           /\ \A j \in DOMAIN files :
                FromCgroupFile(hosted, files[j], job) # NoCgroup =>
                  Bucket(PathOf(files, i), job) <= Bucket(PathOf(files, j), job)
<1> DEFINE ranked == RankCandidates(files, job)
           lead(i) == FromCgroupFile(hosted, files[i], job)
           led == [i \in DOMAIN ranked |-> lead(ranked[i])]
           I == {i \in 1..Len(led) : led[i] # NoCgroup}
<1>1. InOrder(ranked, files, job)
  BY Ranked
<1> HIDE DEF ranked, lead
<1>2. /\ ranked \in [DOMAIN files -> DOMAIN files] /\ DOMAIN led = DOMAIN files
      /\ \A i \in DOMAIN files : led[i] = lead(ranked[i])
  BY <1>1 DEF InOrder
<1>3. PICK n \in {0, 1, 2} : DOMAIN files = 1..n
  BY DEF AtMostTwo
<1>4. Len(led) = n
  BY <1>2, <1>3
<1>5. I \in SUBSET (1..3) /\ I \subseteq DOMAIN files
  BY <1>3, <1>4
<1>6. Discover(hosted, files, job) =
        LET i == IF I # {} THEN Min(I) ELSE 0 IN IF i = 0 THEN NoCgroup ELSE led[i]
  BY DEF Discover, FirstOf, SelectInSeq, ranked, lead
<1> HIDE DEF led
<1>7. I # {}
  BY <1>6
<1>8. Min(I) \in I /\ \A i \in I : Min(I) <= i
  BY <1>5, <1>7, SmallestOfThree
<1> DEFINE first == Min(I)
<1> HIDE DEF I, first
<1>9. first \in DOMAIN files /\ Discover(hosted, files, job) = led[first]
  BY <1>3, <1>5, <1>6, <1>7, <1>8 DEF first
<1>10. \A i \in DOMAIN files : Bucket(PathOf(files, i), job) \in {0, 1, 2}
  BY BucketIs
<1>11. ASSUME NEW j \in DOMAIN files, lead(j) # NoCgroup
       PROVE  Bucket(PathOf(files, ranked[first]), job) <= Bucket(PathOf(files, j), job)
  <2>1. PICK k \in DOMAIN files : ranked[k] = j
    <3>1. \A x \in DOMAIN files : ~Goes(files, job, x, x)
      BY <1>3, <1>10, RepresentativeIsPath DEF Goes, AtMostTwo, PathOf, Paths
    <3>2. \A x, y \in DOMAIN files : x < y => ranked[x] # ranked[y]
      BY <1>1, <1>2, <3>1 DEF InOrder
    <3>3. QED
      BY <1>2, <1>3, <3>2
  <2>2. k \in I
    BY <1>2, <1>3, <1>4, <1>11, <2>1 DEF I
  <2>3. first <= k
    BY <1>8, <2>2 DEF first
  <2>4. CASE first = k
    BY <1>10, <2>1, <2>4
  <2>5. CASE first < k
    BY <1>1, <1>2, <1>9, <1>10, <2>1, <2>5 DEF InOrder, Goes
  <2>6. QED
    BY <1>3, <1>9, <2>3, <2>4, <2>5
<1>12. ranked[first] \in DOMAIN files /\ led[first] = lead(ranked[first])
  BY <1>2, <1>9
<1>13. QED
  BY <1>9, <1>11, <1>12 DEF lead

LEMMA DiscoverFinds ==
  ASSUME NEW hosted, NEW files, AtMostTwo(files), NEW job, NEW j \in DOMAIN files,
         FromCgroupFile(hosted, files[j], job) # NoCgroup
  PROVE  Discover(hosted, files, job) # NoCgroup
<1> DEFINE ranked == RankCandidates(files, job)
           lead(i) == FromCgroupFile(hosted, files[i], job)
           led == [i \in DOMAIN ranked |-> lead(ranked[i])]
           I == {i \in 1..Len(led) : led[i] # NoCgroup}
<1>1. InOrder(ranked, files, job)
  BY Ranked
<1> HIDE DEF ranked, lead
<1>2. /\ ranked \in [DOMAIN files -> DOMAIN files] /\ DOMAIN led = DOMAIN files
      /\ \A i \in DOMAIN files : led[i] = lead(ranked[i])
  BY <1>1 DEF InOrder
<1>3. PICK n \in {0, 1, 2} : DOMAIN files = 1..n
  BY DEF AtMostTwo
<1>4. Len(led) = n
  BY <1>2, <1>3
<1>5. I \in SUBSET (1..3)
  BY <1>4
<1>6. PICK k \in DOMAIN files : ranked[k] = j
  <2>1. \A i \in DOMAIN files :
          /\ Bucket(PathOf(files, i), job) \in {0, 1, 2}
          /\ Len(PathOf(files, i)) \in Nat
    BY BucketIs, RepresentativeIsPath DEF AtMostTwo, PathOf, Paths
  <2>2. \A x \in DOMAIN files : ~Goes(files, job, x, x)
    BY <1>3, <2>1 DEF Goes
  <2>3. \A x, y \in DOMAIN files : x < y => ranked[x] # ranked[y]
    BY <1>1, <1>2, <2>2 DEF InOrder
  <2>4. QED
    BY <1>2, <1>3, <2>3
<1>7. k \in I
  BY <1>2, <1>3, <1>4, <1>6 DEF lead
<1>8. Min(I) \in I /\ Min(I) # 0
  <2> HIDE DEF I
  <2>1. QED
    BY <1>5, <1>7, SmallestOfThree
<1>9. Discover(hosted, files, job) =
        LET i == IF I # {} THEN Min(I) ELSE 0 IN IF i = 0 THEN NoCgroup ELSE led[i]
  BY DEF Discover, FirstOf, SelectInSeq, ranked, lead
<1>10. led[Min(I)] # NoCgroup
  BY <1>8
<1> HIDE DEF led, I
<1>11. QED
  BY <1>7, <1>8, <1>9, <1>10
-----------------------------------------------------------------------------
(* What was discovered is what the candidates of that moment give; they    *)
(* are in seen, and nothing it depends on changes after that.              *)
FilesOf(candidates) == [i \in DOMAIN candidates |-> File(candidates[i])]

Starting == {"parsed", "resolved", "check", "checked", "log", "opened"}

FoundInv ==
  /\ live \subseteq Processes /\ Logger \in live
  /\ phase \in Starting => cg = NoCgroup
  /\ phase \in {"located", "measured", "chosen", "running"} => cg # NoCgroup
  /\ (cg # NoCgroup /\ ~Given(args.cgroup)) =>
       \E alive \in SUBSET Processes :
         /\ Logger \in alive /\ seen = ToSet(CandidatesOf(alive))
         /\ cg = Discover(host, FilesOf(CandidatesOf(alive)), GetJobId)

LEMMA CandidatesAre ==
  ASSUME ArgsInv, NEW alive \in SUBSET Processes
  PROVE  /\ ToSet(CandidatesOf(alive)) \subseteq Processes
         /\ AtMostTwo(FilesOf(CandidatesOf(alive)))
<1> DEFINE candidates == CandidatesOf(alive)
<1>1. \A list \in Seq(Processes) : <<>> \o list = list /\ list \o <<>> = list
  BY ConcatEmptySeq
<1>2. /\ DOMAIN candidates \in {{}, {1}, {1, 2}}
      /\ \A i \in DOMAIN candidates : candidates[i] \in {Logger, TreeRoot}
  <2>1. <<>> \in Seq(Processes) /\ <<Logger>> \in Seq(Processes)
        /\ <<TreeRoot>> \in Seq(Processes)
    BY DEF Processes
  <2>2. CASE Logger \in alive /\ TreeRoot \in alive
    <3>1. candidates = <<Logger>> \o <<TreeRoot>>
      BY <2>2 DEF CandidatesOf
    <3>2. /\ DOMAIN (<<Logger>> \o <<TreeRoot>>) = 1..2
          /\ (<<Logger>> \o <<TreeRoot>>)[1] = Logger
          /\ (<<Logger>> \o <<TreeRoot>>)[2] = TreeRoot
      OBVIOUS
    <3>3. QED
      BY <3>1, <3>2
  <2>3. CASE ~(Logger \in alive /\ TreeRoot \in alive)
    <3>1. candidates \in {<<>>, <<Logger>>, <<TreeRoot>>}
      BY <1>1, <2>1, <2>3 DEF CandidatesOf
    <3>2. QED
      BY <3>1
  <2>4. QED
    BY <2>2, <2>3
<1> HIDE DEF candidates
<1>3. \A p \in Processes : File(p) \in CgroupFile
  BY FilesAssumption, StartsAssumption DEF ArgsInv, File
<1>4. {Logger, TreeRoot} \subseteq Processes
  BY DEF Processes
<1>5. QED
  BY <1>2, <1>3, <1>4 DEF AtMostTwo, FilesOf, ToSet, candidates

LEMMA FoundInitially == Init => FoundInv
  BY DEF Init, FoundInv, Processes, Starting

LEMMA FoundKept == ArgsInv /\ FoundInv /\ [Next]_vars => FoundInv'
<1> SUFFICES ASSUME ArgsInv, FoundInv, [Next]_vars PROVE FoundInv'
  OBVIOUS
<1>1. ASSUME UNCHANGED <<start, args, cg, seen>>, live' \subseteq live,
             Logger \in live', phase' \in Starting => phase \in Starting,
             phase' \in {"located", "measured", "chosen", "running"} =>
               phase \in {"located", "measured", "chosen", "running"}
      PROVE  FoundInv'
  BY <1>1 DEF FoundInv, host, FilesOf, File, GetJobId
<1>2. ASSUME UNCHANGED <<live, cg, seen>>, phase \in Starting,
             phase' \in Starting \union {"failed", "manifest", "merge"}
      PROVE  FoundInv'
  BY <1>2 DEF FoundInv, Starting
<1>3. CASE Resolve \/ Submit
  BY <1>2, <1>3 DEF Resolve, Submit, Starting, found, Reached
<1>4. CASE FindCgroup
  <2> DEFINE candidates == CandidatesOf(live)
  <2>1. /\ UNCHANGED <<start, live, args>> /\ seen' = ToSet(candidates)
        /\ phase' \in {"failed", "located"}
        /\ cg' = IF Given(args.cgroup) THEN FromExplicitPath(host, args.cgroup)
                 ELSE Discover(host, FilesOf(candidates), GetJobId)
    BY <1>4 DEF FindCgroup, FilesOf, Reached
  <2>2. live \in SUBSET Processes
    BY DEF FoundInv
  <2>3. cg' = NoCgroup <=> phase' # "located"
    BY <1>4 DEF FindCgroup, Reached
  <2>4. QED
    BY <2>1, <2>2, <2>3 DEF FoundInv, host, FilesOf, File, GetJobId, Starting
<1>5. CASE Refuse \/ Dispatch \/ Preflight \/ OpenOutput
  BY <1>2, <1>5 DEF Refuse, Dispatch, Preflight, OpenOutput, ArgsInv, Starting, found,
     Reached
<1>6. CASE Measure \/ ChooseProcs \/ Book
  BY <1>1, <1>6 DEF Measure, ChooseProcs, Book, Reached, FoundInv, Starting
<1>7. ASSUME NEW p \in Processes, Exits(p)
      PROVE  FoundInv'
  BY <1>1, <1>7 DEF Exits, found, FoundInv
<1>8. CASE UNCHANGED vars
  BY <1>1, <1>8 DEF vars, found, FoundInv
<1>9. QED
  BY <1>3, <1>4, <1>5, <1>6, <1>7, <1>8 DEF Next, Main, Terminated

(* The whole node is taken only when no file that was read leads to        *)
(* anything smaller, for any files and any placement of the processes:     *)
(* what ranks last is the root, and what is taken ranks no later than      *)
(* anything else that leads somewhere.                                     *)
THEOREM RootIsLast == Spec => []RootOnlyAsLastResort
<1>1. ArgsInv /\ FoundInv => RootOnlyAsLastResort
  <2> DEFINE Leads(p) == FromCgroupFile(host, File(p), GetJobId)
             Path(p) == RepresentativeRelPath(File(p))
             Agrees(p) == Leads(p) # NoCgroup => (IsRoot(Leads(p)) <=> Path(p) = Root)
  <2>1. SUFFICES ASSUME ArgsInv, FoundInv, cg # NoCgroup, ~Given(args.cgroup),
                        IsRoot(cg), \A p \in seen : Agrees(p),
                        NEW p \in seen, Leads(p) # NoCgroup
                 PROVE  IsRoot(Leads(p))
    BY DEF RootOnlyAsLastResort, Discovered
  <2>2. PICK alive \in SUBSET Processes :
          /\ seen = ToSet(CandidatesOf(alive))
          /\ cg = Discover(host, FilesOf(CandidatesOf(alive)), GetJobId)
    BY <2>1 DEF FoundInv
  <2> DEFINE candidates == CandidatesOf(alive)
             files == FilesOf(candidates)
  <2>3. AtMostTwo(files)
    BY <2>1, CandidatesAre
  <2>4. /\ DOMAIN files = DOMAIN candidates
        /\ \A i \in DOMAIN files : files[i] = File(candidates[i])
        /\ seen = {candidates[i] : i \in DOMAIN files}
    BY <2>2 DEF FilesOf, ToSet
  <2> HIDE DEF files, candidates
  <2>5. cg = Discover(host, files, GetJobId)
    BY <2>2 DEF files, candidates
  <2>6. PICK i \in DOMAIN files :
          /\ cg = FromCgroupFile(host, files[i], GetJobId)
          /\ \A j \in DOMAIN files :
               FromCgroupFile(host, files[j], GetJobId) # NoCgroup =>
                 Bucket(PathOf(files, i), GetJobId) <= Bucket(PathOf(files, j), GetJobId)
    BY <2>1, <2>3, <2>5, DiscoverTakes
  <2>7. PICK j \in DOMAIN files : p = candidates[j]
    BY <2>1, <2>4
  <2>8. /\ candidates[i] \in seen /\ cg = Leads(candidates[i])
        /\ Path(candidates[i]) = PathOf(files, i) /\ Path(p) = PathOf(files, j)
        /\ Leads(p) = FromCgroupFile(host, files[j], GetJobId)
    BY <2>4, <2>6, <2>7 DEF PathOf
  <2> HIDE DEF Leads, Path
  <2>9. Path(candidates[i]) = Root
    BY <2>1, <2>8
  <2>10. Bucket(PathOf(files, i), GetJobId) = 2
    BY <2>8, <2>9, BucketIs
  <2>11. Bucket(PathOf(files, j), GetJobId) = 2
    <3>1. 2 <= Bucket(PathOf(files, j), GetJobId)
      BY <2>1, <2>6, <2>8, <2>10
    <3>2. QED
      BY <3>1, BucketIs
  <2>12. Path(p) = Root
    BY <2>8, <2>11, BucketIs
  <2>13. QED
    BY <2>1, <2>12
<1>2. QED
  BY ArgsInitially, ArgsKept, FoundInitially, FoundKept, <1>1, PTL DEF Spec
-----------------------------------------------------------------------------
(* Names.  What is below a directory that names a job names it too, and so *)
(* does the job's directory above one that does.                           *)
LEMMA NamedBelow ==
  ASSUME NEW above \in Paths, NEW path \in Paths, NEW job,
         Within(path, above), NamesJob(above, job)
  PROVE  NamesJob(path, job)
<1>1. PICK i \in DOMAIN above : above[i] \in NamedIn[job]
  BY DEF NamesJob
<1>2. /\ Len(above) \in Nat /\ Len(path) \in Nat /\ Len(above) <= Len(path)
      /\ SubSeq(above, 1, Len(above)) = SubSeq(path, 1, Len(above))
      /\ i \in 1..Len(above)
  BY DEF Within, IsPrefix, Paths
<1>3. /\ SubSeq(above, 1, Len(above))[i] = above[i]
      /\ SubSeq(path, 1, Len(above))[i] = path[i]
  BY <1>2 DEF Paths
<1>4. i \in DOMAIN path /\ path[i] = above[i]
  BY <1>2, <1>3 DEF Paths
<1>5. QED
  BY <1>1, <1>4 DEF NamesJob

LEMMA JobRoot ==
  ASSUME NEW rel \in Paths, NEW job \in Jobs
  PROVE  /\ SlurmJobRootRel(rel, job) \in Paths
         /\ rel = Root => SlurmJobRootRel(rel, job) = Root
         /\ NamesJob(rel, job) => NamesJob(SlurmJobRootRel(rel, job), job)
<1> DEFINE I == {i \in 1..Len(rel) : job \in Numbered /\ rel[i] = JobDir[job]}
           first == Min(I)
<1>1. SlurmJobRootRel(rel, job) =
        LET i == IF I # {} THEN first ELSE 0
        IN  IF i = 0 THEN rel ELSE SubSeq(rel, 1, i)
  BY DEF SlurmJobRootRel, SelectInSeq
<1>2. CASE I = {}
  BY <1>1, <1>2
<1>3. CASE I # {}
  <2>1. I \in SUBSET Nat /\ I \in SUBSET Int
    OBVIOUS
  <2>2. first \in I
    <3> HIDE DEF I
    <3>1. PICK m \in I : \A k \in I : m <= k
      BY <1>3, <2>1, LeastNumber
    <3>2. QED
      BY <2>1, <3>1, LeastIs
  <2> HIDE DEF first
  <2>3. /\ first \in 1..Len(rel) /\ rel[first] = JobDir[job]
        /\ SlurmJobRootRel(rel, job) = SubSeq(rel, 1, first)
    <3>1. first \in 1..Len(rel) /\ rel[first] = JobDir[job]
      BY <2>2
    <3> HIDE DEF I
    <3>2. QED
      BY <1>1, <1>3, <3>1
  <2> HIDE DEF I
  <2>4. /\ SubSeq(rel, 1, first) \in Paths /\ first \in DOMAIN SubSeq(rel, 1, first)
        /\ SubSeq(rel, 1, first)[first] = rel[first]
    BY <2>3 DEF Paths
  <2>5. NamesJob(SubSeq(rel, 1, first), job)
    BY <2>3, <2>4, JobsAssumption DEF NamesJob
  <2>6. rel # Root
    BY <2>3 DEF Root
  <2>7. QED
    BY <2>3, <2>4, <2>5, <2>6
<1>4. QED
  BY <1>2, <1>3

LEMMA JudgedByFirst ==
  ASSUME NEW file \in CgroupFile, Known(file.v1["cpuacct"])
  PROVE  RepresentativeRelPath(file) = file.v1["cpuacct"]
<1> DEFINE options == <<file.v1["cpuacct"], file.v1["cpu"], file.v2>>
           I == {i \in 1..Len(options) : Known(options[i])}
<1>1. I \in SUBSET (1..3) /\ 1 \in I
  OBVIOUS
<1>2. Min(I) = 1
  <2> HIDE DEF I
  <2>1. QED
    BY <1>1, EndsOfThree
<1>3. SelectInSeq(options, Known) = IF I # {} THEN Min(I) ELSE 0
  BY DEF SelectInSeq
<1>4. RepresentativeRelPath(file) =
        LET i == SelectInSeq(options, Known) IN IF i = 0 THEN Root ELSE options[i]
  BY DEF RepresentativeRelPath, FirstOf
<1>5. SelectInSeq(options, Known) = 1
  BY <1>1, <1>2, <1>3
<1>6. QED
  BY <1>4, <1>5

(* Whatever is read in a cgroup that a file naming the job leads to is in  *)
(* a directory that names it.                                              *)
Agreeing(file, job) ==
  /\ NamesJob(RepresentativeRelPath(file), job)
  /\ file.v2 \in {NoPath, Root} \/ NamesJob(file.v2, job)

LEMMA ReadWhereNamed ==
  ASSUME NEW hosted, NEW file \in CgroupFile, NEW job \in Jobs, NEW cgroup,
         cgroup = FromCgroupFile(hosted, file, job), cgroup # NoCgroup,
         ~IsRoot(cgroup), Agreeing(file, job)
  PROVE  \A reading \in {"cpu", "memory", "io"} :
           Known(cgroup[reading]) \/ reading = "cpu" =>
             cgroup[reading] \in Paths /\ NamesJob(cgroup[reading], job)
<1> DEFINE own == file.v1["cpuacct"]
<1>1. /\ \A c \in Controllers : file.v1[c] \in Paths \union {NoPath}
      /\ file.v2 \in Paths \union {NoPath}
      /\ {"cpuacct", "memory", "blkio"} \subseteq Controllers
  BY DEF CgroupFile, Controllers
<1>2. CASE DiscoverV1(hosted, file) # NoCgroup
  <2>1. Known(own) /\ cgroup = DiscoverV1(hosted, file)
    BY <1>2 DEF FromCgroupFile, DiscoverV1
  <2>2. cgroup.cpu = own /\ own \in Paths /\ NamesJob(own, job)
    BY <1>1, <1>2, <2>1, JudgedByFirst DEF DiscoverV1, Agreeing, Known
  <2>3. ASSUME NEW reading \in {"memory", "io"}, Known(cgroup[reading])
        PROVE  cgroup[reading] \in Paths /\ Within(cgroup[reading], own)
    BY <1>1, <1>2, <2>1, <2>3 DEF DiscoverV1, ControllerIsJobScoped, Known
  <2>4. QED
    BY <2>1, <2>2, <2>3, NamedBelow
<1>3. CASE DiscoverV1(hosted, file) = NoCgroup
  <2> DEFINE jobDir == SlurmJobRootRel(file.v2, job)
  <2>1. Known(file.v2) /\ cgroup = DiscoverV2(hosted, file.v2, job)
    BY <1>3 DEF FromCgroupFile
  <2>2. /\ cgroup.rel = jobDir /\ cgroup.cpu = jobDir
        /\ cgroup.memory \in {jobDir, NoPath} /\ cgroup.io \in {jobDir, NoPath}
    BY <2>1 DEF DiscoverV2
  <2>3. file.v2 \in Paths /\ file.v2 # Root
    BY <1>1, <2>1, <2>2, JobRoot DEF Known, IsRoot
  <2>4. NamesJob(file.v2, job)
    BY <2>1, <2>3 DEF Agreeing, Known
  <2>5. jobDir \in Paths /\ NamesJob(jobDir, job)
    BY <2>3, <2>4, JobRoot
  <2> HIDE DEF jobDir
  <2>6. ASSUME NEW reading \in {"cpu", "memory", "io"},
               Known(cgroup[reading]) \/ reading = "cpu"
        PROVE  cgroup[reading] = jobDir
    BY <2>2, <2>6 DEF Known
  <2>7. QED
    BY <2>5, <2>6
<1>4. QED
  BY <1>2, <1>3

LEMMA JobIsOne ==
  ASSUME ArgsInv
  PROVE  GetJobId \in Jobs
<1>1. /\ start.args.job \in Jobs \union {Unset}
      /\ SlurmJobId(env) \in Jobs \union {Unset}
  BY StartsAssumption, JobIdsAssumption DEF ArgsInv, env
<1>2. args.job \in Jobs \union {Unset}
  BY <1>1, FirstOfTwo DEF ArgsInv, ResolvedJob
<1>3. QED
  BY <1>2, UnknownAssumption DEF GetJobId, Given

(* Where names tell, what is taken is what a file leads to whose name is   *)
(* the job's.                                                              *)
LEMMA TakenByName ==
  ASSUME ArgsInv, FoundInv, Discovered, NamesTell, NamedIsFollowed
  PROVE  /\ GetJobId \in Jobs
         /\ \E p \in Processes :
              cg = FromCgroupFile(host, File(p), GetJobId) /\ NamesInFull(p)
<1>1. GetJobId \in Jobs
  BY JobIsOne
<1> DEFINE j == GetJobId
           Leads(p) == FromCgroupFile(host, File(p), j)
           Path(p) == RepresentativeRelPath(File(p))
<1>2. PICK alive \in SUBSET Processes :
        /\ seen = ToSet(CandidatesOf(alive))
        /\ cg = Discover(host, FilesOf(CandidatesOf(alive)), j)
  BY DEF FoundInv, Discovered
<1> DEFINE candidates == CandidatesOf(alive)
           files == FilesOf(candidates)
<1>3. AtMostTwo(files) /\ ToSet(candidates) \subseteq Processes
  BY CandidatesAre
<1>4. /\ DOMAIN files = DOMAIN candidates
      /\ \A i \in DOMAIN files : files[i] = File(candidates[i])
      /\ seen = {candidates[i] : i \in DOMAIN files} /\ seen \subseteq Processes
  BY <1>2, <1>3 DEF FilesOf, ToSet
<1>5. cg = Discover(host, files, j) /\ cg # NoCgroup
  BY <1>2 DEF Discovered
<1> HIDE DEF files, candidates
<1>6. PICK i \in DOMAIN files :
        /\ cg = FromCgroupFile(host, files[i], j)
        /\ \A k \in DOMAIN files :
             FromCgroupFile(host, files[k], j) # NoCgroup =>
               Bucket(PathOf(files, i), j) <= Bucket(PathOf(files, k), j)
  BY <1>3, <1>5, DiscoverTakes
<1>7. PICK p \in seen : NamesInFull(p)
  BY DEF NamesTell
<1>8. PICK k \in DOMAIN files : p = candidates[k]
  BY <1>4, <1>7
<1>9. /\ candidates[i] \in Processes /\ p \in Processes
      /\ cg = Leads(candidates[i]) /\ PathOf(files, i) = Path(candidates[i])
      /\ FromCgroupFile(host, files[k], j) = Leads(p) /\ PathOf(files, k) = Path(p)
  BY <1>4, <1>6, <1>8 DEF PathOf
<1>10. NamesJob(Path(p), j)
  BY <1>7 DEF NamesInFull
<1>11. Leads(p) # NoCgroup
  BY <1>1, <1>5, <1>9, <1>10
     DEF NamedIsFollowed, LeadsAt, JudgedBy, ArgsInv, host, File
<1> HIDE DEF j, Leads, Path
<1>12. Bucket(Path(p), j) = 0
  BY <1>10 DEF Bucket, NamesJob, Root
<1>13. Bucket(Path(candidates[i]), j) = 0
  BY <1>6, <1>9, <1>11, <1>12, BucketIs
<1>14. NamesJob(Path(candidates[i]), j)
  BY <1>13 DEF Bucket
<1>15. NamesInFull(candidates[i])
  BY <1>14 DEF NamesInFull, Path, j
<1>16. QED
  BY <1>1, <1>9, <1>15 DEF Leads, j

(* No directory that is read covers a process of another job, for any      *)
(* processes anywhere on a node where names tell, and where they do so     *)
(* throughout: what is read names the job, as would what is below it.      *)
THEOREM NeighboursAreLeftOut ==
  ASSUME NamedIsFollowed, NamedThroughout
  PROVE  Spec => []NoNeighbourMeasured
<1>1. ArgsInv /\ FoundInv => NoNeighbourMeasured
  <2>1. SUFFICES ASSUME ArgsInv, FoundInv, Discovered, NamesTell, ~IsRoot(cg),
                        NEW p \in Processes, start.owner[p] \in Jobs \ {GetJobId}
                 PROVE  /\ \A reading \in {"cpu", "memory", "io"} :
                             LET place == PlaceIn(reading, p)
                             IN  Known(cg[reading]) /\ Known(place) =>
                                   ~Within(place, cg[reading])
                        /\ p \notin Procs(cg, Filed)
    BY DEF NoNeighbourMeasured
  <2>2. PICK c \in Processes :
          cg = FromCgroupFile(host, File(c), GetJobId) /\ NamesInFull(c)
    BY <2>1, TakenByName
  <2>3. GetJobId \in Jobs /\ cg # NoCgroup
    BY <2>1, TakenByName DEF Discovered
  <2>4. \A q \in Processes : File(q) \in CgroupFile
    BY <2>1, FilesAssumption, StartsAssumption DEF ArgsInv, File
  <2>5. Agreeing(File(c), GetJobId)
    BY <2>1, <2>2, <2>3
       DEF NamesInFull, NamedThroughout, JudgedBy, Agreeing, ArgsInv, File
  <2>6. \A reading \in {"cpu", "memory", "io"} :
          Known(cg[reading]) \/ reading = "cpu" =>
            cg[reading] \in Paths /\ NamesJob(cg[reading], GetJobId)
    BY <2>1, <2>2, <2>3, <2>4, <2>5, ReadWhereNamed
  <2>7. ASSUME NEW path \in Paths, Known(path), NamesJob(path, GetJobId),
               path \in {File(p).v2} \union {File(p).v1[k] : k \in Controllers}
        PROVE  FALSE
    <3>1. NamesJob(RepresentativeRelPath(File(p)), GetJobId)
      BY <2>1, <2>3, <2>7 DEF NamedThroughout, JudgedBy, ArgsInv, File
    <3>2. QED
      BY <2>1, <3>1 DEF NamesTell, NamesInFull
  <2>8. File(p).v2 \in Paths \union {NoPath}
        /\ \A k \in Controllers : File(p).v1[k] \in Paths \union {NoPath}
    BY <2>4 DEF CgroupFile
  <2>9. ASSUME NEW reading \in {"cpu", "memory", "io"}, Known(cg[reading]),
               Known(PlaceIn(reading, p)), Within(PlaceIn(reading, p), cg[reading])
        PROVE  FALSE
    <3>1. PlaceIn(reading, p) \in {File(p).v2} \union {File(p).v1[k] : k \in Controllers}
      BY DEF PlaceIn, Controllers
    <3>2. PlaceIn(reading, p) \in Paths
      BY <2>8, <2>9, <3>1 DEF Known
    <3>3. NamesJob(PlaceIn(reading, p), GetJobId)
      BY <2>6, <2>9, <3>2, NamedBelow
    <3>4. QED
      BY <2>7, <2>9, <3>1, <3>2, <3>3
  <2>10. ASSUME p \in Procs(cg, Filed)
         PROVE  FALSE
    <3> DEFINE place == IF cg.version = V1 THEN File(p).v1["cpuacct"] ELSE File(p).v2
    <3>1. Known(place) /\ Within(place, cg.cpu)
      BY <2>10 DEF Procs, ListedFrom, Filed
    <3>2. place \in {File(p).v2} \union {File(p).v1[k] : k \in Controllers}
      BY DEF Controllers
    <3>3. place \in Paths
      BY <2>8, <3>1, <3>2 DEF Known
    <3> HIDE DEF place
    <3>4. NamesJob(place, GetJobId)
      BY <2>6, <3>1, <3>3, NamedBelow
    <3>5. QED
      BY <2>7, <3>1, <3>2, <3>3, <3>4
  <2>11. QED
    BY <2>9, <2>10
<1>2. QED
  BY ArgsInitially, ArgsKept, FoundInitially, FoundKept, <1>1, PTL DEF Spec
-----------------------------------------------------------------------------
(* What was measured when the logger started is what the cgroup it took    *)
(* has to show.                                                            *)
MeasuredInv ==
  phase \in {"measured", "chosen", "running"} =>
    /\ opts = [collectIo |-> ~ReadIo(host, cg), collectSwap |-> ~ReadMemory(cg)]
    /\ TreeRoot \in live => cpus = AllowedCpus(host, cg, File(TreeRoot))

LEMMA MeasuredInitially == Init => MeasuredInv
  BY DEF Init, MeasuredInv

LEMMA MeasuredKept == ArgsInv /\ MeasuredInv /\ [Next]_vars => MeasuredInv'
<1> SUFFICES ASSUME ArgsInv, MeasuredInv, [Next]_vars PROVE MeasuredInv'
  OBVIOUS
<1>1. ASSUME UNCHANGED <<start, cg, cpus, opts>>, live' \subseteq live,
             phase' \in {"measured", "chosen", "running"} =>
               phase \in {"measured", "chosen", "running"}
      PROVE  MeasuredInv'
  BY <1>1 DEF MeasuredInv, host, File
<1>2. CASE Measure
  BY <1>2 DEF Measure, MeasuredInv, host, File
<1>3. CASE ChooseProcs \/ Book
  BY <1>1, <1>3 DEF ChooseProcs, Book, Reached
<1>4. CASE Resolve \/ Refuse \/ Dispatch \/ Preflight \/ OpenOutput \/ FindCgroup \/ Submit
  BY <1>4 DEF Resolve, Refuse, Dispatch, Preflight, OpenOutput, FindCgroup, Submit,
     Reached, MeasuredInv, ArgsInv
<1>5. ASSUME NEW p \in Processes, Exits(p)
      PROVE  MeasuredInv'
  BY <1>1, <1>5 DEF Exits, found
<1>6. CASE UNCHANGED vars
  BY <1>1, <1>6 DEF vars, found
<1>7. QED
  BY <1>2, <1>3, <1>4, <1>5, <1>6 DEF Next, Main, Terminated

LEMMA FirstThatHasAny ==
  ASSUME NEW own, own # {}, NEW a \in {own, {}}, NEW b \in {own, {}}, NEW otherwise
  PROVE  FirstOf(<<a, b, own>>, LAMBDA x : x # {}, otherwise) = own
<1> DEFINE options == <<a, b, own>>
           I == {i \in 1..Len(options) : options[i] # {}}
<1>1. /\ Len(options) = 3
      /\ \A i \in 1..3 : options[i] \in {own, {}}
      /\ options[3] = own
  OBVIOUS
<1>2. I \in SUBSET (1..3) /\ 3 \in I /\ \A i \in I : options[i] = own
  BY <1>1
<1>3. FirstOf(options, LAMBDA x : x # {}, otherwise) =
        LET i == IF I # {} THEN Min(I) ELSE 0
        IN  IF i = 0 THEN otherwise ELSE options[i]
  BY DEF FirstOf, SelectInSeq
<1> HIDE DEF options, I
<1>4. Min(I) \in I /\ Min(I) # 0
  BY <1>2, SmallestOfThree
<1>5. FirstOf(options, LAMBDA x : x # {}, otherwise) = own
  BY <1>2, <1>3, <1>4
<1>6. QED
  BY <1>5 DEF options

(* The CPUs are the job's, wherever the logger itself was started and      *)
(* whichever of the four places they are read from, on a node that holds   *)
(* the processes of a job to the same ones.                                *)
THEOREM CpusAreThoseOfTheJob ==
  ASSUME NamedIsFollowed, HeldAlike
  PROVE  Spec => []CpusAreTheJobs
<1>1. ArgsInv /\ FoundInv /\ MeasuredInv => CpusAreTheJobs
  <2> DEFINE own == AffinityOf(host, File(TreeRoot))
  <2>1. SUFFICES ASSUME ArgsInv, FoundInv, Discovered, NamesTell,
                        cpus = AllowedCpus(host, cg, File(TreeRoot)),
                        start.owner[TreeRoot] = GetJobId
                 PROVE  cpus = own
    BY DEF CpusAreTheJobs, MeasuredInv
  <2>2. PICK c \in Processes :
          cg = FromCgroupFile(host, File(c), GetJobId) /\ NamesInFull(c)
    BY <2>1, TakenByName
  <2>3. GetJobId \in Jobs /\ cg # NoCgroup /\ start.owner[c] = GetJobId
    BY <2>1, <2>2, TakenByName DEF Discovered, NamesTell
  <2>4. TreeRoot \in Processes
    BY DEF Processes
  <2>5. /\ AffinityOf(host, File(c)) # {} /\ AffinityOf(host, File(c)) = own
        /\ Known(cg.cpuset) => host.cpus[cg.cpuset] = own
    <3>1. start \in Starts
      BY <2>1 DEF ArgsInv
    <3> DEFINE job == GetJobId
               led == LeadsAt(start, c, job)
               hers(p) == AffinityOf(Hosts[start.host], Files[start.filed[p]])
    <3>2. start.owner[c] = job /\ start.owner[TreeRoot] = job /\ job \in Jobs
      BY <2>1, <2>3
    <3>3. cg = led /\ cg # NoCgroup
      BY <2>2, <2>3 DEF LeadsAt, host, File
    <3> HIDE DEF job, led
    <3>4. /\ hers(c) # {} /\ hers(c) = hers(TreeRoot)
          /\ led # NoCgroup /\ Known(led.cpuset) =>
               Hosts[start.host].cpus[led.cpuset] = hers(c)
      BY <2>4, <3>1, <3>2, Zenon DEF HeldAlike, led
    <3>5. QED
      BY <3>3, <3>4 DEF host, File
  <2>6. File(TreeRoot) # NoPath
    BY <2>1, <2>4, FilesAssumption, StartsAssumption, NoPathAssumption DEF ArgsInv, File
  <2>7. CpusetOf(host, File(TreeRoot)) \in {own, {}}
    BY DEF CpusetOf, AffinityOf
  <2> DEFINE a == IF Known(cg.cpuset) THEN host.cpus[cg.cpuset] ELSE {}
             b == CpusetOf(host, File(TreeRoot))
  <2>8. AllowedCpus(host, cg, File(TreeRoot)) =
          FirstOf(<<a, b, own>>, LAMBDA x : x # {}, Cpus)
    BY <2>6 DEF AllowedCpus
  <2>9. a \in {own, {}}
    BY <2>5
  <2> HIDE DEF own, a, b
  <2>10. FirstOf(<<a, b, own>>, LAMBDA x : x # {}, Cpus) = own
    BY <2>5, <2>7, <2>9, FirstThatHasAny DEF b
  <2>11. QED
    BY <2>1, <2>8, <2>10
<1>2. QED
  BY ArgsInitially, ArgsKept, FoundInitially, FoundKept, MeasuredInitially,
     MeasuredKept, <1>1, PTL DEF Spec
-----------------------------------------------------------------------------
(* The preflight.  What it said holds of the file of the logger, and       *)
(* nothing that happens before the run is over changes that.               *)
Ready == verdict \in {"everything", "warned"}
JobFound == IF Given(ResolvedJob) THEN ResolvedJob ELSE "unknown"
OwnCgroup == FromCgroupFile(host, File(Logger), JobFound)

Promised ==
  /\ Ready =>
       /\ OwnCgroup # NoCgroup /\ ~IsRoot(OwnCgroup) /\ ReadCpuUsage(host, OwnCgroup)
       /\ Given(start.args.outfile) => dir # "barred"
  /\ verdict = "everything" =>
       /\ Given(FirstGiven(<<Get(env, "PBS_JOBID"), Get(env, "SLURM_JOB_ID")>>))
       /\ WalltimeKnown /\ OwnCgroup.version = V1
       /\ ReadMemory(OwnCgroup) /\ ReadIo(host, OwnCgroup)

FailsForWant ==
  Ready /\ start.args.cgroup = Unset /\ phase = "failed" /\ SamplingArgsValid =>
    args.procsFrom = "cgroup" /\ cg # NoCgroup /\ Logger \notin Procs(cg, Filed)

CheckInv ==
  /\ verdict # "none" /\ phase # "checked" => args.mode = "log"
  /\ Promised /\ FailsForWant

LEMMA CheckInitially == Init => CheckInv
  BY DEF Init, CheckInv, Promised, FailsForWant, Ready

LEMMA LoggerIsCandidate ==
  ASSUME NEW alive \in SUBSET Processes, Logger \in alive
  PROVE  \E i \in DOMAIN CandidatesOf(alive) : CandidatesOf(alive)[i] = Logger
<1>1. CASE TreeRoot \in alive
  <2>1. CandidatesOf(alive) = <<Logger>> \o <<TreeRoot>>
    BY <1>1 DEF CandidatesOf
  <2>2. 1 \in DOMAIN (<<Logger>> \o <<TreeRoot>>) /\ (<<Logger>> \o <<TreeRoot>>)[1] = Logger
    OBVIOUS
  <2>3. QED
    BY <2>1, <2>2
<1>2. CASE TreeRoot \notin alive
  <2>1. CandidatesOf(alive) = <<Logger>> \o <<>>
    BY <1>2 DEF CandidatesOf
  <2>2. 1 \in DOMAIN (<<Logger>> \o <<>>) /\ (<<Logger>> \o <<>>)[1] = Logger
    OBVIOUS
  <2>3. QED
    BY <2>1, <2>2
<1>3. QED
  BY <1>1, <1>2

LEMMA CheckedIsOwn ==
  ASSUME ArgsInv, Checked # NoCgroup, phase # "parsed"
  PROVE  Checked = OwnCgroup /\ GetJobId = JobFound
<1> DEFINE files == <<File(Logger), File(Logger)>>
<1>1. GetJobId = JobFound
  BY DEF GetJobId, JobFound, ArgsInv
<1>2. File(Logger) \in CgroupFile
  BY FilesAssumption, StartsAssumption DEF ArgsInv, File, Processes
<1>3. DOMAIN files = {1, 2} /\ \A i \in DOMAIN files : files[i] = File(Logger)
  OBVIOUS
<1>4. AtMostTwo(files)
  BY <1>2, <1>3 DEF AtMostTwo
<1>5. Checked = Discover(host, files, GetJobId)
  BY DEF Checked
<1> HIDE DEF files
<1>6. \E i \in DOMAIN files : Checked = FromCgroupFile(host, files[i], GetJobId)
  BY <1>4, <1>5, DiscoverTakes
<1>7. QED
  BY <1>1, <1>3, <1>6 DEF OwnCgroup

LEMMA OwnIsFound ==
  ASSUME ArgsInv, FoundInv, OwnCgroup # NoCgroup, phase # "parsed"
  PROVE  Discover(host, FilesOf(CandidatesOf(live)), GetJobId) # NoCgroup
<1>1. PICK i \in DOMAIN CandidatesOf(live) : CandidatesOf(live)[i] = Logger
  BY LoggerIsCandidate DEF FoundInv
<1>2. /\ i \in DOMAIN FilesOf(CandidatesOf(live))
      /\ FilesOf(CandidatesOf(live))[i] = File(Logger)
  BY <1>1 DEF FilesOf
<1>3. AtMostTwo(FilesOf(CandidatesOf(live)))
  BY CandidatesAre DEF FoundInv
<1>4. GetJobId = JobFound
  BY DEF GetJobId, JobFound, ArgsInv
<1>5. QED
  BY <1>2, <1>3, <1>4, DiscoverFinds DEF OwnCgroup

LEMMA SamplingNeedsFile ==
  SamplingArgsValid => Given(args.outfile)
  BY DEF SamplingArgsValid

LEMMA SamplingKept ==
  ASSUME args' = args
  PROVE  SamplingArgsValid' <=> SamplingArgsValid
<1>1. IntervalsValid' <=> IntervalsValid
  BY DEF IntervalsValid
<1>2. QED
  BY <1>1 DEF SamplingArgsValid, Given

LEMMA CheckKept == ArgsInv /\ FoundInv /\ CheckInv /\ [Next]_vars => CheckInv'
<1> SUFFICES ASSUME ArgsInv, FoundInv, CheckInv, [Next]_vars PROVE CheckInv'
  OBVIOUS
<1>1. ASSUME UNCHANGED <<start, dir, verdict>> PROVE Promised'
  BY <1>1 DEF CheckInv, Promised, Ready, OwnCgroup, JobFound, ResolvedJob, host, env, File,
     WalltimeKnown
<1>2. ASSUME UNCHANGED <<start, args, dir, verdict>>, phase # "checked", phase' # "failed"
      PROVE  CheckInv'
  BY <1>1, <1>2 DEF CheckInv, FailsForWant
<1>3. ASSUME UNCHANGED <<start, live, args, cg, dir, verdict>>, phase' = phase
      PROVE  CheckInv'
  BY <1>1, <1>3, SamplingKept DEF CheckInv, FailsForWant, Ready, Filed, File
<1>4. CASE Resolve
  <2>1. /\ UNCHANGED <<start, dir, verdict>> /\ phase = "parsed" /\ phase' = "resolved"
        /\ args' = ResolveSlurmDefaults(ResolvePbsDefaults(args, env), env)
    BY <1>4 DEF Resolve, Reached
  <2>2. args'.mode = args.mode
    BY <2>1, Resolution DEF ArgsInv
  <2>3. QED
    BY <1>1, <2>1, <2>2 DEF CheckInv, FailsForWant
<1>5. CASE Refuse
  <2>1. /\ UNCHANGED <<start, live, args, dir, found, verdict>>
        /\ phase = "resolved" /\ ~Valid
    BY <1>5 DEF Refuse
  <2>2. ASSUME Ready' PROVE ~SamplingArgsValid'
    <3>1. args.mode = "log"
      BY <2>1, <2>2 DEF CheckInv, Ready
    <3>2. ~SamplingArgsValid
      BY <2>1, <3>1 DEF Valid
    <3>3. QED
      BY <2>1, <3>2, SamplingKept
  <2>3. QED
    BY <1>1, <2>1, <2>2 DEF CheckInv, FailsForWant
<1>6. CASE Dispatch
  BY <1>2, <1>6 DEF Dispatch, Reached, ArgsInv
<1>7. CASE Preflight
  <2>1. /\ UNCHANGED <<start, live, args, found>> /\ phase = "check" /\ phase' = "checked"
        /\ verdict' = IF ~CheckPasses THEN "not ready"
                      ELSE IF NoWarnings THEN "everything" ELSE "warned"
        /\ dir' = IF Given(args.outfile) /\ dir = "absent" THEN "there" ELSE dir
    BY <1>7 DEF Preflight, Reached
  <2>2. args.outfile = start.args.outfile
    BY DEF ArgsInv, Untouched
  <2>3. UNCHANGED <<OwnCgroup, host, env, WalltimeKnown>>
    BY <2>1 DEF OwnCgroup, JobFound, ResolvedJob, host, env, File, WalltimeKnown
  <2>4. ASSUME Ready'
        PROVE  /\ OwnCgroup # NoCgroup /\ ~IsRoot(OwnCgroup)
               /\ ReadCpuUsage(host, OwnCgroup)
               /\ Given(start.args.outfile) => dir' # "barred"
    <3>1. CheckPasses
      BY <2>1, <2>4 DEF Ready
    <3>2. Checked = OwnCgroup
      BY <2>1, <3>1, CheckedIsOwn DEF CheckPasses
    <3>3. QED
      BY <2>1, <2>2, <3>1, <3>2 DEF CheckPasses, OutputUsable
  <2>5. ASSUME verdict' = "everything"
        PROVE  /\ Given(FirstGiven(<<Get(env, "PBS_JOBID"), Get(env, "SLURM_JOB_ID")>>))
               /\ WalltimeKnown /\ OwnCgroup.version = V1
               /\ ReadMemory(OwnCgroup) /\ ReadIo(host, OwnCgroup)
    <3>1. CheckPasses /\ NoWarnings
      BY <2>1, <2>5
    <3>2. Checked = OwnCgroup
      BY <2>1, <3>1, CheckedIsOwn DEF CheckPasses
    <3>3. QED
      BY <3>1, <3>2 DEF NoWarnings
  <2>6. Promised'
    BY <2>1, <2>3, <2>4, <2>5 DEF Promised, IsRoot, ReadCpuUsage, ReadMemory, ReadIo
  <2>7. QED
    BY <2>1, <2>6 DEF CheckInv, FailsForWant
<1>8. CASE Submit
  <2>1. /\ UNCHANGED <<start, dir, verdict>> /\ phase' = "parsed"
        /\ args' = [start.args EXCEPT !.mode = "log"]
    BY <1>8 DEF Submit, Reached
  <2>2. args'.mode = "log"
    BY <2>1, StartsAssumption DEF ArgsInv, Options
  <2>3. QED
    BY <1>1, <2>1, <2>2 DEF CheckInv, FailsForWant
<1>9. CASE OpenOutput
  <2>1. /\ UNCHANGED <<start, live, args, found, verdict>> /\ phase = "log"
        /\ IF dir = "barred" THEN phase' = "failed" /\ dir' = dir
                             ELSE phase' = "opened" /\ dir' = "there"
    BY <1>9 DEF OpenOutput, Reached
  <2>2. CASE dir = "barred"
    <3>1. ASSUME Ready' PROVE ~SamplingArgsValid'
      <4>1. Ready
        BY <2>1, <3>1 DEF Ready
      <4>2. ~Given(args.outfile)
        BY <2>2, <4>1 DEF CheckInv, Promised, ArgsInv, Untouched
      <4>3. ~SamplingArgsValid
        BY <4>2, SamplingNeedsFile
      <4>4. QED
        BY <2>1, <4>3, SamplingKept
    <3>2. QED
      BY <1>1, <2>1, <2>2, <3>1 DEF CheckInv, FailsForWant
  <2>3. CASE dir # "barred"
    <3>1. Promised'
      BY <2>1, <2>3 DEF CheckInv, Promised, Ready, OwnCgroup, JobFound, ResolvedJob, host,
         env, File, WalltimeKnown
    <3>2. QED
      BY <2>1, <2>3, <3>1 DEF CheckInv, FailsForWant
  <2>4. QED
    BY <2>2, <2>3
<1>10. CASE FindCgroup
  <2>1. /\ UNCHANGED <<start, live, args, dir, verdict>> /\ phase = "opened"
        /\ phase' = IF cg' = NoCgroup THEN "failed" ELSE "located"
        /\ cg' = IF Given(args.cgroup) THEN FromExplicitPath(host, args.cgroup)
                 ELSE Discover(host, FilesOf(CandidatesOf(live)), GetJobId)
    BY <1>10 DEF FindCgroup, FilesOf, Reached
  <2>2. ASSUME Ready', start'.args.cgroup = Unset PROVE phase' # "failed"
    <3>1. OwnCgroup # NoCgroup
      BY <2>1, <2>2 DEF CheckInv, Promised, Ready
    <3>2. ~Given(args.cgroup)
      BY <2>1, <2>2 DEF ArgsInv, Untouched, Given
    <3>3. QED
      BY <2>1, <3>1, <3>2, OwnIsFound
  <2>3. QED
    BY <1>1, <2>1, <2>2 DEF CheckInv, FailsForWant
<1>11. CASE ChooseProcs
  <2>1. /\ UNCHANGED <<start, live, args, dir, cg, verdict>> /\ phase = "measured"
        /\ LET canList == Procs(cg, Filed) # {}
           IN  /\ source' = CASE args.procsFrom = "tree" -> "process-tree"
                              [] args.procsFrom # "tree" /\ canList -> "cgroup.procs"
                              [] args.procsFrom = "auto" /\ ~canList -> "process-tree"
                              [] OTHER -> "none"
               /\ phase' = IF source' = "none" THEN "failed" ELSE "chosen"
    BY <1>11 DEF ChooseProcs, Reached
  <2>2. args.procsFrom \in {"auto", "cgroup", "tree"}
    BY StartsAssumption DEF ArgsInv, Untouched
  <2>3. phase' = "failed" => args.procsFrom = "cgroup" /\ Procs(cg, Filed) = {}
    BY <2>1, <2>2
  <2>4. cg # NoCgroup
    BY <2>1 DEF FoundInv
  <2>5. Filed' = Filed
    BY <2>1 DEF Filed, File
  <2>6. QED
    BY <1>1, <2>1, <2>3, <2>4, <2>5 DEF CheckInv, FailsForWant
<1>12. CASE Measure \/ Book
  BY <1>2, <1>12 DEF Measure, Book, Reached
<1>13. ASSUME NEW p \in Processes, Exits(p)
       PROVE  CheckInv'
  BY <1>1, <1>13 DEF Exits, CheckInv, FailsForWant, Ended
<1>14. CASE UNCHANGED vars
  BY <1>3, <1>14 DEF vars, found
<1>15. QED
  BY <1>4, <1>5, <1>6, <1>7, <1>8, <1>9, <1>10, <1>11, <1>12, <1>13, <1>14
     DEF Next, Main, Terminated

(* A time that the preflight found is one that the run finds.              *)
LEMMA ClockIsGiven ==
  ASSUME NEW x \in Nat
  PROVE  Given(Hms(x))
<1>1. x \div 3600 \in Nat /\ (x % 3600) \div 60 \in Nat /\ x % 60 \in Nat
  OBVIOUS
<1>2. Hms(x) \in Seq(Nat)
  BY <1>1 DEF Hms
<1>3. QED
  BY <1>2, UnsetAssumption DEF Given

LEMMA TimeIsFound ==
  ASSUME ArgsInv, TimesReadable, phase # "parsed", WalltimeKnown,
         Given(FirstGiven(<<Get(env, "PBS_JOBID"), Get(env, "SLURM_JOB_ID")>>))
  PROVE  Given(args.walltime) \/ host.qstat
<1> DEFINE pbs == PbsWalltime(start.args, env)
           underPbs == Given(Get(env, "PBS_JOBID"))
<1>1. args.walltime = IF Given(pbs) THEN pbs ELSE SlurmWalltime(env)
  BY FirstOfTwo DEF ArgsInv, ResolvedTime
<1>2. underPbs \/ Given(Get(env, "SLURM_JOB_ID"))
  BY FirstOfTwo
<1>3. CASE ~underPbs
  <2>1. Given(SlurmWalltime(env))
    BY <1>2, <1>3 DEF WalltimeKnown
  <2>2. QED
    BY <1>1, <2>1
<1>4. CASE underPbs
  <2>1. \/ "PBS_RESOURCE_LIST_walltime" \in DOMAIN env \/ "PBS_WALLTIME" \in DOMAIN env
        \/ "PBS_RESOURCE_walltime" \in DOMAIN env \/ host.qstat
    BY <1>4 DEF WalltimeKnown
  <2> DEFINE seconds == Numeric(env, "PBS_WALLTIME")
  <2>2. /\ "PBS_RESOURCE_LIST_walltime" \in DOMAIN env => Given(start.args.walltime)
        /\ "PBS_WALLTIME" \in DOMAIN env => seconds \in Nat
        /\ "PBS_RESOURCE_walltime" \in DOMAIN env =>
             Given(Get(env, "PBS_RESOURCE_walltime"))
    BY DEF TimesReadable, ArgsInv, env
  <2>3. seconds \in Nat => Given(seconds) /\ Given(Hms(seconds))
    BY ClockIsGiven, UnsetAssumption DEF Given
  <2>4. pbs = IF Given(start.args.walltime) THEN start.args.walltime
              ELSE IF Given(seconds) /\ Given(Hms(seconds)) THEN Hms(seconds)
              ELSE Get(env, "PBS_RESOURCE_walltime")
    <3>1. pbs = FirstGiven(<<start.args.walltime,
                             IF Given(seconds) THEN Hms(seconds) ELSE Unset,
                             Get(env, "PBS_RESOURCE_walltime")>>)
      BY DEF PbsWalltime
    <3> HIDE DEF pbs, seconds
    <3>2. Given(IF Given(seconds) THEN Hms(seconds) ELSE Unset) <=>
            Given(seconds) /\ Given(Hms(seconds))
      BY DEF Given
    <3>3. QED
      BY <3>1, <3>2, FirstOfThree
  <2> HIDE DEF pbs, seconds
  <2>5. Given(pbs) \/ host.qstat
    BY <2>1, <2>2, <2>3, <2>4
  <2>6. QED
    BY <1>1, <2>5
<1>5. QED
  BY <1>3, <1>4

(* What the check says of its own file is so of the file that is taken: it *)
(* is no later in the ranking than the logger's, which leads below the     *)
(* root.                                                                   *)
LEMMA TakenIsNoWorse ==
  ASSUME ArgsInv, FoundInv, CheckInv, Ready, phase = "running",
         start.args.cgroup = Unset
  PROVE  /\ GetJobId \in Jobs
         /\ OwnCgroup = LeadsAt(start, Logger, GetJobId) /\ Logger \in Processes
         /\ \E p \in Processes :
              /\ cg = LeadsAt(start, p, GetJobId) /\ cg # NoCgroup
              /\ Bucket(JudgedBy(start, p), GetJobId)
                   <= Bucket(JudgedBy(start, Logger), GetJobId)
<1> DEFINE j == GetJobId
<1>1. j \in Jobs /\ j = JobFound /\ Logger \in Processes
  BY JobIsOne DEF GetJobId, JobFound, ArgsInv, Processes
<1>2. OwnCgroup = LeadsAt(start, Logger, j) /\ OwnCgroup # NoCgroup
  BY <1>1 DEF OwnCgroup, LeadsAt, CheckInv, Promised, host, File
<1>3. cg # NoCgroup /\ ~Given(args.cgroup)
  BY DEF FoundInv, ArgsInv, Untouched, Given
<1>4. PICK alive \in SUBSET Processes :
        /\ Logger \in alive
        /\ seen = ToSet(CandidatesOf(alive))
        /\ cg = Discover(host, FilesOf(CandidatesOf(alive)), j)
  BY <1>3 DEF FoundInv
<1> DEFINE candidates == CandidatesOf(alive)
           files == FilesOf(candidates)
<1>5. AtMostTwo(files) /\ ToSet(candidates) \subseteq Processes
  BY CandidatesAre
<1>6. PICK k \in DOMAIN candidates : candidates[k] = Logger
  BY <1>4, LoggerIsCandidate
<1>7. /\ DOMAIN files = DOMAIN candidates
      /\ \A i \in DOMAIN files : files[i] = File(candidates[i])
      /\ \A i \in DOMAIN files : candidates[i] \in Processes
  BY <1>5 DEF FilesOf, ToSet
<1>8. cg = Discover(host, files, j)
  BY <1>4
<1> HIDE DEF files, candidates, j
<1>9. PICK i \in DOMAIN files :
        /\ cg = FromCgroupFile(host, files[i], j)
        /\ \A m \in DOMAIN files :
             FromCgroupFile(host, files[m], j) # NoCgroup =>
               Bucket(PathOf(files, i), j) <= Bucket(PathOf(files, m), j)
  BY <1>3, <1>5, <1>8, DiscoverTakes
<1>10. /\ candidates[i] \in Processes /\ cg = LeadsAt(start, candidates[i], j)
       /\ PathOf(files, i) = JudgedBy(start, candidates[i])
       /\ k \in DOMAIN files /\ FromCgroupFile(host, files[k], j) = OwnCgroup
       /\ PathOf(files, k) = JudgedBy(start, Logger)
  BY <1>1, <1>2, <1>6, <1>7, <1>9 DEF PathOf, LeadsAt, JudgedBy, host, File
<1>11. QED
  BY <1>1, <1>2, <1>3, <1>9, <1>10 DEF j

(* The preflight keeps both its words, for any files of the logger and of  *)
(* the root process, any arguments and any order in which processes end,   *)
(* on a node where what is so of one process is so of another: what it     *)
(* promises of the logger's file is inherited by the file that is taken,   *)
(* which ranks no later.                                                   *)
THEOREM CheckKeepsItsWord ==
  ASSUME LedAlike, DelegatedAlike, TimesReadable
  PROVE  Spec => []CheckIsHonest
<1>1. ArgsInv /\ FoundInv /\ MeasuredInv /\ CheckInv => CheckIsHonest
  <2> SUFFICES ASSUME ArgsInv, FoundInv, MeasuredInv, CheckInv
               PROVE  CheckIsHonest
    OBVIOUS
  <2>1. ASSUME Ready, start.args.cgroup = Unset, phase = "running"
        PROVE  ~IsRoot(cg) /\ ReadCpuUsage(host, cg)
    <3> DEFINE j == GetJobId
    <3>1. /\ j \in Jobs /\ Logger \in Processes /\ start \in Starts
          /\ OwnCgroup = LeadsAt(start, Logger, j)
      BY <2>1, TakenIsNoWorse DEF ArgsInv
    <3>2. PICK p \in Processes :
            /\ cg = LeadsAt(start, p, j) /\ cg # NoCgroup
            /\ Bucket(JudgedBy(start, p), j) <= Bucket(JudgedBy(start, Logger), j)
      BY <2>1, TakenIsNoWorse
    <3>3. /\ OwnCgroup # NoCgroup /\ ~IsRoot(OwnCgroup)
          /\ ReadCpuUsage(host, OwnCgroup)
      BY <2>1 DEF CheckInv, Promised
    <3> HIDE DEF j
    <3>4. JudgedBy(start, Logger) # Root
      BY <3>1, <3>2, <3>3 DEF LedAlike
    <3>5. JudgedBy(start, p) # Root
      <4>1. Bucket(JudgedBy(start, Logger), j) \in {0, 1}
        BY <3>4, BucketIs
      <4>2. Bucket(JudgedBy(start, p), j) # 2
        BY <3>2, <4>1
      <4>3. QED
        BY <4>2, BucketIs
    <3>6. QED
      BY <3>1, <3>2, <3>3, <3>5 DEF LedAlike, host
  <2>2. ReadyMeansItCollects
    BY <2>1 DEF ReadyMeansItCollects, Ready, CheckInv, FailsForWant
  <2>3. ASSUME verdict = "everything", start.args.cgroup = Unset, phase = "running",
               start.owner[Logger] = GetJobId
        PROVE  /\ ~opts.collectIo /\ ~opts.collectSwap /\ cg.version = V1
               /\ Given(args.walltime) \/ host.qstat
    <3> DEFINE j == GetJobId
    <3>1. /\ j \in Jobs /\ Logger \in Processes /\ start \in Starts
          /\ OwnCgroup = LeadsAt(start, Logger, j)
      BY <2>3, TakenIsNoWorse DEF ArgsInv, Ready
    <3>2. PICK p \in Processes :
            /\ cg = LeadsAt(start, p, j) /\ cg # NoCgroup
            /\ Bucket(JudgedBy(start, p), j) <= Bucket(JudgedBy(start, Logger), j)
      BY <2>3, TakenIsNoWorse DEF Ready
    <3>3. /\ OwnCgroup # NoCgroup /\ ~IsRoot(OwnCgroup)
          /\ OwnCgroup.version = V1 /\ ReadMemory(OwnCgroup) /\ ReadIo(host, OwnCgroup)
      BY <2>3 DEF CheckInv, Promised, Ready
    <3> HIDE DEF j
    <3>4. cg.version = V1 /\ ReadMemory(cg) /\ ReadIo(host, cg)
      BY <2>3, <3>1, <3>2, <3>3 DEF DelegatedAlike, host, j
    <3>5. ~opts.collectIo /\ ~opts.collectSwap
      <4> DEFINE io == ~ReadIo(host, cg)
                 swap == ~ReadMemory(cg)
      <4>1. opts = [collectIo |-> io, collectSwap |-> swap]
        BY <2>3 DEF MeasuredInv
      <4>2. io = FALSE /\ swap = FALSE
        BY <3>4
      <4> HIDE DEF io, swap
      <4>3. QED
        BY <4>1, <4>2
    <3>6. Given(args.walltime) \/ host.qstat
      BY <2>3, TimeIsFound DEF CheckInv, Promised
    <3>7. QED
      BY <3>4, <3>5, <3>6
  <2>4. EverythingMeansNoFallback
    BY <2>3 DEF EverythingMeansNoFallback
  <2>5. QED
    BY <2>2, <2>4 DEF CheckIsHonest
<1>2. QED
  BY ArgsInitially, ArgsKept, FoundInitially, FoundKept, MeasuredInitially,
     MeasuredKept, CheckInitially, CheckKept, <1>1, PTL DEF Spec
=============================================================================
