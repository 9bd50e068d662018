-------------------------- MODULE GpuSampler_proofs --------------------------
(***************************************************************************)
(* For any list of GPUs, any figures, any masks and any tools that work or *)
(* fail: the peaks of a summary belong to the GPUs its indices name, from  *)
(* one vendor's tool, a sampler that has stopped polling leaves no reading *)
(* behind, and a worker that has lost its handle polls no more.            *)
(***************************************************************************)
EXTENDS GpuSampler, Integers, FiniteSetTheorems, TLAPS

(* The positions of the visible GPUs in the listing: every reading a tool  *)
(* gives is filtered to these, whatever its figures.                       *)
Kept == {i \in DOMAIN Listing : Listing[i] \in visible}

(* A reading of the visible GPUs in which the tool asked showed every      *)
(* figure.                                                                 *)
FromTool(reading) ==
  /\ backend \in Vendors
  /\ Len(reading) = Cardinality(Kept)
  /\ \A k \in DOMAIN reading :
       /\ reading[k].gpu = Listing[Nth(Kept, k)]
       /\ reading[k].load <= shown[backend][reading[k].gpu]

Readings ==
  /\ answer = Empty \/ FromTool(answer)
  /\ latest = Empty \/ FromTool(latest)

(* The summary has nothing yet, or a peak for each visible GPU.            *)
Summary ==
  /\ Len(indices) = Len(peaks)
  /\ peaks = <<>> \/
       /\ backend \in Vendors
       /\ Len(peaks) = Cardinality(Kept)
       /\ \A k \in DOMAIN peaks :
            /\ indices[k] = Listing[Nth(Kept, k)]
            /\ peaks[k] <= shown[backend][indices[k]]

(* What disables the sampler is an empty answer, and it is stored before   *)
(* the worker looks at the flag.                                           *)
Disabled ==
  /\ available = "no" =>
       worker # "poll" /\ answer = Empty /\ (worker # "store" => latest = Empty)
  /\ worker = "gone" => ~held \/ available = "no"

Inductive == TypeOK /\ Readings /\ Summary /\ Disabled

USE ListingAssumption, LoadsAssumption

(* The k-th of some positions is one of them: the rank of a position is a  *)
(* bijection, by counting.                                                 *)
LEMMA NthIsOne ==
  ASSUME NEW n \in Nat, NEW P \in SUBSET (1..n)
  PROVE  /\ IsFiniteSet(P) /\ Cardinality(P) \in 0..n
         /\ \A k \in 1..Cardinality(P) : Nth(P, k) \in P
<1> DEFINE UpTo(i) == {j \in P : j <= i}
           rank == [i \in P |-> Cardinality(UpTo(i))]
<1>0. PICK I : I = 1..n
  OBVIOUS
<1>1. IsFiniteSet(I) /\ Cardinality(I) = n /\ P \in SUBSET I
  BY <1>0, FS_Interval
<1>2. IsFiniteSet(P) /\ Cardinality(P) \in 0..n
  <2>1. IsFiniteSet(P) /\ Cardinality(P) <= n
    BY <1>1, FS_Subset
  <2>2. Cardinality(P) \in Nat
    BY <2>1, FS_CardinalityType
  <2>3. QED
    BY <2>1, <2>2
<1>3. ASSUME NEW i \in P
      PROVE  IsFiniteSet(UpTo(i)) /\ Cardinality(UpTo(i)) \in 1..Cardinality(P)
  <2>1. UpTo(i) \subseteq P
    OBVIOUS
  <2>2. /\ IsFiniteSet(UpTo(i)) /\ Cardinality(UpTo(i)) \in Nat
        /\ Cardinality(UpTo(i)) <= Cardinality(P)
    BY <1>2, <2>1, FS_Subset, FS_CardinalityType
  <2>3. i \in UpTo(i)
    OBVIOUS
  <2>4. Cardinality(UpTo(i)) # 0
    BY <2>2, <2>3, FS_EmptySet
  <2>5. QED
    BY <1>2, <2>2, <2>4
<1>4. ASSUME NEW i \in P, NEW j \in P, i < j
      PROVE  rank[i] # rank[j]
  <2>0. P \subseteq Nat /\ i \in Nat /\ j \in Nat
    OBVIOUS
  <2>a. \A x \in Nat : x <= i => x <= j
    BY <1>4, <2>0
  <2>b. j <= j /\ ~(j <= i)
    BY <1>4, <2>0
  <2>1. UpTo(i) \subseteq UpTo(j) /\ j \in UpTo(j) /\ j \notin UpTo(i)
    BY <2>0, <2>a, <2>b, Zenon
  <2>2. UpTo(i) # UpTo(j)
    BY <2>1
  <2>3. IsFiniteSet(UpTo(j))
    BY <1>3
  <2> HIDE DEF UpTo
  <2>4. Cardinality(UpTo(i)) # Cardinality(UpTo(j))
    BY <2>1, <2>2, <2>3, FS_Subset
  <2>5. QED
    BY <2>4
<1>5. rank \in Injection(P, 1..Cardinality(P))
  <2>1. rank \in [P -> 1..Cardinality(P)]
    BY <1>3
  <2>2. \A i, j \in P : rank[i] = rank[j] => i = j
    <3> HIDE DEF rank
    <3>1. QED
      BY <1>4
  <2> HIDE DEF rank
  <2>3. IsInjective(rank)
    BY <2>1, <2>2 DEF IsInjective
  <2>4. QED
    BY <2>1, <2>3 DEF Injection
<1>6. /\ IsFiniteSet(1..Cardinality(P))
      /\ Cardinality(1..Cardinality(P)) = Cardinality(P)
  BY <1>2, FS_Interval
<1>7. rank \in Surjection(P, 1..Cardinality(P))
  <2> HIDE DEF rank
  <2>1. QED
    BY <1>5, <1>6, FS_Injection
<1>8. ASSUME NEW k \in 1..Cardinality(P) PROVE Nth(P, k) \in P
  <2>1. PICK i \in P : rank[i] = k
    <3> HIDE DEF rank
    <3>1. QED
      BY <1>7 DEF Surjection
  <2>2. \E i_1 \in P : Cardinality({j \in P : j <= i_1}) = k
    BY <2>1
  <2>3. QED
    BY <2>2 DEF Nth
<1>9. QED
  BY <1>2, <1>8

(* What a tool lists.                                                      *)
LEMMA OutputIsListing ==
  ASSUME NEW vendor, NEW reading \in Output(vendor), reading # Empty
  PROVE  /\ reading \in Reading /\ Len(reading) = Len(Listing)
         /\ DOMAIN reading = DOMAIN Listing
         /\ \A i \in DOMAIN Listing :
              reading[i].gpu = Listing[i] /\ reading[i].load \in Loads
<1>1. PICK loads \in [DOMAIN Listing -> Loads] :
        reading = [i \in DOMAIN Listing |-> [gpu |-> Listing[i], load |-> loads[i]]]
  BY DEF Output
<1>2. DOMAIN Listing = 1..Len(Listing) /\ Len(Listing) \in Nat
  OBVIOUS
<1>3. \A i \in DOMAIN Listing : Listing[i] \in Gpus
  BY DEF Gpus
<1>4. reading \in [1..Len(Listing) -> Entry]
  BY <1>1, <1>2, <1>3 DEF Entry
<1>5. reading \in Reading /\ Len(reading) = Len(Listing)
  BY <1>2, <1>4 DEF Reading
<1>6. QED
  BY <1>1, <1>5

(* What the mask leaves of it: the visible GPUs, in the order listed.      *)
LEMMA FilterKeeps ==
  ASSUME NEW vendor, NEW reading \in Output(vendor)
  PROVE  /\ FilterToVisible(reading) \in Reading
         /\ Len(FilterToVisible(reading)) <= Len(Listing)
         /\ FilterToVisible(reading) = Empty \/
              /\ reading # Empty
              /\ Len(FilterToVisible(reading)) = Cardinality(Kept)
              /\ \A k \in 1..Cardinality(Kept) :
                   /\ Nth(Kept, k) \in DOMAIN Listing
                   /\ FilterToVisible(reading)[k] = reading[Nth(Kept, k)]
<1> DEFINE kept == {i \in DOMAIN reading : reading[i].gpu \in visible}
<1>1. FilterToVisible(reading) =
        [k \in 1..Cardinality(kept) |-> reading[Nth(kept, k)]]
  BY DEF FilterToVisible
<1>2. CASE reading = Empty
  <2>1. kept = {}
    BY <1>2 DEF Empty
  <2>2. Cardinality(kept) = 0
    BY <2>1, FS_EmptySet
  <2> HIDE DEF kept
  <2>3. FilterToVisible(reading) = Empty
    BY <1>1, <2>2 DEF Empty
  <2>4. QED
    BY <2>3 DEF Empty, Reading
<1>3. CASE reading # Empty
  <2>1. /\ reading \in Reading /\ Len(reading) = Len(Listing)
        /\ DOMAIN reading = DOMAIN Listing
        /\ \A i \in DOMAIN Listing : reading[i].gpu = Listing[i]
    BY <1>3, OutputIsListing
  <2>2. kept = Kept
    BY <2>1 DEF Kept
  <2>3. /\ DOMAIN Listing = 1..Len(Listing) /\ Len(Listing) \in Nat
        /\ Kept \in SUBSET (1..Len(Listing))
    BY DEF Kept
  <2>4. /\ Cardinality(Kept) \in 0..Len(Listing)
        /\ \A k \in 1..Cardinality(Kept) : Nth(Kept, k) \in DOMAIN Listing
    BY <2>3, NthIsOne
  <2> HIDE DEF kept
  <2>5. FilterToVisible(reading) =
          [k \in 1..Cardinality(Kept) |-> reading[Nth(Kept, k)]]
    BY <1>1, <2>2
  <2>6. \A i \in DOMAIN Listing : reading[i] \in Entry
    BY <2>1 DEF Reading
  <2>7. FilterToVisible(reading) \in [1..Cardinality(Kept) -> Entry]
    BY <2>4, <2>5, <2>6
  <2>8. /\ FilterToVisible(reading) \in Reading
        /\ Len(FilterToVisible(reading)) = Cardinality(Kept)
    BY <2>4, <2>7 DEF Reading
  <2>9. QED
    BY <1>3, <2>4, <2>5, <2>8
<1>4. QED
  BY <1>2, <1>3
LEMMA LargerOfTwo ==
  ASSUME NEW a \in Nat, NEW b \in Nat
  PROVE  Max2(a, b) \in {a, b} /\ a <= Max2(a, b) /\ b <= Max2(a, b)
  BY DEF Max2

(* The history of figures only grows, and covers the reading just given.   *)
LEMMA ShownCovers ==
  ASSUME TypeOK, NEW vendor \in Vendors, NEW reading \in Output(vendor),
         ShownBy(vendor, reading)
  PROVE  /\ shown' \in [Vendors -> [Gpus -> Loads \union {0}]]
         /\ \A v \in Vendors, g \in Gpus : shown[v][g] <= shown'[v][g]
         /\ \A i \in DOMAIN reading :
              reading[i].load <= shown'[vendor][reading[i].gpu]
<1> DEFINE Shows(g) == \E i \in DOMAIN reading : reading[i].gpu = g
           The(g) == CHOOSE e \in {reading[i] : i \in DOMAIN reading} : e.gpu = g
           new == [g \in Gpus |-> IF Shows(g) THEN Max2(shown[vendor][g], The(g).load)
                                   ELSE shown[vendor][g]]
<1>1. shown' = [shown EXCEPT ![vendor] = new]
  BY DEF ShownBy, TypeOK
<1>2. /\ shown \in [Vendors -> [Gpus -> Loads \union {0}]]
      /\ Loads \union {0} \subseteq Nat
  BY DEF TypeOK
<1>3. ASSUME NEW i \in DOMAIN reading
      PROVE  /\ reading[i].gpu \in Gpus /\ reading[i].load \in Loads
             /\ Shows(reading[i].gpu) /\ The(reading[i].gpu) = reading[i]
  <2>1. reading # Empty
    BY <1>3 DEF Empty
  <2>2. /\ DOMAIN reading = DOMAIN Listing
        /\ \A k \in DOMAIN reading :
             reading[k].gpu = Listing[k] /\ reading[k].load \in Loads
    BY <2>1, OutputIsListing
  <2>3. PICK k \in DOMAIN reading :
          The(reading[i].gpu) = reading[k] /\ reading[k].gpu = reading[i].gpu
    <3>1. \E e \in {reading[k] : k \in DOMAIN reading} : e.gpu = reading[i].gpu
      BY <1>3
    <3>2. /\ The(reading[i].gpu) \in {reading[k] : k \in DOMAIN reading}
          /\ The(reading[i].gpu).gpu = reading[i].gpu
      BY <3>1
    <3> HIDE DEF The
    <3>3. QED
      BY <3>2
  <2>4. k = i
    BY <2>2, <2>3
  <2> HIDE DEF The
  <2>5. QED
    BY <2>2, <2>3, <2>4 DEF Gpus
<1>4. ASSUME NEW g \in Gpus
      PROVE  /\ new[g] \in Loads \union {0}
             /\ shown[vendor][g] <= new[g]
             /\ Shows(g) => The(g).load <= new[g]
  <2>1. Shows(g) => The(g).load \in Loads
    <3> HIDE DEF The
    <3>1. QED
      BY <1>3
  <2>2. shown[vendor][g] \in Loads \union {0}
    BY <1>2
  <2>3. new[g] = IF Shows(g) THEN Max2(shown[vendor][g], The(g).load)
                 ELSE shown[vendor][g]
    OBVIOUS
  <2> HIDE DEF The, Shows, new
  <2>4. CASE Shows(g)
    <3>1. /\ new[g] = Max2(shown[vendor][g], The(g).load)
          /\ shown[vendor][g] \in Nat /\ The(g).load \in Nat
      BY <1>2, <2>1, <2>2, <2>3, <2>4
    <3>2. QED
      BY <2>1, <2>2, <2>4, <3>1, LargerOfTwo
  <2>5. CASE ~Shows(g)
    <3>1. new[g] = shown[vendor][g] /\ shown[vendor][g] \in Nat
      BY <1>2, <2>2, <2>3, <2>5
    <3>2. QED
      BY <2>2, <2>5, <3>1
  <2>6. QED
    BY <2>4, <2>5
<1>5. new \in [Gpus -> Loads \union {0}]
  <2>1. DOMAIN new = Gpus
    OBVIOUS
  <2>2. new = [g \in Gpus |-> new[g]]
    OBVIOUS
  <2> HIDE DEF new
  <2>3. QED
    BY <1>4, <2>2
<1> HIDE DEF new, Shows, The
<1>6. shown' \in [Vendors -> [Gpus -> Loads \union {0}]]
  BY <1>1, <1>2, <1>5
<1>7. ASSUME NEW v \in Vendors, NEW g \in Gpus
      PROVE  shown[v][g] <= shown'[v][g]
  <2>1. shown[v][g] \in Nat
    BY <1>2
  <2>2. QED
    BY <1>1, <1>2, <1>4, <2>1
<1>8. ASSUME NEW i \in DOMAIN reading
      PROVE  reading[i].load <= shown'[vendor][reading[i].gpu]
  BY <1>1, <1>2, <1>3, <1>4
<1>9. QED
  BY <1>6, <1>7, <1>8
-----------------------------------------------------------------------------
LEMMA InitHolds == Init => Inductive
<1> SUFFICES ASSUME Init PROVE Inductive
  OBVIOUS
<1>1. TypeOK
  <2>1. Empty \in Reading /\ Len(Empty) = 0
    BY DEF Empty, Reading
  <2>2. peaks \in Seq(Loads \union {0}) /\ indices \in Seq(Gpus) /\ Len(peaks) = 0
    BY DEF Init
  <2>3. Len(Listing) \in Nat
    OBVIOUS
  <2>4. shown \in [Vendors -> [Gpus -> Loads \union {0}]]
    BY DEF Init
  <2>5. QED
    BY <2>1, <2>2, <2>3, <2>4 DEF Init, TypeOK
<1>2. QED
  BY <1>1 DEF Init, Inductive, Readings, Summary, Disabled, Empty

(* The steps that move the worker or drop the handle.                      *)
LEMMA ControlKeeps ==
  ASSUME Inductive, \/ WorkerEnds \/ NoneVisible \/ StartPoll \/ Store \/ Wake
                    \/ DropHandle
  PROVE  Inductive'
<1> USE DEF Inductive, sampler, summary
<1>1. Empty \in Reading /\ Len(Empty) = 0 /\ Len(Listing) \in Nat
  BY DEF Empty, Reading
<1>2. UNCHANGED <<visible, backend, summary, shown, installed>>
  BY DEF WorkerEnds, NoneVisible, StartPoll, Store, Wake, DropHandle
<1>3. /\ answer' \in {answer, Empty} /\ latest' \in {latest, answer}
      /\ available' \in {available, "no"} /\ held' \in {held, FALSE}
      /\ worker' \in {worker, "head", "poll", "store", "sleep", "gone"}
  BY DEF WorkerEnds, NoneVisible, StartPoll, Store, Wake, DropHandle
<1>4. TypeOK'
  <2>1. answer' \in Reading /\ latest' \in Reading
    BY <1>1, <1>3 DEF TypeOK
  <2>2. Len(answer') <= Len(Listing) /\ Len(latest') <= Len(Listing)
    BY <1>1, <1>3 DEF TypeOK
  <2>3. available' \in {"unknown", "yes", "no"} /\ held' \in BOOLEAN
    BY <1>3 DEF TypeOK
  <2>4. worker' \in {"head", "poll", "store", "sleep", "gone"}
    BY <1>3 DEF TypeOK
  <2>5. QED
    BY <1>2, <2>1, <2>2, <2>3, <2>4 DEF TypeOK
<1>5. Readings'
  BY <1>2, <1>3 DEF Readings, FromTool, Kept
<1>6. Summary'
  BY <1>2 DEF Summary, Kept
<1>7. Disabled'
  BY DEF Disabled, WorkerEnds, NoneVisible, StartPoll, Store, Wake, DropHandle,
     MustEnd
<1>8. QED
  BY <1>4, <1>5, <1>6, <1>7

(* A poll of the one vendor there is, or the first.                        *)
LEMMA PollKeeps ==
  ASSUME Inductive, worker = "poll", NEW vendor \in Vendors,
         backend \in {"none", vendor}, NEW reading \in Output(vendor),
         PollGave(reading),
         \/ backend' = vendor /\ ShownBy(vendor, reading)
         \/ reading = Empty /\ UNCHANGED <<backend, shown>>,
         UNCHANGED <<visible, installed, latest, held, summary>>
  PROVE  Inductive'
<1> USE DEF Inductive, summary
<1>1. /\ answer' = FilterToVisible(reading) /\ worker' = "store"
      /\ available' = IF answer' = Empty THEN "no" ELSE "yes"
  BY DEF PollGave, StoreNext
<1>2. /\ shown \in [Vendors -> [Gpus -> Loads \union {0}]]
      /\ Loads \union {0} \subseteq Nat /\ Len(Listing) \in Nat
  BY DEF TypeOK
<1>3. /\ shown' \in [Vendors -> [Gpus -> Loads \union {0}]]
      /\ \A v \in Vendors, g \in Gpus : shown[v][g] <= shown'[v][g]
      /\ reading # Empty =>
           /\ backend' = vendor
           /\ \A i \in DOMAIN reading :
                reading[i].load <= shown'[vendor][reading[i].gpu]
  <2>1. CASE ShownBy(vendor, reading) /\ backend' = vendor
    <3>1. ShownBy(vendor, reading) /\ TypeOK
      BY <2>1
    <3>2. /\ shown' \in [Vendors -> [Gpus -> Loads \union {0}]]
          /\ \A v \in Vendors, g \in Gpus : shown[v][g] <= shown'[v][g]
          /\ \A i \in DOMAIN reading :
               reading[i].load <= shown'[vendor][reading[i].gpu]
      BY <3>1, ShownCovers
    <3>3. QED
      BY <2>1, <3>2
  <2>2. CASE reading = Empty /\ UNCHANGED <<backend, shown>>
    <3>1. \A v \in Vendors, g \in Gpus : shown[v][g] \in Nat
      BY <1>2
    <3>2. \A v \in Vendors, g \in Gpus : shown[v][g] <= shown'[v][g]
      BY <2>2, <3>1
    <3>3. QED
      BY <1>2, <2>2, <3>2
  <2>3. QED
    BY <2>1, <2>2
<1>4. backend \in Vendors => backend' = backend
  BY DEF Vendors
<1>5. Kept' = Kept
  BY DEF Kept
<1>6. FilterToVisible(reading) = Empty \/
        /\ reading # Empty
        /\ Len(FilterToVisible(reading)) = Cardinality(Kept)
        /\ \A k \in 1..Cardinality(Kept) :
             /\ Nth(Kept, k) \in DOMAIN Listing
             /\ FilterToVisible(reading)[k] = reading[Nth(Kept, k)]
  BY FilterKeeps
<1>7. TypeOK'
  <2>1. answer' \in Reading /\ Len(answer') <= Len(Listing)
    BY <1>1, FilterKeeps
  <2>2. QED
    BY <1>1, <1>3, <2>1 DEF TypeOK
<1>8. answer' = Empty \/ FromTool(answer)'
  <2>1. SUFFICES ASSUME answer' # Empty PROVE FromTool(answer)'
    OBVIOUS
  <2>2. /\ reading # Empty /\ Len(answer') = Cardinality(Kept)
        /\ \A k \in 1..Cardinality(Kept) :
             /\ Nth(Kept, k) \in DOMAIN Listing
             /\ answer'[k] = reading[Nth(Kept, k)]
    BY <1>1, <1>6, <2>1
  <2>3. DOMAIN answer' = 1..Cardinality(Kept)
    BY <1>7, <2>2 DEF TypeOK, Reading
  <2>4. /\ DOMAIN reading = DOMAIN Listing
        /\ \A i \in DOMAIN Listing : reading[i].gpu = Listing[i]
    BY <2>2, OutputIsListing
  <2>5. QED
    BY <1>3, <1>5, <2>2, <2>3, <2>4 DEF FromTool
<1>9. latest' = Empty \/ FromTool(latest)'
  <2>1. SUFFICES ASSUME latest # Empty PROVE FromTool(latest)'
    OBVIOUS
  <2>2. FromTool(latest) /\ backend' = backend
    BY <1>4, <2>1 DEF Readings, FromTool
  <2>3. ASSUME NEW k \in DOMAIN latest
        PROVE  latest[k].load <= shown'[backend][latest[k].gpu]
    <3>1. latest[k] \in Entry
      BY DEF TypeOK, Reading
    <3>2. latest[k].gpu \in Gpus /\ latest[k].load \in Nat
      BY <3>1 DEF Entry
    <3>3. /\ shown[backend][latest[k].gpu] \in Nat
          /\ shown'[backend][latest[k].gpu] \in Nat
          /\ shown[backend][latest[k].gpu] <= shown'[backend][latest[k].gpu]
      <4>1. backend \in Vendors
        BY <2>2 DEF FromTool
      <4>2. /\ shown[backend] \in [Gpus -> Loads \union {0}]
            /\ shown'[backend] \in [Gpus -> Loads \union {0}]
        BY <1>2, <1>3, <4>1
      <4>3. QED
        BY <1>2, <1>3, <3>2, <4>1, <4>2
    <3>4. QED
      BY <2>2, <3>2, <3>3 DEF FromTool
  <2>4. QED
    BY <1>5, <2>2, <2>3 DEF FromTool
<1>10. Summary'
  <2>1. SUFFICES ASSUME peaks # <<>> PROVE Summary'
    BY DEF Summary
  <2>2. backend \in Vendors /\ backend' = backend /\ Len(indices) = Len(peaks)
    BY <1>4, <2>1 DEF Summary
  <2>3. ASSUME NEW k \in DOMAIN peaks
        PROVE  peaks[k] <= shown'[backend][indices[k]]
    <3>1. indices[k] \in Gpus /\ peaks[k] \in Nat
      <4>1. peaks \in Seq(Loads \union {0}) /\ indices \in Seq(Gpus)
        BY DEF TypeOK
      <4>2. k \in 1..Len(peaks) /\ k \in DOMAIN indices
        BY <2>2, <4>1
      <4>3. indices[k] \in Gpus
        BY <4>1, <4>2
      <4>4. peaks[k] \in Loads \union {0}
        BY <4>1
      <4>5. QED
        BY <1>2, <4>3, <4>4
    <3>2. /\ shown[backend][indices[k]] \in Nat
          /\ shown'[backend][indices[k]] \in Nat
          /\ shown[backend][indices[k]] <= shown'[backend][indices[k]]
      <4>1. /\ shown[backend] \in [Gpus -> Loads \union {0}]
            /\ shown'[backend] \in [Gpus -> Loads \union {0}]
        BY <1>2, <1>3, <2>2
      <4>2. QED
        BY <1>2, <1>3, <2>2, <3>1, <4>1
    <3>3. peaks[k] <= shown[backend][indices[k]]
      BY <2>1 DEF Summary
    <3>4. QED
      BY <3>1, <3>2, <3>3
  <2>4. QED
    BY <1>5, <2>1, <2>2, <2>3 DEF Summary
<1>11. Disabled'
  BY <1>1 DEF Disabled
<1>12. QED
  BY <1>7, <1>8, <1>9, <1>10, <1>11 DEF Readings

LEMMA ProbeKeeps ==
  ASSUME Inductive, Probe PROVE Inductive'
<1>1. /\ worker = "poll" /\ backend = "none"
      /\ UNCHANGED <<visible, installed, latest, held, summary>>
  BY DEF Probe
<1>2. PICK first \in Output("nvidia") :
        \/ /\ first # Empty
           /\ backend' = "nvidia" /\ ShownBy("nvidia", first)
           /\ PollGave(first)
        \/ \E second \in Output("amd") :
              /\ \/ backend' = "amd" /\ ShownBy("amd", second)
                 \/ second = Empty /\ UNCHANGED <<backend, shown>>
              /\ PollGave(second)
  BY DEF Probe, BackendChosen
<1>3. "nvidia" \in Vendors /\ "amd" \in Vendors
  BY DEF Vendors
<1>4. CASE /\ backend' = "nvidia" /\ ShownBy("nvidia", first)
           /\ PollGave(first)
  BY <1>1, <1>3, <1>4, PollKeeps
<1>5. ASSUME NEW second \in Output("amd"), PollGave(second),
             \/ backend' = "amd" /\ ShownBy("amd", second)
             \/ second = Empty /\ UNCHANGED <<backend, shown>>
      PROVE  Inductive'
  BY <1>1, <1>3, <1>5, PollKeeps
<1>6. QED
  BY <1>2, <1>4, <1>5

LEMMA PollAgainKeeps ==
  ASSUME Inductive, PollAgain PROVE Inductive'
<1>1. /\ worker = "poll" /\ backend \in Vendors
      /\ UNCHANGED <<visible, installed, backend, latest, held, summary>>
  BY DEF PollAgain, Inductive, TypeOK
<1>2. PICK reading \in Output(backend) :
        PollGave(reading) /\ ShownBy(backend, reading)
  BY DEF PollAgain
<1>3. PICK vendor \in Vendors : vendor = backend
  BY <1>1
<1>4. QED
  BY <1>1, <1>2, <1>3, PollKeeps

(* max_into, position by position: a reading is of the GPUs whose peaks    *)
(* are kept, or is empty and changes nothing.                              *)
LEMMA SampleKeeps ==
  ASSUME Inductive, Sample PROVE Inductive'
<1> USE DEF Inductive
<1>1. /\ UNCHANGED <<visible, installed, worker, available, backend, answer,
                     latest, held, shown>>
      /\ peaks' = [i \in 1..Longer |-> Peak(i)]
      /\ indices' = IF latest = Empty THEN indices
                    ELSE [i \in DOMAIN latest |-> latest[i].gpu]
  BY DEF Sample, IndicesKept, sampler
<1>2. /\ peaks \in Seq(Loads \union {0}) /\ latest \in Seq(Entry)
      /\ indices \in Seq(Gpus) /\ Len(indices) = Len(peaks)
      /\ Loads \union {0} \subseteq Nat
      /\ Len(latest) <= Len(Listing) /\ Len(peaks) <= Len(Listing)
      /\ Len(peaks) \in Nat /\ Len(latest) \in Nat /\ Len(Listing) \in Nat
  BY DEF TypeOK, Reading, Summary
<1>3. Readings' /\ Disabled'
  BY <1>1 DEF Readings, FromTool, Kept, Disabled
<1>4. CASE latest = Empty
  <2>1. Len(latest) = 0 /\ Longer = Len(peaks)
    BY <1>2, <1>4 DEF Empty, Longer, Max2
  <2>2. ASSUME NEW i \in 1..Len(peaks) PROVE Peak(i) = peaks[i]
    <3>1. peaks[i] \in Nat
      <4>1. peaks[i] \in Loads \union {0}
        BY <1>2
      <4>2. QED
        BY <1>2, <4>1
    <3>2. Peak(i) = Max2(peaks[i], 0)
      BY <2>1, <1>2 DEF Peak
    <3>3. QED
      BY <3>1, <3>2 DEF Max2
  <2>3. peaks' = [i \in 1..Len(peaks) |-> peaks[i]]
    BY <1>1, <2>1, <2>2
  <2>a. peaks = [i \in 1..Len(peaks) |-> peaks[i]]
    BY <1>2
  <2>4. peaks' = peaks /\ indices' = indices
    BY <1>1, <1>4, <2>3, <2>a
  <2>5. TypeOK' /\ Summary'
    BY <1>1, <2>4 DEF TypeOK, Summary, Kept
  <2>6. QED
    BY <1>3, <2>5
<1>5. CASE latest # Empty
  <2> DEFINE n == Cardinality(Kept)
  <2>1. /\ backend \in Vendors /\ Len(latest) = n
        /\ \A k \in DOMAIN latest :
             /\ latest[k].gpu = Listing[Nth(Kept, k)]
             /\ latest[k].load <= shown[backend][latest[k].gpu]
    BY <1>5 DEF Readings, FromTool
  <2>2. /\ DOMAIN latest = 1..n /\ n \in Nat /\ Len(peaks) \in {0, n}
    BY <1>2, <2>1 DEF Summary
  <2>3. Longer = n
    BY <1>2, <2>1, <2>2 DEF Longer, Max2
  <2> HIDE DEF n
  <2>4. /\ peaks' = [i \in 1..n |-> Peak(i)]
        /\ indices' = [i \in 1..n |-> latest[i].gpu]
    BY <1>1, <1>5, <2>2, <2>3
  <2>5. ASSUME NEW i \in 1..n
        PROVE  /\ latest[i].gpu \in Gpus /\ Peak(i) \in Loads \union {0}
               /\ latest[i].gpu = Listing[Nth(Kept, i)]
               /\ Peak(i) <= shown[backend][latest[i].gpu]
    <3> DEFINE old == IF i <= Len(peaks) THEN peaks[i] ELSE 0
               now == latest[i].load
    <3>1. latest[i] \in Entry
      BY <1>2, <2>2
    <3>2. latest[i].gpu \in Gpus /\ now \in Loads
      BY <3>1 DEF Entry
    <3>3. /\ latest[i].gpu = Listing[Nth(Kept, i)]
          /\ now <= shown[backend][latest[i].gpu]
      BY <2>1, <2>2
    <3>4. old \in Loads \union {0}
      BY <1>2, <2>2
    <3>5. shown[backend][latest[i].gpu] \in Nat
      <4>1. shown \in [Vendors -> [Gpus -> Loads \union {0}]]
        BY DEF TypeOK
      <4>2. shown[backend] \in [Gpus -> Loads \union {0}]
        BY <2>1, <4>1
      <4>3. QED
        BY <1>2, <3>2, <4>2
    <3>6. old <= shown[backend][latest[i].gpu]
      <4>1. CASE i <= Len(peaks)
        <5>1. i \in DOMAIN peaks /\ peaks # <<>>
          BY <1>2, <2>2, <4>1
        <5>2. /\ indices[i] = Listing[Nth(Kept, i)]
              /\ peaks[i] <= shown[backend][indices[i]]
          BY <5>1 DEF Summary
        <5>3. QED
          BY <3>3, <4>1, <5>2
      <4>2. CASE ~(i <= Len(peaks))
        BY <3>5, <4>2
      <4>3. QED
        BY <4>1, <4>2
    <3>7. Peak(i) = Max2(old, now)
      BY <2>1, <2>2, <1>2 DEF Peak, n
    <3>8. old \in Nat /\ now \in Nat
      BY <1>2, <3>2, <3>4
    <3> HIDE DEF old, now
    <3>9. Peak(i) \in {old, now}
      BY <3>7, <3>8, LargerOfTwo
    <3>10. QED
      BY <3>2, <3>3, <3>4, <3>6, <3>9
  <2>6. peaks' \in Seq(Loads \union {0}) /\ Len(peaks') = n
    BY <2>2, <2>4, <2>5
  <2>7. indices' \in Seq(Gpus) /\ Len(indices') = n
    BY <2>2, <2>4, <2>5
  <2>8. n <= Len(Listing)
    BY <1>2, <2>1
  <2>9. TypeOK'
    BY <1>1, <2>6, <2>7, <2>8 DEF TypeOK
  <2>10. n = Cardinality(Kept)' /\ Kept' = Kept
    BY <1>1 DEF n, Kept
  <2>11. Summary'
    <3>1. backend' \in Vendors /\ shown' = shown /\ backend' = backend
      BY <1>1, <2>1
    <3>2. DOMAIN peaks' = 1..n
      BY <2>4
    <3>3. ASSUME NEW k \in 1..n
          PROVE  /\ indices'[k] = Listing[Nth(Kept', k)]
                 /\ peaks'[k] <= shown'[backend'][indices'[k]]
      BY <2>4, <2>5, <2>10, <3>1
    <3>4. Len(peaks') = Cardinality(Kept') /\ Len(indices') = Len(peaks')
      BY <2>6, <2>7, <2>10
    <3>5. QED
      BY <3>1, <3>2, <3>3, <3>4 DEF Summary
  <2>12. QED
    BY <1>3, <2>9, <2>11
<1>6. QED
  BY <1>4, <1>5

LEMMA StepKeeps == Inductive /\ [Next]_vars => Inductive'
<1> SUFFICES ASSUME Inductive, [Next]_vars PROVE Inductive'
  OBVIOUS
<1>1. CASE UNCHANGED vars \/ Over
  <2>1. UNCHANGED vars
    BY <1>1 DEF Over
  <2>2. (TypeOK /\ Readings /\ Summary /\ Disabled)'
    BY <2>1 DEF vars, sampler, summary, Inductive, TypeOK, Readings, FromTool,
       Summary, Disabled, Kept
  <2>3. QED
    BY <2>2 DEF Inductive
<1>2. CASE WorkerThread
  BY <1>2, ControlKeeps, ProbeKeeps, PollAgainKeeps DEF WorkerThread
<1>3. CASE Sample \/ DropHandle
  BY <1>3, ControlKeeps, SampleKeeps
<1>4. QED
  BY <1>1, <1>2, <1>3 DEF Next

(* Whatever the tools answer and whenever the main thread samples, the     *)
(* shared state is well typed.                                             *)
THEOREM TypeCorrect == Spec => []TypeOK
<1>1. Inductive => TypeOK
  BY DEF Inductive
<1>2. QED
  BY <1>1, InitHolds, StepKeeps, PTL DEF Spec

(* The peaks of the summary are of the GPUs it names, position by          *)
(* position, and one vendor's tool showed each of those GPUs that much.    *)
THEOREM PeaksOfTheirGpus == Spec => []GpuPeaksBelong
<1>1. Inductive => GpuPeaksBelong
  <2>1. SUFFICES ASSUME Inductive PROVE GpuPeaksBelong
    OBVIOUS
  <2>2. CASE peaks = <<>>
    <3>1. DOMAIN peaks = {} /\ "amd" \in Vendors
      BY <2>2 DEF Vendors
    <3>2. QED
      BY <2>1, <3>1 DEF Inductive, Summary, GpuPeaksBelong
  <2>3. CASE peaks # <<>>
    BY <2>1, <2>3 DEF Inductive, Summary, GpuPeaksBelong
  <2>4. QED
    BY <2>2, <2>3
<1>2. QED
  BY <1>1, InitHolds, StepKeeps, PTL DEF Spec

(* A sampler that stopped polling while the logger went on has stored the  *)
(* empty reading that disabled it.                                         *)
THEOREM NothingLeftBehind == Spec => []NoGhostReading
<1>1. Inductive => NoGhostReading
  BY DEF Inductive, Disabled, NoGhostReading
<1>2. QED
  BY <1>1, InitHolds, StepKeeps, PTL DEF Spec

(* How far the worker is from its end when it is told to stop.            *)
Left ==
  [w \in {"head", "poll", "store", "sleep", "gone"} |->
     CASE w = "poll" -> 4 [] w = "store" -> 3 [] w = "sleep" -> 2
       [] w = "head" -> 1 [] OTHER -> 0]

(* Once the handle has been dropped the worker starts no other poll: each  *)
(* step of it is nearer to the end of the thread, whatever its tool gives, *)
(* and no step of anybody else takes it away from there.                   *)
THEOREM WorkerNearsEnd ==
  Spec => [][~held => /\ ~held'
                      /\ WorkerThread => Left[worker'] < Left[worker]
                      /\ worker' = worker \/ Left[worker'] < Left[worker]]_vars
<1>1. /\ Left["poll"] = 4 /\ Left["store"] = 3 /\ Left["sleep"] = 2
      /\ Left["head"] = 1 /\ Left["gone"] = 0
  BY DEF Left
<1>2. ASSUME ~held, WorkerThread
      PROVE  ~held' /\ Left[worker'] < Left[worker]
  <2>1. CASE WorkerEnds \/ NoneVisible \/ StartPoll \/ Store \/ Wake
    BY <1>1, <1>2, <2>1 DEF WorkerEnds, NoneVisible, StartPoll, Store, Wake, MustEnd
  <2>2. CASE Probe \/ PollAgain
    BY <1>1, <1>2, <2>2 DEF Probe, PollAgain, PollGave, StoreNext
  <2>3. QED
    BY <1>2, <2>1, <2>2 DEF WorkerThread
<1>3. ~held /\ Next /\ ~WorkerThread => UNCHANGED <<held, worker>>
  BY DEF Next, Sample, DropHandle, Over, vars
<1>4. [Next]_vars =>
        [~held => /\ ~held'
                  /\ WorkerThread => Left[worker'] < Left[worker]
                  /\ worker' = worker \/ Left[worker'] < Left[worker]]_vars
  BY <1>2, <1>3
<1>5. QED
  BY <1>4, PTL DEF Spec
=============================================================================
