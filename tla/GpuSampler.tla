----------------------------- MODULE GpuSampler -----------------------------
(***************************************************************************)
(* BackgroundGpuSampler and GpuSampler of gpu.rs, and what update_summary  *)
(* makes of their readings.  A worker thread runs a vendor's tool, which   *)
(* takes as long as it likes, and stores the result; each sample of the    *)
(* main thread clones the last one stored.  Dropping the logger drops the  *)
(* handle, and the worker ends at the head of its loop.                    *)
(*                                                                         *)
(* A reading is a list of GPUs with one figure each; the other vectors of  *)
(* GpuStats run parallel to it.  The worker sleeps for its interval after  *)
(* a poll, so the poll that follows is always due and the sampler's cache  *)
(* of its own is never used.                                               *)
(*                                                                         *)
(* As in NodeLogger, an operator just before another one and used by no    *)
(* action is the wrong code the properties must notice.                    *)
(***************************************************************************)
EXTENDS Naturals, Sequences, FiniteSets

CONSTANTS
  Listing,   \* the GPUs of the node, in the order the tools list them
  Loads,     \* the figures a GPU can show
  Masks      \* the sets of indices the environment may make visible

Gpus == {Listing[i] : i \in DOMAIN Listing}
Vendors == {"nvidia", "amd"}

ASSUME ListingAssumption ==
  /\ Listing \in Seq(Nat)
  /\ \A i, j \in DOMAIN Listing : Listing[i] = Listing[j] => i = j
ASSUME LoadsAssumption == Loads \subseteq Nat

VARIABLES
  visible,    \* the GPUs visibility_from_env leaves; all of them if unset
  installed,  \* the vendors whose tool works on this node
  worker,     \* where the worker thread is
  available,  \* unknown until the first poll; no disables all later ones
  backend,    \* the vendor whose tool answered first
  answer,     \* what the poll returned
  latest,     \* the reading shared under the mutex
  held,       \* the main thread has its handle
  peaks,      \* gpu_utilization_peak, one per position
  indices,    \* gpu_indices
  shown       \* history: the highest figure each vendor's tool gave a GPU

sampler == <<available, backend>>
summary == <<peaks, indices>>
vars == <<visible, installed, worker, sampler, answer, latest, held, summary,
          shown>>

Empty == <<>>
Entry == [gpu : Gpus, load : Loads]
Reading == Seq(Entry)

Init ==
  /\ visible \in Masks /\ installed \in SUBSET Vendors
  /\ worker = "head" /\ available = "unknown" /\ backend = "none"
  /\ answer = Empty /\ latest = Empty /\ held = TRUE
  /\ peaks = <<>> /\ indices = <<>>
  /\ shown = [v \in Vendors |-> [g \in Gpus |-> 0]]
-----------------------------------------------------------------------------
(* The tools, outside the program: a poll of a vendor lists every GPU, or  *)
(* fails, for once or for good; a tool that is not installed always fails. *)
Output(vendor) ==
  {Empty} \union
  (IF vendor \in installed
     THEN {[i \in DOMAIN Listing |-> [gpu |-> Listing[i], load |-> loads[i]]] :
             loads \in [DOMAIN Listing -> Loads]}
     ELSE {})

(* filter_to_visible: the entries whose index the mask names, in order.    *)
Nth(positions, k) ==
  CHOOSE i \in positions : Cardinality({j \in positions : j <= i}) = k

FilterToVisible(reading) ==
  LET kept == {i \in DOMAIN reading : reading[i].gpu \in visible}
  IN  [k \in 1..Cardinality(kept) |-> reading[Nth(kept, k)]]

Max2(a, b) == IF a > b THEN a ELSE b

ShownBy(vendor, reading) ==
  shown' = [shown EXCEPT ![vendor] =
    [g \in Gpus |->
      IF \E i \in DOMAIN reading : reading[i].gpu = g
        THEN Max2(@[g], (CHOOSE e \in {reading[i] : i \in DOMAIN reading} :
                           e.gpu = g).load)
        ELSE @[g]]]
-----------------------------------------------------------------------------
(* The worker thread.                                                      *)

(* strong_count, then is_disabled: either ends the thread.                 *)
EndIfDisabled == available = "no"
MustEnd == ~held \/ available = "no"

WorkerEnds ==
  /\ worker = "head" /\ MustEnd
  /\ worker' = "gone"
  /\ UNCHANGED <<visible, installed, sampler, answer, latest, held, summary,
                 shown>>

(* The mask is empty: "never fork a vendor tool".                          *)
NoneVisible ==
  /\ worker = "head" /\ ~MustEnd /\ visible = {}
  /\ available' = "no" /\ answer' = Empty
  /\ worker' = "store"
  /\ UNCHANGED <<visible, installed, backend, latest, held, summary, shown>>

StartPoll ==
  /\ worker = "head" /\ ~MustEnd /\ visible # {}
  /\ worker' = "poll"
  /\ UNCHANGED <<visible, installed, sampler, answer, latest, held, summary,
                 shown>>

(* Any reading that leaves no GPU, a failed poll's too, disables the       *)
(* sampler; its empty result still goes out before the thread ends.        *)
StoreUnlessDisabled == worker' = IF available' = "no" THEN "gone" ELSE "store"
StoreNext == worker' = "store"

PollGave(reading) ==
  /\ answer' = FilterToVisible(reading)
  /\ available' = IF answer' = Empty THEN "no" ELSE "yes"
  /\ StoreNext

(* The first tool that lists a GPU is the only one asked from then on.     *)
BackendForgotten(vendor) == UNCHANGED backend
BackendChosen(vendor) == backend' = vendor

Probe ==
  /\ worker = "poll" /\ backend = "none"
  /\ \E first \in Output("nvidia") :
       \/ /\ first # Empty
          /\ BackendChosen("nvidia") /\ ShownBy("nvidia", first)
          /\ PollGave(first)
       \/ /\ first = Empty
          /\ \E second \in Output("amd") :
               /\ IF second # Empty
                    THEN BackendChosen("amd") /\ ShownBy("amd", second)
                    ELSE UNCHANGED <<backend, shown>>
               /\ PollGave(second)
  /\ UNCHANGED <<visible, installed, latest, held, summary>>

PollAgain ==
  /\ worker = "poll" /\ backend # "none"
  /\ \E reading \in Output(backend) :
       PollGave(reading) /\ ShownBy(backend, reading)
  /\ UNCHANGED <<visible, installed, backend, latest, held, summary>>

Store ==
  /\ worker = "store"
  /\ latest' = answer
  /\ worker' = "sleep"
  /\ UNCHANGED <<visible, installed, sampler, answer, held, summary, shown>>

Wake ==
  /\ worker = "sleep"
  /\ worker' = "head"
  /\ UNCHANGED <<visible, installed, sampler, answer, latest, held, summary,
                 shown>>
-----------------------------------------------------------------------------
(* The main thread.  max_into: the list of peaks grows as needed and never *)
(* shrinks.                                                                *)
Peak(i) == Max2(IF i <= Len(peaks) THEN peaks[i] ELSE 0,
                IF i <= Len(latest) THEN latest[i].load ELSE 0)
LongerByOne == Max2(Len(peaks), Len(latest) + 1)
Longer == Max2(Len(peaks), Len(latest))

IndicesOfThisSample == indices' = [i \in DOMAIN latest |-> latest[i].gpu]
IndicesKept ==
  indices' = IF latest = Empty THEN indices
             ELSE [i \in DOMAIN latest |-> latest[i].gpu]

Sample ==
  /\ held
  /\ peaks' = [i \in 1..Longer |-> Peak(i)]
  /\ IndicesKept
  /\ UNCHANGED <<visible, installed, worker, sampler, answer, latest, held,
                 shown>>

DropHandle ==
  /\ held /\ held' = FALSE
  /\ UNCHANGED <<visible, installed, worker, sampler, answer, latest, summary,
                 shown>>
-----------------------------------------------------------------------------
WorkerThread ==
  WorkerEnds \/ NoneVisible \/ StartPoll \/ Probe \/ PollAgain \/ Store \/ Wake

Over == worker = "gone" /\ ~held /\ UNCHANGED vars

Next == WorkerThread \/ Sample \/ DropHandle \/ Over

Spec == Init /\ [][Next]_vars

(* The worker is scheduled, and its tool returns: Command::output has no   *)
(* time limit.  Nothing is assumed of the main thread.                     *)
FairSpec == Spec /\ WF_vars(WorkerThread)
-----------------------------------------------------------------------------
(* The type invariant.                                                     *)
TypeOK ==
  /\ visible \in Masks /\ installed \subseteq Vendors
  /\ worker \in {"head", "poll", "store", "sleep", "gone"}
  /\ available \in {"unknown", "yes", "no"}
  /\ backend \in Vendors \union {"none"}
  /\ answer \in Reading /\ latest \in Reading
  /\ Len(answer) <= Len(Listing) /\ Len(latest) <= Len(Listing)
  /\ held \in BOOLEAN
  /\ peaks \in Seq(Loads \union {0}) /\ Len(peaks) <= Len(Listing)
  /\ indices \in Seq(Gpus)
  /\ shown \in [Vendors -> [Gpus -> Loads \union {0}]]

(* Summary, gpu_indices: "Node indices of the GPUs these peaks describe",  *)
(* GPU by GPU, from one vendor's tool only, even after the sampler has     *)
(* been disabled and the samples show no GPU any more.                     *)
GpuPeaksBelong ==
  /\ Len(indices) = Len(peaks)
  /\ \E v \in Vendors : \A i \in DOMAIN peaks : peaks[i] <= shown[v][indices[i]]

(* A sampler that has stopped polling does not leave its last reading for  *)
(* every later sample to repeat.                                           *)
NoGhostReading == (worker = "gone" /\ held) => latest = Empty

(* Dropping the handle "lets the worker stop after its current poll or     *)
(* sleep".                                                                 *)
WorkerStops == ~held ~> worker = "gone"
=============================================================================
