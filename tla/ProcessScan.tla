---------------------------- MODULE ProcessScan ----------------------------
(***************************************************************************)
(* One logger counting the job's processes while they fork, end and are    *)
(* moved: Cgroup::procs and collect_procs of cgroup.rs, accumulate_pid and *)
(* the tree walk of process.rs, the sub-samples of sample_tick and the     *)
(* peak of update_summary in logger.rs.  Every read of /proc or of a       *)
(* cgroup directory is a step of its own, and the kernel may change        *)
(* anything between two of them.                                           *)
(*                                                                         *)
(* A process is the number of its birth; its pid may be another one's      *)
(* later.  What is summed is the processes themselves: who was counted,    *)
(* and whose details were read for it.                                     *)
(*                                                                         *)
(* As in NodeLogger, an operator just before another one and used by no    *)
(* action is the wrong code the properties must notice.                    *)
(***************************************************************************)
EXTENDS Naturals, Sequences, SequencesExt, FiniteSets

CONSTANTS
  Pids,       \* the pids of the node; 0 stands for init
  TreePid,    \* --tree-pid
  Chain,      \* the job's cgroup directory and those nested below it
  Elsewhere,  \* the cgroup of other jobs
  First,      \* the processes at the start: from pids to births
  MaxBirths, MaxEvents, MaxScans,  \* bounds of a behaviour
  MaxDepth    \* MAX_DEPTH of collect_procs

ASSUME DepthAssumption == MaxDepth \in Nat
ASSUME PidsAssumption == Pids \subseteq Nat \ {0} /\ TreePid \in Pids
ASSUME ChainAssumption ==
  /\ Chain \in Seq(ToSet(Chain)) /\ Chain # <<>> /\ Elsewhere \notin ToSet(Chain)
(* A process: its birth, the pid of its parent, whether it was forked by a *)
(* main thread, and its cgroup.                                            *)
Process ==
  [id : Nat, parent : Pids \union {0}, main : BOOLEAN,
   dir : ToSet(Chain) \union {Elsewhere}]

(* A process is younger than its parent, and in the same job.              *)
ASSUME FirstAssumption ==
  /\ IsFiniteSet(Pids) /\ DOMAIN First \subseteq Pids
  /\ \A p \in DOMAIN First : First[p] \in Process
  /\ \A p \in DOMAIN First :
       /\ First[p].id \in 1..Cardinality(DOMAIN First)
       /\ \A q \in DOMAIN First : First[q].id = First[p].id => q = p
       /\ First[p].parent # 0 =>
            /\ First[p].parent \in DOMAIN First
            /\ First[First[p].parent].id < First[p].id
            /\ First[First[p].parent].dir \in ToSet(Chain)
                 <=> First[p].dir \in ToSet(Chain)

VARIABLES
  table,   \* the process table: a record for each live pid
  births,  \* processes born so far
  events,  \* what happened since the scan began
  scans,   \* scans of this behaviour
  mode,    \* cgroup, tree, or tree without the kernel's children files
  phase,   \* what the scan does next
  depth,   \* the directory collect_procs reads next
  queue,   \* pids listed and not yet read
  visited, \* pids the walk has met
  pid,     \* the one being read
  left,    \* pids of /proc the fallback has still to read
  counted, \* the processes stat was read of, in order
  detail,  \* those whose io was read, in order
  tick,    \* proc_count of the sub-samples so far
  peak,    \* n_procs_peak
  ours,    \* history: the processes of the job
  steady,  \* history: the processes nothing happened to during the scan
  begun,   \* history: births when it began, and whether it began with ours
  due      \* history: the most steady processes of any scan of this tick,
           \* and of any earlier tick

kernel == <<table, births, events, ours>>
walk == <<depth, queue, visited, pid, left>>
sums == <<counted, detail>>
peaks == <<tick, peak, due>>
vars == <<kernel, scans, mode, phase, walk, sums, peaks, steady, begun>>

Modes == {"cgroup", "tree", "slow tree"}
JobDirs == ToSet(Chain)
Alive == DOMAIN table
Max2(a, b) == IF a > b THEN a ELSE b

Init ==
  /\ table = First /\ births = Cardinality(DOMAIN First) /\ events = 0
  /\ ours = {First[p].id : p \in {q \in DOMAIN First : First[q].dir \in JobDirs}}
  /\ scans = 0 /\ mode \in Modes /\ phase = "idle"
  /\ depth = 1 /\ queue = <<>> /\ visited = {} /\ pid = TreePid /\ left = {}
  /\ counted = <<>> /\ detail = <<>> /\ tick = 0 /\ peak = 0 /\ steady = {}
  /\ begun = [births |-> 0, ours |-> TRUE] /\ due = [now |-> 0, before |-> 0]

(* The processes a scan must find, were nothing to happen: those in the    *)
(* job's directories as deep as it looks, or those below --tree-pid (the   *)
(* least set with it and the children of its members), where the children  *)
(* file lists only what a main thread forked.                              *)
Closed(tab, S) ==
  /\ {TreePid} \cap DOMAIN tab \subseteq S
  /\ \A q \in DOMAIN tab :
       tab[q].parent \in S /\ (mode = "tree" => tab[q].main) => q \in S
Below(tab) ==
  {q \in DOMAIN tab : \A S \in SUBSET DOMAIN tab : Closed(tab, S) => q \in S}
InScope(tab) ==
  {tab[p].id :
     p \in IF mode = "cgroup"
             THEN {q \in DOMAIN tab : \E d \in DOMAIN Chain :
                     d <= MaxDepth + 1 /\ tab[q].dir = Chain[d]}
             ELSE Below(tab)}
-----------------------------------------------------------------------------
(* The kernel, outside the program.  Orphans go to init; a process stays   *)
(* in the cgroups of its job, among which the scheduler may move it.       *)
Happens(tab, affected) ==
  /\ table' = tab /\ events' = events + 1
  /\ steady' = (steady \ affected) \cap InScope(tab)
  /\ UNCHANGED <<scans, mode, phase, walk, sums, peaks, begun>>
Disturbed == phase \notin {"idle", "done"} /\ events < MaxEvents

Fork(p, q, main) ==
  /\ Disturbed /\ p \in Alive /\ q \in Pids \ Alive /\ births < MaxBirths
  /\ births' = births + 1
  /\ ours' = IF table[p].dir \in JobDirs THEN ours \union {births'} ELSE ours
  /\ Happens([r \in Alive \union {q} |->
                IF r # q THEN table[r]
                ELSE [id |-> births', parent |-> p, main |-> main,
                      dir |-> table[p].dir]], {})

Exit(p) ==
  /\ Disturbed /\ p \in Alive
  /\ Happens([q \in Alive \ {p} |->
                IF table[q].parent = p
                  THEN [table[q] EXCEPT !.parent = 0, !.main = TRUE]
                  ELSE table[q]], {table[p].id})
  /\ UNCHANGED <<births, ours>>

Move(p, dir) ==
  /\ Disturbed /\ p \in Alive
  /\ table[p].dir \in JobDirs /\ dir \in JobDirs \ {table[p].dir}
  /\ Happens([table EXCEPT ![p].dir = dir],
             IF mode = "cgroup" THEN {table[p].id} ELSE {})
  /\ UNCHANGED <<births, ours>>
-----------------------------------------------------------------------------
(* scan_processes, from one of the two sources.                            *)
Begin ==
  /\ phase = "idle" /\ scans < MaxScans /\ scans' = scans + 1
  /\ queue' = IF mode = "cgroup" THEN <<>> ELSE <<TreePid>>
  /\ visited' = IF mode = "cgroup" THEN {} ELSE {TreePid}
  /\ phase' = IF mode = "cgroup" THEN "list" ELSE "pop"
  /\ events' = 0 /\ steady' = InScope(table)
  /\ begun' = [births |-> births,
               ours |-> mode # "cgroup" => /\ TreePid \in Alive
                                           /\ table[TreePid].id \in ours]
  /\ UNCHANGED <<table, births, ours, mode, depth, pid, left, sums, peaks>>

(* collect_procs, one cgroup.procs at a time, and the sort and dedup that  *)
(* follow the last one.                                                    *)
AsListed(pids) == pids
Dedup(pids) == SetToSeq(ToSet(pids))
TooShallow == depth < MaxDepth /\ depth < Len(Chain)
Deeper == depth <= MaxDepth /\ depth < Len(Chain)

ReadDir ==
  /\ phase = "list"
  /\ LET listed == queue \o SetToSeq({p \in Alive : table[p].dir = Chain[depth]})
     IN  IF Deeper
           THEN queue' = listed /\ depth' = depth + 1 /\ phase' = phase
           ELSE queue' = Dedup(listed) /\ depth' = depth /\ phase' = "pop"
  /\ UNCHANGED <<kernel, scans, mode, visited, pid, left, sums, peaks, steady,
                 begun>>

Pop ==
  /\ phase = "pop" /\ queue # <<>>
  /\ pid' = Head(queue) /\ queue' = Tail(queue) /\ phase' = "stat"
  /\ UNCHANGED <<kernel, scans, mode, depth, visited, left, sums, peaks, steady,
                 begun>>

(* accumulate_pid: nothing of a process that has ended; otherwise its stat *)
(* and then, by its pid again, the rest.  The walk asks for the children   *)
(* of an ended process all the same.                                       *)
ThenChildren == IF mode = "cgroup" THEN "pop" ELSE "children"
ReadStat ==
  /\ phase = "stat"
  /\ IF pid \in Alive
       THEN counted' = Append(counted, table[pid].id) /\ phase' = "detail"
       ELSE counted' = counted /\ phase' = ThenChildren
  /\ UNCHANGED <<kernel, scans, mode, walk, detail, peaks, steady, begun>>

ReadDetail ==
  /\ phase = "detail" /\ phase' = ThenChildren
  /\ detail' = IF pid \in Alive THEN Append(detail, table[pid].id) ELSE detail
  /\ UNCHANGED <<kernel, scans, mode, walk, counted, peaks, steady, begun>>

(* get_children: the children file, or else every stat of /proc.           *)
OrOrphan(p) == table[p].parent \in {pid, 0}
ChildOf(p) == table[p].parent = pid

ReadChildren ==
  /\ phase = "children"
  /\ IF mode = "tree" /\ pid \in Alive
       THEN LET new == {p \in Alive : ChildOf(p) /\ table[p].main} \ visited
            IN  /\ queue' = queue \o SetToSeq(new)
                /\ visited' = visited \union new
                /\ phase' = "pop" /\ left' = left
       ELSE /\ left' = Alive \ {pid} /\ phase' = "proc"
            /\ UNCHANGED <<queue, visited>>
  /\ UNCHANGED <<kernel, scans, mode, depth, pid, sums, peaks, steady, begun>>

ReadParent(p) ==
  /\ phase = "proc" /\ left' = left \ {p}
  /\ LET new == p \in Alive /\ ChildOf(p) /\ p \notin visited
     IN  /\ queue' = IF new THEN Append(queue, p) ELSE queue
         /\ visited' = IF new THEN visited \union {p} ELSE visited
  /\ UNCHANGED <<kernel, scans, mode, phase, depth, pid, sums, peaks, steady,
                 begun>>

AllParentsRead ==
  /\ phase = "proc" /\ left = {} /\ phase' = "pop"
  /\ UNCHANGED <<kernel, scans, mode, walk, sums, peaks, steady, begun>>

QueueEmpty ==
  /\ phase = "pop" /\ queue = <<>> /\ phase' = "done"
  /\ UNCHANGED <<kernel, scans, mode, walk, sums, peaks, steady, begun>>

(* max_with, after each sub-sample, and the walk's own state is gone;      *)
(* update_summary at the end of a tick.                                    *)
LastCount(n) == n
MaxWith(n) == Max2(tick, n)

SubSampled ==
  /\ phase = "done" /\ phase' = "idle" /\ tick' = MaxWith(Len(counted))
  /\ due' = [due EXCEPT !.now = Max2(@, Cardinality(steady))]
  /\ depth' = 1 /\ visited' = {} /\ pid' = TreePid
  /\ counted' = <<>> /\ detail' = <<>>
  /\ steady' = {} /\ begun' = [births |-> 0, ours |-> TRUE]
  /\ UNCHANGED <<kernel, scans, mode, queue, left, peak>>

EndTick ==
  /\ phase = "idle" /\ scans > 0
  /\ peak' = Max2(peak, tick) /\ tick' = 0
  /\ due' = [now |-> 0, before |-> Max2(due.now, due.before)]
  /\ UNCHANGED <<kernel, scans, mode, phase, walk, sums, steady, begun>>

Scan ==
  \/ Begin \/ ReadDir \/ Pop \/ ReadStat \/ ReadDetail \/ ReadChildren
  \/ (\E p \in left : ReadParent(p)) \/ AllParentsRead \/ QueueEmpty \/ SubSampled \/ EndTick
Kernel ==
  \/ \E p, q \in Pids, main \in BOOLEAN : Fork(p, q, main)
  \/ \E p \in Pids : Exit(p) \/ \E dir \in JobDirs : Move(p, dir)

Next == Scan \/ Kernel
Spec == Init /\ [][Next]_vars
-----------------------------------------------------------------------------
TypeOK ==
  /\ Alive \subseteq Pids /\ births \in 0..MaxBirths /\ events \in 0..MaxEvents
  /\ \A p \in Alive : table[p] \in Process /\ table[p].id \in 1..births
  /\ mode \in Modes /\ depth \in DOMAIN Chain /\ pid \in Pids
  /\ phase \in {"idle", "list", "pop", "stat", "detail", "children", "proc",
                "done"}
  /\ queue \in Seq(Pids) /\ visited \subseteq Pids /\ left \subseteq Pids
  /\ ours \subseteq 1..births /\ steady \subseteq 1..births

(* No scan counts a process twice, wherever it was moved to between two    *)
(* reads and however its parents come and go (the dedup of procs, the      *)
(* visited set of the walk).                                               *)
CountedOnce ==
  \A s \in {counted, detail} : \A i, j \in DOMAIN s : s[i] = s[j] => i = j

(* A process that was the job's all through a scan, and that nothing       *)
(* happened to, nor to those between it and --tree-pid, is counted,        *)
(* whatever ends or starts around it (accumulate_pid: "may have exited     *)
(* between being listed and being read").                                  *)
SteadyCounted == phase = "done" => steady \subseteq ToSet(counted)

(* Another job's process is counted only when it was born during the very  *)
(* scan, under a pid of ours that had just ended (procs: "It cannot pick   *)
(* up a neighbour's processes on a shared node").                          *)
ForeignOnlyByReuse ==
  begun.ours =>
    \A id \in ToSet(counted) \union ToSet(detail) : id \in ours \/ id > begun.births

(* A burst that one sub-sample saw is in the tick's figure and then in the *)
(* job's peak (sample_tick: "a burst of workers that exit before the tick  *)
(* ends still shows up").                                                  *)
PeakKeepsBursts == tick >= due.now /\ peak >= due.before
=============================================================================
