---------------------------- MODULE LoggerStart ----------------------------
(***************************************************************************)
(* The start of logger-rs on one node: main.rs, resolve_and_validate of    *)
(* cli.rs, TelemetryLogger::new of logger.rs, and the preflight of         *)
(* check.rs, which is to say beforehand what the start will come to.  What *)
(* the steps compute is in CgroupChoice and JobBooking.                    *)
(*                                                                         *)
(* While the logger starts, the processes of the node come to their ends.  *)
(* Between a check and the run that is submitted after it nothing else     *)
(* changes, and the run has the arguments of the check.                    *)
(*                                                                         *)
(* As in NodeLogger, an operator just before another one and used by no    *)
(* action is the wrong code the properties must notice.                    *)
(***************************************************************************)
EXTENDS CgroupChoice, JobBooking

CONSTANTS
  Procs0,   \* processes other than the logger, the one of --tree-pid among
  Logger, TreeRoot,  \* the logger itself, and the process of --tree-pid
  Hosts, Files, Envs,  \* hosts, cgroup files and environments, by name
  Starts    \* what a start may find: see Init

Processes == Procs0 \union {Logger, TreeRoot}

(* The options of Args; a time limit is a list of numbers, maybe after     *)
(* days.                                                                   *)
Options == {"mode", "job", "project", "walltime", "mem", "outfile", "interval",
            "gpuInterval", "treePid", "cgroup", "procsFrom"}

ASSUME UnknownAssumption == "unknown" \in Jobs
ASSUME FilesAssumption == \A f \in DOMAIN Files : Files[f] \in CgroupFile
ASSUME StartsAssumption ==
  \A s \in Starts :
    /\ s.env \in DOMAIN Envs /\ \A p \in Processes : s.filed[p] \in DOMAIN Files
    /\ DOMAIN s.args = Options
    /\ s.args.mode \in {"check", "manifest", "merge", "log"}
    /\ s.args.procsFrom \in {"auto", "cgroup", "tree"}
    /\ s.args.job \in Jobs \union {Unset}
ASSUME JobIdsAssumption ==
  \A e \in DOMAIN Envs : SlurmJobId(Envs[e]) \in Jobs \union {Unset}
ASSUME LimitsAssumption ==
  \A e \in DOMAIN Envs :
    LET limit == Get(Envs[e], "SLURM_TIMELIMIT")
    IN  limit \notin {Unset, Garbage} =>
          limit.fields \in Seq(Nat) /\ limit.days \in Nat \union {Unset}

VARIABLES
  start,   \* the host, the file and the job of each process, the environment,
           \* the output directory, and the arguments as they were given
  live,    \* the processes that have not ended
  args,    \* the arguments as they stand
  phase,   \* how far main has come
  dir,     \* the output directory: there, absent, or barred to the job
  cg,      \* the cgroup the logger took
  cpus,    \* allowed_cpus
  opts,    \* what the process scan has to collect itself
  source,  \* where the processes are listed
  booked,  \* booked_mem_*
  alloc,   \* num_nodes, tasks_per_node, cpus_per_task
  verdict, \* what the preflight said
  seen     \* history: the processes whose cgroup file discovery read

found == <<cg, cpus, opts, source, booked, alloc>>
vars == <<start, live, args, phase, dir, found, verdict, seen>>

Ended == {"running", "failed", "manifest", "merge"}

Init ==
  /\ start \in Starts /\ live = Processes /\ args = start.args
  /\ phase = "parsed" /\ dir = start.dir
  /\ cg = NoCgroup /\ cpus = {} /\ source = "none" /\ seen = {}
  /\ opts = [collectIo |-> TRUE, collectSwap |-> TRUE]
  /\ booked = [bytes |-> 0, source |-> "unknown", perNode |-> FALSE]
  /\ alloc = [nodes |-> Unset, tasks |-> Unset, cpus |-> Unset]
  /\ verdict = "none"

host == Hosts[start.host]
env == Envs[start.env]
File(p) == Files[start.filed[p]]
Filed == [p \in live |-> File(p)]
Reached(p) == phase' = p
-----------------------------------------------------------------------------
(* resolve_and_validate.                                                   *)
Resolve ==
  /\ phase = "parsed" /\ Reached("resolved")
  /\ args' = ResolveSlurmDefaults(ResolvePbsDefaults(args, env), env)
  /\ UNCHANGED <<start, live, dir, found, verdict, seen>>

(* The three modes that do not sample are exempt from what follows them;   *)
(* an interval is in tenths of a second, Garbage when it is not finite.    *)
IntervalsValid ==
  /\ args.interval # Garbage /\ args.interval \in 1..36000
  /\ args.gpuInterval # Garbage /\ args.gpuInterval >= args.interval
SamplingArgsValid == Given(args.outfile) /\ IntervalsValid /\ args.treePid > 0
Valid ==
  CASE args.mode = "check"    -> TRUE
    [] args.mode = "manifest" -> Given(args.outfile)
    [] args.mode = "merge"    -> Given(args.job)
    [] args.mode = "log"      -> SamplingArgsValid

Refuse ==
  /\ phase = "resolved" /\ ~Valid /\ Reached("failed")
  /\ UNCHANGED <<start, live, args, dir, found, verdict, seen>>

Dispatch ==
  /\ phase = "resolved" /\ Valid /\ Reached(args.mode)
  /\ UNCHANGED <<start, live, args, dir, found, verdict, seen>>

(* get_job_id, for which "unknown" is a job id as good as another.         *)
GetJobId == IF Given(args.job) THEN args.job ELSE "unknown"
-----------------------------------------------------------------------------
(* check::run.  It looks for its own cgroup, with its own pid for both     *)
(* candidates and whatever --cgroup says, and tries the output directory.  *)
Checked == Discover(host, <<File(Logger), File(Logger)>>, GetJobId)
OutputUsable == ~Given(args.outfile) \/ dir # "barred"

CheckSeesCgroup == Checked # NoCgroup /\ OutputUsable
CheckPasses ==
  /\ Checked # NoCgroup /\ ~IsRoot(Checked)
  /\ ReadCpuUsage(host, Checked)
  /\ OutputUsable

(* check_booked_walltime: outside PBS, Slurm's variables; otherwise one of *)
(* those of PBS, or qstat.                                                 *)
WalltimeKnown ==
  CASE ~Given(Get(env, "PBS_JOBID")) /\ Given(Get(env, "SLURM_JOB_ID")) ->
         Given(SlurmWalltime(env))
    [] OTHER ->
         \/ {"PBS_RESOURCE_LIST_walltime", "PBS_WALLTIME",
             "PBS_RESOURCE_walltime"} \cap DOMAIN env # {}
         \/ host.qstat \/ ~Given(Get(env, "PBS_JOBID"))

(* What each part of the report warns of, once none has failed.            *)
IoAssumed ==
  /\ Given(FirstGiven(<<Get(env, "PBS_JOBID"), Get(env, "SLURM_JOB_ID")>>))
  /\ WalltimeKnown /\ Given(args.outfile)
  /\ Checked.version = V1 /\ ReadMemory(Checked) /\ Known(Checked.io)
NoWarnings ==
  /\ Given(FirstGiven(<<Get(env, "PBS_JOBID"), Get(env, "SLURM_JOB_ID")>>))
  /\ WalltimeKnown /\ Given(args.outfile)
  /\ Checked.version = V1 /\ ReadMemory(Checked) /\ ReadIo(host, Checked)

Preflight ==
  /\ phase = "check" /\ Reached("checked")
  /\ verdict' = IF ~CheckPasses THEN "not ready"
                ELSE IF NoWarnings THEN "everything" ELSE "warned"
  /\ dir' = IF Given(args.outfile) /\ dir = "absent" THEN "there" ELSE dir
  /\ UNCHANGED <<start, live, args, found, seen>>

(* The user submits the job that was checked.                              *)
Submit ==
  /\ phase = "checked" /\ Reached("parsed")
  /\ args' = [start.args EXCEPT !.mode = "log"]
  /\ UNCHANGED <<start, live, dir, found, verdict, seen>>
-----------------------------------------------------------------------------
(* TelemetryLogger::new, in its order.                                     *)
OpenOutput ==
  /\ phase = "log"
  /\ IF dir = "barred" THEN Reached("failed") /\ dir' = dir
                       ELSE Reached("opened") /\ dir' = "there"
  /\ UNCHANGED <<start, live, args, found, verdict, seen>>

CandidatesOf(readable) ==
  (IF Logger \in readable THEN <<Logger>> ELSE <<>>)
    \o (IF TreeRoot \in readable THEN <<TreeRoot>> ELSE <<>>)

FindCgroup ==
  /\ phase = "opened"
  /\ LET candidates == CandidatesOf(live)
     IN  /\ seen' = ToSet(candidates)
         /\ cg' = IF Given(args.cgroup)
                    THEN FromExplicitPath(host, args.cgroup)
                    ELSE Discover(host, [i \in DOMAIN candidates |->
                                           File(candidates[i])], GetJobId)
  /\ Reached(IF cg' = NoCgroup THEN "failed" ELSE "located")
  /\ UNCHANGED <<start, live, args, dir, cpus, opts, source, booked, alloc,
                 verdict>>

(* allowed_cpus asks about the process of --tree-pid.                      *)
MeasureOwn ==
  /\ phase = "located" /\ Reached("measured")
  /\ cpus' = AllowedCpus(host, cg, File(Logger))
  /\ opts' = [collectIo |-> ~ReadIo(host, cg), collectSwap |-> ~ReadMemory(cg)]
  /\ UNCHANGED <<start, live, args, dir, cg, source, booked, alloc, verdict,
                 seen>>
Measure ==
  /\ phase = "located" /\ Reached("measured")
  /\ cpus' = AllowedCpus(host, cg, IF TreeRoot \in live THEN File(TreeRoot)
                                                        ELSE NoPath)
  /\ opts' = [collectIo |-> ~ReadIo(host, cg), collectSwap |-> ~ReadMemory(cg)]
  /\ UNCHANGED <<start, live, args, dir, cg, source, booked, alloc, verdict,
                 seen>>

ChooseProcs ==
  /\ phase = "measured"
  /\ LET canList == Procs(cg, Filed) # {}
     IN  /\ source' = CASE args.procsFrom = "tree"  -> "process-tree"
                        [] args.procsFrom # "tree" /\ canList -> "cgroup.procs"
                        [] args.procsFrom = "auto" /\ ~canList -> "process-tree"
                        [] OTHER -> "none"
         /\ Reached(IF source' = "none" THEN "failed" ELSE "chosen")
  /\ UNCHANGED <<start, live, args, dir, cg, cpus, opts, booked, alloc, verdict,
                 seen>>

Book ==
  /\ phase = "chosen" /\ Reached("running")
  /\ booked' = ResolveBookedMem(args, MemoryLimit(host, cg))
  /\ alloc' = [nodes |-> FirstGiven(<<SchedulerMetadata(env).nodes, 1>>),
               tasks |-> FirstGiven(<<SchedulerMetadata(env).tasks, 1>>),
               cpus |-> FirstGiven(<<SchedulerMetadata(env).cpus,
                                     Cardinality(cpus)>>)]
  /\ UNCHANGED <<start, live, args, dir, cg, cpus, opts, source, verdict, seen>>

Main ==
  \/ Resolve \/ Refuse \/ Dispatch \/ Preflight
  \/ OpenOutput \/ FindCgroup \/ Measure \/ ChooseProcs \/ Book

Exits(p) ==
  /\ p \in live \ {Logger} /\ phase \notin Ended
  /\ live' = live \ {p}
  /\ UNCHANGED <<start, args, phase, dir, found, verdict, seen>>

Terminated == phase \in Ended /\ UNCHANGED vars

Next == Main \/ Submit \/ (\E p \in Processes : Exits(p)) \/ Terminated

Spec == Init /\ [][Next]_vars
-----------------------------------------------------------------------------
TypeOK ==
  /\ live \subseteq Processes /\ seen \subseteq Processes
  /\ phase \in {"parsed", "resolved", "check", "checked", "log", "opened",
                "located", "measured", "chosen"} \union Ended
  /\ dir \in {"there", "absent", "barred"}
  /\ verdict \in {"none", "everything", "warned", "not ready"}
  /\ source \in {"none", "cgroup.procs", "process-tree"}
  /\ cpus \subseteq Cpus /\ opts \in [{"collectIo", "collectSwap"} -> BOOLEAN]
  /\ phase \in {"measured", "chosen", "running"} =>
       cpus # {} /\ cg.version \in {V1, V2}
  /\ phase \in {"chosen", "running"} => source # "none"
  /\ phase = "running" => \A field \in DOMAIN alloc : alloc[field] \in Nat \ {0}

(* Where a process is accounted for by the hierarchy of each reading.      *)
PlaceIn(reading, p) ==
  IF cg.version = V2 THEN File(p).v2
  ELSE File(p).v1[CASE reading = "cpu" -> "cpuacct" [] reading = "io" -> "blkio"
                    [] OTHER -> reading]
Discovered == cg # NoCgroup /\ ~Given(args.cgroup)
NamesInFull(p) ==
  \E path \in {RepresentativeRelPath(File(p))} : NamesJob(path, GetJobId)
(* A process of the job was asked whose path names it, and the names of    *)
(* other processes' paths do not contain the job's.                        *)
NamesTell ==
  /\ \E p \in seen : start.owner[p] = GetJobId /\ NamesInFull(p)
  /\ \A p \in Processes : start.owner[p] # GetJobId => ~NamesInFull(p)

(* Where names tell, no directory the logger reads covers a process of     *)
(* another job: not its CPU time, not the memory and I/O that are the      *)
(* PBS daemon's on a site that delegates less, and its processes are not   *)
(* listed (discover, discover_v1, discover_v2_at_root, procs: "It cannot   *)
(* pick up a neighbour's processes on a shared node").                     *)
NoNeighbourMeasured ==
  Discovered /\ NamesTell /\ ~IsRoot(cg) =>
    \A p \in Processes : start.owner[p] \in Jobs \ {GetJobId} =>
      /\ \A reading \in {"cpu", "memory", "io"} :
           LET place == PlaceIn(reading, p)
           IN  Known(cg[reading]) /\ Known(place) => ~Within(place, cg[reading])
      /\ p \notin Procs(cg, Filed)

(* The whole node is taken for the job only when no file that was read     *)
(* leads to anything smaller (discover: "root means the whole node, which  *)
(* is never the answer for a job").  A file may lead elsewhere than to the *)
(* path it is judged by, when only its v2 line can be followed: of those   *)
(* that agree with themselves.                                             *)
RootOnlyAsLastResort ==
  LET Leads(p) == FromCgroupFile(host, File(p), GetJobId)
      Agrees(p) ==
        Leads(p) # NoCgroup =>
          (IsRoot(Leads(p)) <=> RepresentativeRelPath(File(p)) = Root)
  IN  Discovered /\ IsRoot(cg) /\ (\A p \in seen : Agrees(p)) =>
        \A p \in seen : Leads(p) # NoCgroup => IsRoot(Leads(p))

(* What the preflight calls ready does start, with the arguments of a run, *)
(* in a cgroup that is not the whole node and whose CPU time can be read   *)
(* (check.rs: "will this actually collect anything if I submit the job?"). *)
(* Only a run that takes its processes from a cgroup it is not in itself   *)
(* may find them gone.                                                     *)
ReadyMeansItCollects ==
  verdict \in {"everything", "warned"} /\ start.args.cgroup = Unset =>
    /\ phase = "failed" /\ SamplingArgsValid =>
         args.procsFrom = "cgroup" /\ cg # NoCgroup
           /\ Logger \notin Procs(cg, Filed)
    /\ phase = "running" => ~IsRoot(cg) /\ ReadCpuUsage(host, cg)

(* A preflight without a warning promises a run that falls back on nothing *)
(* (check::run: "Everything this can measure is available here"): memory   *)
(* and I/O from the cgroup, CPU time per core, and a booked time, unless   *)
(* the shell is to ask qstat for it.  It is meant "to be run inside a      *)
(* short interactive job"; outside, it looks at another cgroup than a run  *)
(* that can follow --tree-pid.                                             *)
EverythingMeansNoFallback ==
  /\ verdict = "everything" /\ start.args.cgroup = Unset
  /\ start.owner[Logger] = GetJobId
  /\ phase = "running"
  => /\ ~opts.collectIo /\ ~opts.collectSwap /\ cg.version = V1
     /\ Given(args.walltime) \/ host.qstat

(* The preflight keeps both its words (check.rs: the check is worth asking *)
(* only if the run that follows meets what it said).                       *)
CheckIsHonest == ReadyMeansItCollects /\ EverythingMeansNoFallback

(* allowed_cpus, wherever the logger itself was started: with the job's    *)
(* root process alive and held to the job's CPUs, those are the ones       *)
(* (cgroup.rs: reading /proc/self would be "exactly the mismatch").        *)
CpusAreTheJobs ==
  LET own == AffinityOf(host, File(TreeRoot))
  IN  /\ phase \in {"measured", "chosen", "running"} /\ TreeRoot \in live
      /\ Discovered /\ NamesTell /\ start.owner[TreeRoot] = GetJobId
      => cpus = own

(* What is so on a site where the names and the files of the processes can *)
(* be relied upon.  A process is judged by one path and its files lead     *)
(* somewhere by another, so that the first says something of the second    *)
(* only if:                                                                *)
LeadsAt(s, p, j) == FromCgroupFile(Hosts[s.host], Files[s.filed[p]], j)
JudgedBy(s, p) == RepresentativeRelPath(Files[s.filed[p]])

(* where anything can be followed, so can a file that names the job;       *)
NamedIsFollowed ==
  \A s \in Starts, j \in Jobs, p, q \in Processes :
    NamesJob(JudgedBy(s, p), j) /\ LeadsAt(s, q, j) # NoCgroup =>
      LeadsAt(s, p, j) # NoCgroup

(* a job is named nowhere in a file that is judged by another path, and    *)
(* the unified path of one that is judged by its name has it or is the     *)
(* root;                                                                   *)
NamedThroughout ==
  \A s \in Starts, j \in Jobs, p \in Processes :
    LET file == Files[s.filed[p]]
        Named(path) == Known(path) /\ NamesJob(path, j)
    IN  /\ Named(file.v2) \/ (\E c \in Controllers : Named(file.v1[c])) =>
             NamesJob(JudgedBy(s, p), j)
        /\ NamesJob(JudgedBy(s, p), j) => file.v2 \in {NoPath, Root} \/ Named(file.v2)

(* the processes of a job are held to the same CPUs, and so are the        *)
(* directories their files lead to.                                        *)
HeldAlike ==
  \A s \in Starts, j \in Jobs, p, q \in Processes :
    LET own == AffinityOf(Hosts[s.host], Files[s.filed[p]])
        cgroup == LeadsAt(s, p, j)
    IN  s.owner[p] = j /\ s.owner[q] = j =>
          /\ own # {} /\ own = AffinityOf(Hosts[s.host], Files[s.filed[q]])
          /\ cgroup # NoCgroup /\ Known(cgroup.cpuset) =>
               Hosts[s.host].cpus[cgroup.cpuset] = own

(* Between a check, which knows one file, and the run, which may take      *)
(* another's: nothing that is judged to lead below the root leads to it,   *)
(* the CPU time can be read wherever it can somewhere;                     *)
LedAlike ==
  \A s \in Starts, j \in Jobs, p, q \in Processes :
    LET cgroup == LeadsAt(s, p, j)
        other == LeadsAt(s, q, j)
    IN  /\ cgroup # NoCgroup /\ ~IsRoot(cgroup)
        /\ other # NoCgroup
        => /\ JudgedBy(s, p) # Root
           /\ JudgedBy(s, q) # Root =>
                /\ ~IsRoot(other)
                /\ ReadCpuUsage(Hosts[s.host], cgroup) =>
                     ReadCpuUsage(Hosts[s.host], other)

(* what has been delegated to a process of the job is to every process     *)
(* that is as much of the job by its path;                                 *)
DelegatedAlike ==
  \A s \in Starts, j \in Jobs, p, q \in Processes :
    LET cgroup == LeadsAt(s, p, j)
        other == LeadsAt(s, q, j)
    IN  /\ s.owner[p] = j /\ cgroup # NoCgroup /\ ~IsRoot(cgroup)
        /\ other # NoCgroup /\ Bucket(JudgedBy(s, q), j) <= Bucket(JudgedBy(s, p), j)
        => /\ other.version = cgroup.version
           /\ ReadMemory(cgroup) => ReadMemory(other)
           /\ ReadIo(Hosts[s.host], cgroup) => ReadIo(Hosts[s.host], other)

(* and the variables in which PBS gives a time have one (the first is the  *)
(* argument's own).                                                        *)
TimesReadable ==
  \A s \in Starts :
    LET e == Envs[s.env]
    IN  /\ "PBS_RESOURCE_LIST_walltime" \in DOMAIN e => Given(s.args.walltime)
        /\ "PBS_WALLTIME" \in DOMAIN e => Numeric(e, "PBS_WALLTIME") \in Nat
        /\ "PBS_RESOURCE_walltime" \in DOMAIN e =>
             Given(Get(e, "PBS_RESOURCE_walltime"))

(* What Slurm means by a time: with days, hours come first; without, three *)
(* numbers end in seconds, as two do, and one is minutes.                  *)
SlurmSeconds(spec) ==
  LET f == spec.fields
      Padded == IF Given(spec.days) THEN f \o <<0, 0>>
                ELSE IF Len(f) = 1 THEN <<0>> \o f \o <<0>>
                ELSE IF Len(f) = 2 THEN <<0>> \o f ELSE f
      days == IF Given(spec.days) THEN spec.days ELSE 0
  IN  ((days * 24 + Padded[1]) * 60 + Padded[2]) * 60 + Padded[3]

(* A Slurm time limit that nothing overrides is booked to the second,      *)
(* through the text it is carried in, unless it passes the width of a u64  *)
(* (parse_slurm_time: "every walltime-efficiency figure wrong by 60x").    *)
SlurmLimitIsBooked ==
  LET limit == Get(env, "SLURM_TIMELIMIT")
  IN  /\ phase = "running" /\ limit \notin {Unset, Garbage}
      /\ ~Given(start.args.walltime)
      /\ {"PBS_WALLTIME", "PBS_RESOURCE_walltime"} \cap DOMAIN env = {}
      /\ Len(limit.fields) \in 1..3 /\ SlurmSeconds(limit) < Width
      => HmsToSeconds(args.walltime) = SlurmSeconds(limit)

(* A node's booking is told apart from a whole job's, which a merge must   *)
(* not add up: Slurm's two figures are the node's (scheduler.rs: a per-CPU *)
(* figure "only becomes a per-node figure once multiplied").               *)
BookingScopeIsTold ==
  phase = "running" /\ ~Given(start.args.mem)
    /\ booked.bytes > 0 /\ booked.bytes = MemToBytes(SlurmBookedMem(env))
  => booked.perNode
=============================================================================
