---------------------------- MODULE MCLoggerStart ----------------------------
(* Job 12 and a neighbour on one node, 77 or 123, whose id contains it. The *)
(* placements vary with everything about cgroups and nothing about the     *)
(* booking, and the other way round.                                       *)
EXTENDS LoggerStart

MCComponents == {"mnt", "pbs", "12.p", "123.p", "77.p", "slurm", "job_12",
                 "job_123", "job_77", "none", "step", "user", "session"}
MCJobs == {"12", "123", "77", "unknown"}
MCNumbered == {"12", "123", "77"}
MCNamedIn == [j \in MCJobs |->
  CASE j = "12"  -> {"12.p", "123.p", "job_12", "job_123"}
    [] j = "123" -> {"123.p", "job_123"}
    [] j = "77"  -> {"77.p", "job_77"}
    [] OTHER     -> {"none"}]
MCJobDir == [j \in MCJobs |->
  CASE j = "12" -> "job_12" [] j = "123" -> "job_123"
    [] j = "77" -> "job_77" [] OTHER -> "none"]
MCProcs == {"rank", "neighbour"}

(* Files of /proc/<pid>/cgroup.                                            *)
V1File(path, io) ==
  [v1 |-> [c \in Controllers |-> IF c = "blkio" THEN io ELSE path], v2 |-> NoPath]
V2File(path) == [v1 |-> [c \in Controllers |-> NoPath], v2 |-> path]
PbsDir(j) ==
  <<"pbs", CASE j = "12" -> "12.p" [] j = "123" -> "123.p" [] j = "77" -> "77.p">>
StepDir(j) == <<"slurm", MCJobDir[j], "step">>
Session == <<"user", "session">>

Sites == {"pbs", "slurm", "hybrid"}
Place(site, where) ==
  CASE where = "root"    -> Root
    [] where = "session" -> Session
    [] where = "service" -> <<"pbs">>
    [] where \in MCNumbered -> IF site = "slurm" THEN StepDir(where)
                                                 ELSE PbsDir(where)
FileAt(site, where) ==
  LET path == Place(site, where)
  IN  CASE site = "pbs"    -> V1File(path, IF where \in MCNumbered THEN <<"pbs">>
                                               ELSE path)
        [] site = "slurm"  -> V2File(path)
        [] site = "hybrid" -> [V1File(path, path) EXCEPT !.v2 = Root]
MCFiles == [at \in Sites \X ({"root", "session", "service"} \union MCNumbered) |->
              FileAt(at[1], at[2])]

AllPaths ==
  {Root, Session, <<"pbs">>, <<"slurm">>}
  \union {PbsDir(j) : j \in MCNumbered} \union {StepDir(j) : j \in MCNumbered}
  \union {<<"slurm", MCJobDir[j]>> : j \in MCNumbered}
JobPaths == {p \in AllPaths : NamesJob(p, "12") /\ ~NamesJob(p, "123")}

(* followed: whether the paths can be followed, as they cannot in a        *)
(* container; accounted: whether the CPU time can be read; written: whether*)
(* the I/O files have anything in them.                                    *)
HostOf(followed, accounted, written, limit) ==
  [listed |-> {}, unified |-> TRUE,
   v1 |-> [c \in Controllers |-> IF followed THEN AllPaths ELSE {}],
   v2 |-> [r \in {"cpu", "memory", "io", "cpuset"} |->
             IF r = "cpuset" THEN {} ELSE AllPaths],
   accounted |-> IF accounted THEN AllPaths ELSE {},
   ioWritten |-> IF written THEN AllPaths ELSE {}, qstat |-> written,
   limit |-> [p \in AllPaths |-> IF p \in JobPaths THEN limit ELSE 99],
   cpus |-> [p \in AllPaths |-> IF p \in JobPaths THEN {0} ELSE {0, 1}]]
HostNames == {"plain", "unlimited", "container", "silent", "quiet"}
MCHosts == [h \in HostNames |->
  HostOf(h # "container", h # "silent", h # "quiet",
         IF h = "unlimited" THEN 99 ELSE 8)]

BaseArgs ==
  [mode |-> "log", job |-> "12", project |-> Unset, walltime |-> Unset,
   mem |-> Unset, outfile |-> "log", interval |-> 5, gpuInterval |-> 50,
   treePid |-> 2, cgroup |-> Unset, procsFrom |-> "auto"]

StartOf(site, self, tree, other, h, out, a, e) ==
  [host |-> h, dir |-> out, args |-> a, env |-> e,
   filed |-> [p \in MCProcs \union {"logger", "tree"} |->
     <<site, CASE p = "logger" -> self [] p = "tree" -> tree
               [] p = "rank" -> "12" [] p = "neighbour" -> other>>],
   owner |-> [p \in MCProcs \union {"logger", "tree"} |->
     CASE p = "neighbour" -> other [] p = "rank" -> "12"
       [] p = "logger" -> IF self \in MCNumbered THEN self ELSE "nobody"
       [] p = "tree" -> IF tree \in MCNumbered THEN tree ELSE "nobody"]]

Placed ==
  {StartOf(site, self, tree, other, h, "absent",
           [BaseArgs EXCEPT !.mode = mode, !.procsFrom = from], <<"set", "pbs job">>) :
     site \in Sites, self \in {"12", "session", "service", "root"},
     tree \in {"12", "123", "root"}, other \in {"123", "77"}, h \in HostNames \ {"unlimited"},
     mode \in {"log", "check"}, from \in {"cgroup", "auto"}}

(* Arguments that are refused, outputs, an explicit directory, the modes.  *)
Asked ==
  {StartOf("pbs", "12", "12", "77", "plain", out, a, <<"set", "none">>) :
     out \in {"there", "absent", "barred"},
     a \in {[BaseArgs EXCEPT !.mode = m, !.outfile = o] :
              m \in {"log", "check", "manifest", "merge"}, o \in {"log", Unset}}
           \union {[BaseArgs EXCEPT !.interval = i, !.gpuInterval = g] :
              i \in {0, 5, 36001, Garbage}, g \in {4, 5, Garbage}}
           \union {[BaseArgs EXCEPT !.treePid = 0],
                   [BaseArgs EXCEPT !.procsFrom = "tree"],
                   [BaseArgs EXCEPT !.mode = "merge", !.job = Unset],
                   [BaseArgs EXCEPT !.job = Unset]}
           \union {[BaseArgs EXCEPT !.cgroup = d] :
              d \in {[version |-> V1, path |-> PbsDir("12")],
                     [version |-> V2, path |-> <<"slurm", "job_12">>],
                     [version |-> V2, path |-> <<"mnt">>]}}}

Times ==
  [days : {Unset, 0, 2},
   fields : {<<12>>, <<1, 30>>, <<1, 2, 3>>, <<1, 2, 3, 4>>, <<5000, 0, 0>>}]
With(e, name, value) ==
  [v \in DOMAIN e \union {name} |-> IF v = name THEN value ELSE e[v]]
NoEnv == [v \in {} |-> 0]
BaseEnv == With(NoEnv, "SLURM_JOB_ID", "12")
HourLimit == With(BaseEnv, "SLURM_TIMELIMIT", [days |-> Unset, fields |-> <<60>>])
OtherEnvs ==
  [name \in {"none", "pbs job", "pbs seconds", "pbs time", "ends", "ends early", "no start",
             "per node", "per cpu", "no cpus", "garbage", "pbs mem",
             "step"} |->
    CASE name = "none"        -> NoEnv
      [] name = "pbs job"     -> With(With(NoEnv, "PBS_JOBID", "12"),
                                      "PBS_RESOURCE_walltime", <<1, 0, 0>>)
      [] name = "pbs seconds" -> With(HourLimit, "PBS_WALLTIME", 3661)
      [] name = "pbs time"    -> With(HourLimit, "PBS_RESOURCE_walltime", <<2, 0, 0>>)
      [] name = "ends"        -> With(With(BaseEnv, "SLURM_JOB_START_TIME", 100),
                                      "SLURM_JOB_END_TIME", 7300)
      [] name = "ends early"  -> With(With(BaseEnv, "SLURM_JOB_START_TIME", 100),
                                      "SLURM_JOB_END_TIME", 100)
      [] name = "no start"    -> With(With(BaseEnv, "SLURM_JOB_START_TIME", 0),
                                      "SLURM_JOB_END_TIME", 7300)
      [] name = "per node"    -> With(With(BaseEnv, "SLURM_MEM_PER_NODE", 3),
                                      "SLURM_MEM_PER_CPU", 2)
      [] name = "per cpu"     -> With(With(BaseEnv, "SLURM_MEM_PER_CPU", 2),
                                      "SLURM_CPUS_ON_NODE", 4)
      [] name = "no cpus"     -> With(BaseEnv, "SLURM_MEM_PER_CPU", 2)
      [] name = "garbage"     -> With(With(BaseEnv, "SLURM_TIMELIMIT", Garbage),
                                      "SLURM_MEM_PER_NODE", Garbage)
      [] name = "pbs mem"     -> With(BaseEnv, "PBS_RESOURCE_mem",
                                      [n |-> 2, unit |-> 3])
      [] name = "step"        -> With(With(BaseEnv, "SLURM_CPUS_PER_TASK", 1),
                                      "LOGGER_RS_JOB_CPUS_PER_TASK", 4)]
MCEnvs ==
  [e \in ({"set"} \X DOMAIN OtherEnvs) \union ({"limit"} \X Times) |->
    IF e[1] = "limit" THEN With(BaseEnv, "SLURM_TIMELIMIT", e[2])
                      ELSE OtherEnvs[e[2]]]
Booked ==
  {StartOf("slurm", "12", "12", "77", h, "there",
           [BaseArgs EXCEPT !.job = Unset, !.walltime = w], e) :
     e \in DOMAIN MCEnvs, h \in {"plain", "unlimited"},
     w \in {Unset, <<0, 10, 0>>}}

AllStarts == Placed \union Asked \union Booked

(* These are sites where the theorems' conditions hold.                    *)
ASSUME SitesAssumption == 
  /\ NamedIsFollowed /\ NamedThroughout /\ HeldAlike
  /\ LedAlike /\ DelegatedAlike /\ TimesReadable
=============================================================================
