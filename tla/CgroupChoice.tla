---------------------------- MODULE CgroupChoice ----------------------------
(***************************************************************************)
(* Which cgroup the logger takes for the job's, and what it reads there:   *)
(* the functions of cgroup.rs.  A path is the sequence of its components   *)
(* below the mount of its hierarchy, so that the root is the empty one.    *)
(*                                                                         *)
(* A file is the body of a /proc/<pid>/cgroup: a path per v1 controller    *)
(* and the path in the unified hierarchy, NoPath where it has no line.  A  *)
(* host is what the kernel shows: the controllers the mount table lists,   *)
(* whether cgroup2 is mounted, the paths at which each hierarchy has its   *)
(* accounting file, and what the files say.                                *)
(*                                                                         *)
(* As in NodeLogger, an operator just before another one and used by no    *)
(* action is the wrong code the properties must notice.                    *)
(***************************************************************************)
EXTENDS Naturals, Sequences, SequencesExt, FiniteSets

CONSTANTS
  Components,  \* the names of directories in the hierarchies
  Mount,       \* one of them: what an absolute path has before the others
  Jobs,        \* job ids
  Numbered,    \* those that begin with digits
  NamedIn,     \* per job, the components in whose name its key occurs
  JobDir,      \* per job, the component job_<key>
  Cpus,        \* the CPUs of the node
  Implausible, \* 1 PiB: a limit no machine can have
  NoPath, NoCgroup

ASSUME MountAssumption == Mount \in Components
ASSUME JobsAssumption ==
  /\ Numbered \subseteq Jobs
  /\ NamedIn \in [Jobs -> SUBSET Components]
  /\ JobDir \in [Jobs -> Components]
  /\ \A j \in Jobs : JobDir[j] \in NamedIn[j]

Root == <<>>
V1 == "cgroup-v1"
V2 == "cgroup-v2"
Controllers == {"cpuacct", "cpu", "memory", "blkio", "cpuset"}
Paths == Seq(Components)
CgroupFile ==
  [v1 : [Controllers -> Paths \union {NoPath}], v2 : Paths \union {NoPath}]
ASSUME NoPathAssumption == NoPath \notin Paths \union CgroupFile

(* The chains of or_else: the first option that passes, or else the last   *)
(* resort.                                                                 *)
FirstOf(options, Passes(_), otherwise) ==
  LET i == SelectInSeq(options, Passes)
  IN  IF i = 0 THEN otherwise ELSE options[i]

Known(path) == path # NoPath
Within(path, dir) == IsPrefix(dir, path)
-----------------------------------------------------------------------------
(* The hierarchies: cgroup_v1_mounts takes the conventional mount points,  *)
(* which know no cpu controller, when the table lists none;                *)
(* probe_at_exact_path looks nowhere but at the path itself.               *)
CgroupV1Mounts(host) ==
  IF host.listed # {} THEN host.listed ELSE Controllers \ {"cpu"}

ResolveV1Controller(host, controller, rel) ==
  controller \in CgroupV1Mounts(host) /\ rel \in host.v1[controller]

(* Equal to the job's path or below it, and never the root.                *)
ScopedWithoutRoot(path, job) ==
  path # Root /\ job # Root /\ (Within(path, job) \/ Within(job, path))
ControllerIsJobScoped(path, job) ==
  path # Root /\ job # Root /\ Within(path, job)

DiscoverV1(host, file) ==
  LET job == file.v1["cpuacct"]
      ControllerPath(name) ==
        IF /\ Known(file.v1[name])
           /\ ControllerIsJobScoped(file.v1[name], job)
           /\ ResolveV1Controller(host, name, file.v1[name])
          THEN file.v1[name] ELSE NoPath
  IN  IF Known(job) /\ ResolveV1Controller(host, "cpuacct", job)
        THEN [version |-> V1, rel |-> job, cpu |-> job,
              memory |-> ControllerPath("memory"),
              io |-> ControllerPath("blkio"),
              cpuset |-> ControllerPath("cpuset")]
        ELSE NoCgroup

(* Up to the component that is exactly job_<key>, and no further.          *)
EnclosingService(rel, job) ==
  LET i == SelectInSeq(rel, LAMBDA c : job \in Numbered /\ c = JobDir[job])
  IN  IF i = 0 THEN rel ELSE SubSeq(rel, 1, i - 1)
SlurmJobRootRel(rel, job) ==
  LET i == SelectInSeq(rel, LAMBDA c : job \in Numbered /\ c = JobDir[job])
  IN  IF i = 0 THEN rel ELSE SubSeq(rel, 1, i)

DiscoverV2(host, rel, job) ==
  LET dir == SlurmJobRootRel(rel, job)
      Here(probe) == IF dir \in host.v2[probe] THEN dir ELSE NoPath
  IN  IF host.unified /\ dir \in host.v2["cpu"]
        THEN [version |-> V2, rel |-> dir, cpu |-> dir,
              memory |-> Here("memory"), io |-> Here("io"),
              cpuset |-> Here("cpuset")]
        ELSE NoCgroup

FromCgroupFile(host, file, job) ==
  LET v1 == DiscoverV1(host, file)
  IN  IF v1 = NoCgroup /\ Known(file.v2)
        THEN DiscoverV2(host, file.v2, job) ELSE v1
-----------------------------------------------------------------------------
(* rank_candidates: a candidate is judged by one path, whichever one its   *)
(* cgroup turns out to have.  The root comes last, a path with the job's   *)
(* key anywhere in it first, then the deeper, then the earlier one.        *)
RepresentativeRelPath(file) ==
  FirstOf(<<file.v1["cpuacct"], file.v1["cpu"], file.v2>>, Known, Root)

NamesJob(path, job) == \E i \in DOMAIN path : path[i] \in NamedIn[job]

Bucket(path, job) ==
  CASE path = Root -> 2
    [] path # Root /\ NamesJob(path, job) -> 0
    [] OTHER -> 1

InFileOrder(files, job) == [i \in DOMAIN files |-> i]
RankCandidates(files, job) ==
  LET Path(i) == RepresentativeRelPath(files[i])
      InBucket(i) == Bucket(Path(i), job)
      Before(i, j) ==
        \/ InBucket(i) < InBucket(j)
        \/ /\ InBucket(i) = InBucket(j)
           /\ \/ Len(Path(i)) > Len(Path(j))
              \/ Len(Path(i)) = Len(Path(j)) /\ i < j
  IN  CHOOSE ranked \in [DOMAIN files -> DOMAIN files] :
        \A i, j \in DOMAIN files : i < j => Before(ranked[i], ranked[j])

(* Cgroup::discover, over the files that could be read.                    *)
Discover(host, files, job) ==
  LET ranked == RankCandidates(files, job)
      found == [i \in DOMAIN ranked |->
                  FromCgroupFile(host, files[ranked[i]], job)]
  IN  FirstOf(found, LAMBDA cg : cg # NoCgroup, NoCgroup)

(* Cgroup::from_explicit_path: a directory of the v1 cpuacct hierarchy,    *)
(* where no other controller has its files, or of the unified one.  Its    *)
(* rel_path is the absolute path, which is never that of the root.         *)
FromExplicitPath(host, dir) ==
  LET Here(probe) ==
        IF dir.version = V2 /\ dir.path \in host.v2[probe]
          THEN dir.path ELSE NoPath
  IN  IF \/ dir.version = V1 /\ dir.path \in host.v1["cpuacct"]
         \/ dir.version = V2 /\ dir.path \in host.v2["cpu"]
        THEN [version |-> dir.version, rel |-> <<Mount>> \o dir.path,
              cpu |-> dir.path, memory |-> Here("memory"),
              io |-> Here("io"), cpuset |-> Here("cpuset")]
        ELSE NoCgroup

IsRoot(cg) == cg.rel = Root
-----------------------------------------------------------------------------
(* What is read there.  The kernel's files are the host's; a reading is    *)
(* missing when its controller has no directory, and an I/O file that says *)
(* nothing is no reading of zero.                                          *)
ReadCpuUsage(host, cg) == cg.cpu \in host.accounted
ReadMemory(cg) == Known(cg.memory)
ReadIo(host, cg) == Known(cg.io) /\ cg.io \in host.ioWritten

(* parse_mem_limit: what v2 writes as max is a number past every machine's *)
(* memory here too.                                                        *)
MemoryLimit(host, cg) ==
  IF ReadMemory(cg) /\ host.limit[cg.memory] < Implausible
    THEN host.limit[cg.memory] ELSE 0

(* Cgroup::procs: the processes in the directory and in those below it, to *)
(* MAX_DEPTH; the root cgroup lists none.  Here filed maps the live        *)
(* processes to their files.                                               *)
MaxDepth == 8
ListedFrom(cg, filed) ==
  LET Place(p) == IF cg.version = V1 THEN filed[p].v1["cpuacct"]
                                     ELSE filed[p].v2
  IN  {p \in DOMAIN filed : /\ Known(Place(p)) /\ Within(Place(p), cg.cpu)
                            /\ Len(Place(p)) <= Len(cg.cpu) + MaxDepth}
Procs(cg, filed) == IF IsRoot(cg) THEN {} ELSE ListedFrom(cg, filed)

(* allowed_cpus: the cpuset directory, then three ways of asking about one *)
(* process (its v1 cpuset, its status, its affinity), then every CPU of    *)
(* the node.  NoPath stands for a process that is gone.                    *)
AffinityOf(host, file) ==
  host.cpus[IF Known(file.v1["cpuset"]) THEN file.v1["cpuset"]
            ELSE IF Known(file.v2) THEN file.v2 ELSE Root]
CpusetOf(host, file) ==
  LET rel == file.v1["cpuset"]
  IN  IF Known(rel) /\ rel # Root /\ rel \in host.v1["cpuset"]
        THEN host.cpus[rel] ELSE {}
NoLastResort(host, cg, file) ==
  IF Known(cg.cpuset) THEN host.cpus[cg.cpuset]
  ELSE IF file = NoPath THEN {} ELSE AffinityOf(host, file)
AllowedCpus(host, cg, file) ==
  FirstOf(<<IF Known(cg.cpuset) THEN host.cpus[cg.cpuset] ELSE {},
            IF file = NoPath THEN {} ELSE CpusetOf(host, file),
            IF file = NoPath THEN {} ELSE AffinityOf(host, file)>>,
          LAMBDA cpus : cpus # {}, Cpus)
=============================================================================
