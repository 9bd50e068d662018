----------------------------- MODULE JobBooking -----------------------------
(***************************************************************************)
(* What the environment says of the job and what it booked: scheduler.rs,  *)
(* and the parts of cli.rs that fill in the arguments.                     *)
(*                                                                         *)
(* env maps the names of the variables that are set to their values.  A    *)
(* time is the sequence of numbers between its colons; Slurm's may have    *)
(* days in front.  An amount of memory is a number and the power of 1024   *)
(* that is its unit.  Slurm's word for no limit, and what no parser reads, *)
(* is Garbage.                                                             *)
(*                                                                         *)
(* As in NodeLogger, an operator just before another one and used by no    *)
(* action is the wrong code the properties must notice.                    *)
(***************************************************************************)
EXTENDS Naturals, Sequences, SequencesExt, FiniteSets

CONSTANTS
  Width,    \* 2^64, where the sums of u64 wrap
  Kilo,     \* 1024
  Garbage,  \* a value that is set and means nothing
  Unset     \* an argument or a variable that is not there

ASSUME WidthAssumption == Width \in Nat \ {0} /\ Kilo \in Nat \ {0}
ASSUME UnsetAssumption ==
  \A v \in {Unset, Garbage} : v \notin Nat /\ v \notin Seq(Nat)

Get(env, name) == IF name \in DOMAIN env THEN env[name] ELSE Unset
Numeric(env, name) ==
  LET value == Get(env, name) IN IF value \in {Garbage, Unset} THEN Unset ELSE value
Given(value) == value # Unset
FirstGiven(options) ==
  LET i == SelectInSeq(options, Given) IN IF i = 0 THEN Unset ELSE options[i]
-----------------------------------------------------------------------------
(* parse_slurm_time: without days one number is minutes and two end in     *)
(* seconds; with them the first is always hours.                           *)
NoDays == Unset
Fields(spec) ==
  LET f == spec.fields
  IN  CASE Given(spec.days) /\ Len(f) = 1  -> <<f[1], 0, 0>>
        [] Given(spec.days) /\ Len(f) = 2  -> <<f[1], f[2], 0>>
        [] ~Given(spec.days) /\ Len(f) = 1 -> <<0, f[1], 0>>
        [] ~Given(spec.days) /\ Len(f) = 2 -> <<0, f[1], f[2]>>
        [] Len(f) = 3                      -> f

DaysByValue(spec) ==
  IF spec = Garbage \/ Len(spec.fields) \notin 1..3 THEN Unset
  ELSE LET days == IF Given(spec.days) THEN spec.days ELSE 0
           hms == Fields([spec EXCEPT !.days = IF days > 0 THEN days ELSE Unset])
       IN  (days * 86400 + hms[1] * 3600 + hms[2] * 60 + hms[3]) % Width
ParseSlurmTime(spec) ==
  IF spec = Garbage \/ Len(spec.fields) \notin 1..3 THEN Unset
  ELSE LET days == IF Given(spec.days) THEN spec.days ELSE 0
           hms == Fields(spec)
       IN  (days * 86400 + hms[1] * 3600 + hms[2] * 60 + hms[3]) % Width

(* format_hms of both files, and parse_hms_to_seconds, which reads fewer   *)
(* fields from the right.                                                  *)
Hms(seconds) ==
  <<seconds \div 3600, (seconds % 3600) \div 60, seconds % 60>>
HmsToSeconds(fields) ==
  IF fields \in {Garbage, Unset} \/ Len(fields) \notin 1..3 THEN 0
  ELSE FoldLeft(LAMBDA total, n : (total * 60 + n) % Width, 0, fields)

SlurmWalltime(env) ==
  LET limit == Get(env, "SLURM_TIMELIMIT")
      start == Numeric(env, "SLURM_JOB_START_TIME")
      end == Numeric(env, "SLURM_JOB_END_TIME")
      seconds == FirstGiven(
        <<IF Given(limit) THEN ParseSlurmTime(limit) ELSE Unset,
          IF Given(start) /\ Given(end) /\ 0 < start /\ start < end
            THEN end - start ELSE Unset>>)
  IN  IF Given(seconds) THEN Hms(seconds) ELSE Unset

(* slurm_booked_mem_from: megabytes of this node, by the node or by its    *)
(* CPUs; without their number nothing.                                     *)
SlurmBookedMem(env) ==
  LET perNode == Numeric(env, "SLURM_MEM_PER_NODE")
      perCpu == Numeric(env, "SLURM_MEM_PER_CPU")
      cpus == FirstGiven(<<Numeric(env, "SLURM_CPUS_ON_NODE"),
                           Numeric(env, "SLURM_JOB_CPUS_PER_NODE")>>)
  IN  CASE Given(perNode) /\ perNode > 0 -> [n |-> perNode, unit |-> 2]
        [] Given(perCpu) /\ Given(cpus) /\ ~(Given(perNode) /\ perNode > 0) ->
             IF perCpu * cpus = 0 THEN Unset
             ELSE [n |-> perCpu * cpus, unit |-> 2]
        [] OTHER -> Unset

(* parse_mem_to_bytes; a unit it does not know is one byte.                *)
MemToBytes(amount) ==
  IF amount \in {Garbage, Unset} THEN 0 ELSE amount.n * Kilo ^ amount.unit
-----------------------------------------------------------------------------
(* resolve_pbs_defaults, then resolve_slurm_defaults: each only where the  *)
(* value is still missing.  An argument that PBS's own variables give      *)
(* through clap is one that was given.  The queue and the job's name go    *)
(* the way of the project, with Slurm's variable only.                     *)
PbsWalltime(args, env) ==
  LET seconds == Numeric(env, "PBS_WALLTIME")
  IN  FirstGiven(<<args.walltime,
                   IF Given(seconds) THEN Hms(seconds) ELSE Unset,
                   Get(env, "PBS_RESOURCE_walltime")>>)

ResolvePbsDefaults(args, env) ==
  [args EXCEPT
     !.walltime = PbsWalltime(args, env),
     !.mem = FirstGiven(<<@, Get(env, "PBS_RESOURCE_mem")>>),
     !.project = FirstGiven(<<@, Get(env, "PBS_O_PROJECT"),
                              Get(env, "PROJECT"), Get(env, "PBS_ACCOUNT")>>)]

SlurmJobId(env) ==
  FirstGiven(<<Get(env, "SLURM_JOB_ID"), Get(env, "SLURM_JOBID")>>)

ResolveSlurmDefaults(args, env) ==
  [args EXCEPT
     !.job = FirstGiven(<<@, SlurmJobId(env)>>),
     !.project = FirstGiven(<<@, Get(env, "SLURM_JOB_ACCOUNT")>>),
     !.walltime = FirstGiven(<<@, SlurmWalltime(env)>>),
     !.mem = FirstGiven(<<@, SlurmBookedMem(env)>>)]

(* scheduler_metadata_from: Slurm's numbers over those of PBS, and the     *)
(* batch job's CPUs per task over the step's.                              *)
SchedulerMetadata(env) ==
  [nodes |-> FirstGiven(<<Numeric(env, "SLURM_JOB_NUM_NODES"),
                          Numeric(env, "SLURM_NNODES"),
                          Numeric(env, "PBS_NUM_NODES"),
                          Numeric(env, "PBS_NNODES")>>),
   tasks |-> Numeric(env, "SLURM_NTASKS_PER_NODE"),
   cpus |-> FirstGiven(<<Numeric(env, "LOGGER_RS_JOB_CPUS_PER_TASK"),
                         Numeric(env, "SLURM_CPUS_PER_TASK")>>)]

(* resolve_booked_mem: the limit of the chosen cgroup, then the argument.  *)
(* limit is 0 when there is none.                                          *)
ResolveBookedMem(args, limit) ==
  LET fromArgs == MemToBytes(args.mem)
  IN  CASE limit > 0 ->
             [bytes |-> limit, source |-> "cgroup-limit", perNode |-> TRUE]
        [] limit = 0 /\ fromArgs > 0 ->
             [bytes |-> fromArgs, source |-> "pbs-env", perNode |-> FALSE]
        [] OTHER -> [bytes |-> 0, source |-> "unknown", perNode |-> FALSE]
=============================================================================
