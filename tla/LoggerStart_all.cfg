SPECIFICATION Spec
CONSTANTS
  Components <- MCComponents
  Mount = "mnt"
  Jobs <- MCJobs
  Numbered <- MCNumbered
  NamedIn <- MCNamedIn
  JobDir <- MCJobDir
  Cpus = {0, 1}
  Implausible = 50
  NoPath = NoPath
  NoCgroup = NoCgroup
  Width = 1000000
  Kilo = 4
  Garbage = Garbage
  Unset = Unset
  Procs0 <- MCProcs
  Logger = "logger"
  TreeRoot = "tree"
  Hosts <- MCHosts
  Files <- MCFiles
  Envs <- MCEnvs
  Starts <- AllStarts
INVARIANTS
  NoNeighbourMeasured
  RootOnlyAsLastResort
  
  CpusAreTheJobs
  SlurmLimitIsBooked
