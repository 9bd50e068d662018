SPECIFICATION SpecMerge
CONSTANTS
  None = None
  Success = ok
  Codes = {ok, failed, killed}
  Hosts = {"a", "b"}
  MaxU64 = 3
  Usages = {0, 2}
  MaxNodes = 4
  LastName = 4
  MergedName = 1
  Conventional = {2, 3}
  ThisJob = "this"
  ThisHost = "a"
  Templates <- OutputTemplates
  Written <- Bodies
  OldManifests <- Beforehand
  MaxPublished = 1
INVARIANTS
  WorstOutcome
  PeaksBracket
  CompleteHostsAreFinal
  OnlyThisJobOnce
  NothingReadableIgnored
