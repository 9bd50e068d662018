SPECIFICATION Spec
CONSTANTS
  Pids = {1, 2, 3, 4}
  TreePid = 1
  Chain <- JobChain
  Elsewhere = "other"
  First <- AtStart
  MaxBirths = 4
  MaxEvents = 2
  MaxScans = 2
  MaxDepth = 1
INVARIANTS
  CountedOnce
  SteadyCounted
  ForeignOnlyByReuse
  PeakKeepsBursts
CHECK_DEADLOCK FALSE
