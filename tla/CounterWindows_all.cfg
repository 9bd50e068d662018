SPECIFICATION Spec
CONSTANTS
  Cpus = {0, 1}
  Unread = Unread
  MaxTime = 4
  MaxTraffic = 2
INVARIANTS
  CpuChargedOnce
  PeakWithinMachine
  BreakdownAddsUp
  NetChargedOnce
