SPECIFICATION FairSpec
CONSTANTS
  FlushEvery = 2
  SummaryEvery = 3
  MaxErrors = 2
  Codes = {c0, c1}
  Cap = 4
INVARIANTS
  CheckpointBoundsLoss
  FlushBoundsLag
  NoticesFileInTime
  JobEndAgrees
  GivesUpOnlyOnARun
  ReturnLeavesFinal
PROPERTIES
  KeepsContract
  ObeysSignal
  SignalStops
  FileStops
