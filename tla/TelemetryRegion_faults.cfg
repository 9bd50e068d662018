SPECIFICATION FairSpec
CONSTANTS
  None = None
  Success = success
  Terminated = terminated
  Codes = {success, failed, terminated}
  Hurried = {terminated}
  Nodes <- TwoNodes
  Local = 2
  WaitSecs = 3
  HurriedSecs = 2
  PollSecs = 9
  Faults = {"start", "late", "launch", "launcher", "crash", "giveup", "disk", "term", "kill"}
INVARIANT NeverWaitsInVain
PROPERTIES
  LoggersKeepContract
  
  StopGoesForward
  StopReturns
