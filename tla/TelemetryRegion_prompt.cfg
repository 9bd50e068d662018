SPECIFICATION FairSpec
CONSTANTS
  None = None
  Success = success
  Terminated = terminated
  Codes = {success, failed, terminated}
  Hurried = {terminated}
  Nodes <- ThreeNodes
  Local = 2
  WaitSecs = 3
  HurriedSecs = 2
  PollSecs = 1
  Faults = {"giveup"}
INVARIANT WaitIsEnough
PROPERTY LoggersStop
