SPECIFICATION Spec
CONSTANTS
  None = None
  Success = success
  Terminated = terminated
  Codes = {success, terminated}
  Hurried = {terminated}
  Nodes <- TwoNodes
  Local = 2
  WaitSecs = 3
  HurriedSecs = 2
  PollSecs = 1
  Faults = {"term"}
INVARIANT TermKeepsSummary
