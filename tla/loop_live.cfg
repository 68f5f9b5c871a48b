SPECIFICATION FairSpec
CONSTANTS
  p1 = p1 p2 = p2 p3 = p3
  Prompts = {p1, p2}
  SystemPrompts = {p1, p2}
  Notices = {n1}
  InitTx = InitTx ResetTx = ResetTx ClearTx = ClearTx NoTx = NoTx
  FreshTx <- MCFreshTx
  Subagent = FALSE
  ExitOnIdle = FALSE
  CanWait = TRUE
  Ending = "none"
  MayClear = FALSE
  Awaited = TRUE
PROPERTIES EveryMessageShown QueueSpec WaiterReturns
CHECK_DEADLOCK FALSE
