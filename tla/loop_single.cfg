SPECIFICATION Spec
CONSTANTS
  p1 = p1 p2 = p2 p3 = p3
  Prompts = {p1, p2, p3}
  SystemPrompts = {p3}
  Notices = {}
  InitTx = InitTx ResetTx = ResetTx ClearTx = ClearTx NoTx = NoTx
  FreshTx <- MCFreshTx
  Subagent = TRUE
  ExitOnIdle = TRUE
  CanWait = FALSE
  Ending = "kill"
  MayClear = FALSE
  Awaited = FALSE
INVARIANT AtMostOneWorker
PROPERTY LoopsOnlyForMessages
CHECK_DEADLOCK FALSE
