SPECIFICATION Spec
CONSTANTS
  p1 = p1 p2 = p2 p3 = p3
  Prompts = {p1, p2}
  SystemPrompts = {p2}
  Notices = {}
  InitTx = InitTx ResetTx = ResetTx ClearTx = ClearTx NoTx = NoTx
  FreshTx <- MCFreshTx
  Subagent = TRUE
  ExitOnIdle = FALSE
  CanWait = TRUE
  Ending = "none"
  MayClear = TRUE
  Awaited = FALSE
INVARIANTS TypeOK IdleMeansDrained OnlyTheWindowStrands
CHECK_DEADLOCK FALSE
