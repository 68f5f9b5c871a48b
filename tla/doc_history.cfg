SPECIFICATION Spec
CONSTANTS
  Text <- TwoRows
  Ops = {"type", "enter", "paste", "replace", "backspace", "delete", "line", "copy", "format", "agent", "mark", "undo"}
  AgentEdits <- FewProposals
  MaxEdits = 3
  MaxUndo = 2
INVARIANT UndoTakesBack
PROPERTY UndoSteps
CHECK_DEADLOCK FALSE
