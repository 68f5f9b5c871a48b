SPECIFICATION Spec
CONSTANTS
  Text <- TwoRows
  Ops = {"type", "enter", "backspace", "delete", "cut", "move", "undo", "redo"}
  AgentEdits <- NoProposals
  MaxEdits = 3
  MaxUndo = 2
INVARIANTS InText RedoReapplies HistoryBounded
CHECK_DEADLOCK FALSE
