SPECIFICATION MultiSpec
CONSTANTS
  Text <- ShortWords
  Marked <- WordOrNone
  Ops = {"multi", "type", "backspace", "delete", "left", "right", "line"}
  AgentEdits <- NoProposals
  MaxEdits = 3
  MaxUndo = 2
  MaxChosen = 1
INVARIANT MultiUndo
PROPERTIES MultiAtOnce SelectsAlike
CHECK_DEADLOCK FALSE
