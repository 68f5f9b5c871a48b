SPECIFICATION Spec
CONSTANTS
  Text <- BlankRow
  Ops = {"type", "enter", "paste", "replace", "backspace", "delete", "cut", "line", "copy", "block", "format", "agent", "mark", "move"}
  AgentEdits <- Proposals
  MaxEdits = 1
  MaxUndo = 3
PROPERTIES StaysInText MarkersFollow BlockKeepsText
VIEW WithoutHistory
CHECK_DEADLOCK FALSE
