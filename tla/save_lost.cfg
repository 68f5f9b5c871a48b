SPECIFICATION FileSpec
CONSTANTS
  Toolers = {"agent"}
  MaxText = 4
  MaxSaves = 4
PROPERTY ReloadKeepsEdits
CHECK_DEADLOCK FALSE
