SPECIFICATION RunSpec
CONSTANTS
  Chunk = 1
  PipeSize = 3
  MaxOutput = 2
  CallsFail = FALSE
PROPERTY StopHeeded
CHECK_DEADLOCK FALSE
