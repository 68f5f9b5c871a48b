SPECIFICATION FairTreeSpec
CONSTANTS
  r = r a = a b = b c = c
  Agents = {r, a, b, c}
  Root = r
  MaxCalls = 5
  MaxSent = 1
  Granted <- SomeTools
INVARIANT OnlyLateSpawnsEscape
PROPERTIES WaitersReturn CompletionsHeard
CHECK_DEADLOCK FALSE
