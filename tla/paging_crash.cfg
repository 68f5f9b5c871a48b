SPECIFICATION CrashingSpec
CONSTANTS
  MaxSaid = 3
  MaxEpisodes = 3
  MaxShifts = 1
  Levels = {1}
PROPERTY ArchivesKept
CHECK_DEADLOCK FALSE
