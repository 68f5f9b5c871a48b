SPECIFICATION ServicesSpec
CONSTANTS
  Paths = {"a", "c"}
  Readers = {r1, r2}
  r1 = r1 r2 = r2
  FileSize <- SizeOf
  MaxBytes = 2
  MaxEntries = 2
  Window = 1
  MaxWrites = 2
  MaxReads = 2
  Files = {"f"}
  QueueLimit = 2
  MaxChanges = 3
  MaxRequests = 3
  Queriers = {"q"}
  MaxTexts = 2
  MaxActions = 3
  MaxQueries = 1
  MaxCrashes = 1
  Agents = {"a1"}
  MaxToggles = 2
  MaxSent = 4
  MaxDeaths = 1
  Toolers = {}
  MaxText = 4
  MaxSaves = 4
  Nibbles = {0, 1}
  Loaded <- OneByte
  MaxKeys = 2
  MaxSize = 2
  MaxSaid = 3
  MaxEpisodes = 3
  MaxShifts = 1
  Levels = {1}
  Chunk = 1
  PipeSize = 3
  MaxOutput = 4
  CallsFail = TRUE
  Tasks = {"t1", "t2"}
  Clients = {"c1"}
  ReviewText <- TwoLines
  MaxComments = 2
  MaxChanged = 2
INVARIANTS FreshFiles PrefetchNotLost ServerFollows AnswersOwn ExitLeavesNothing UndoesToLoaded
  NothingSaidLost ResultsKept GroupsWhole HintOwed OutputWhole AnswerHolds CommentFollows
PROPERTIES StatusFollows PrefetchUnblocks ShutdownReturns ReloadKeepsEdits ArchivesKept
CHECK_DEADLOCK FALSE
