CONSTANTS
  Refs = {r1, r2}
  Providers = {cava, beat}
  NoService = NoService
  MaxPosted = 2
  Readers = {"cava"}
  Capacity = 3
  Chunks = {1, 2}
  MaxSamples = 6
  MaxReads = 2
  MaxTurns = 5
  Tracks = {"t1", "t2"}
  LyricChanges = 3
  MaxTries <- FewTries
  ErrorTries = 2
  MaxEvents = 4
  Rows = {"r1", "r2", "r3"}
  Heights = {0, 12}
  Fallback = 12
  Spacing = 2
  Viewports <- TopAndMiddle
  Cull = TRUE
  Creates = 1
  Destroys = 1
  ReadyDelay = TRUE
  MaxRows = 2
  RowChanges = 2
SPECIFICATION DeskFairSpec
CHECK_DEADLOCK FALSE
INVARIANTS RefsFollowUsers
INVARIANTS RecordingIsTrue LyricsAreRight ViewFollowsRows LockTellsTries
PROPERTIES StopReturns LoadingEnds ViewSettles
