CONSTANTS
  Paths = {p1, p2}
  Contents = {c1, c2, c3}
  Broken = {c3}
  Shapes = {small}
  Original = Original
  Requests = {r1, r2}
  None = None
  MaxEdits = 2
  Sources = {"f", "g"}
  Unreadable = {"g"}
  Items = {"i", "j"}
  Sizes = {1, 2}
  MaxColourChanges = 4
  ListValues = {"v1", "v2"}
  NoValue = "none"
  ElementDefault = "v1"
  DefaultList <- OneElement
  Docs <- TwoFiles
  ListIds = {1, 2, 3, 4}
  MaxLen = 2
  MaxListChanges = 4
  AppIds = {1, 2}
  AppRank <- SecondFirst
  AppCopies = {1, 2}
  Databases = {"f", "g"}
  Locked = {"g"}
  Memory = "m"
  MaxStarts = 2
  MaxAppChanges = 4
  SomeToasts = {"a", "b"}
  Screens = {"s", "u"}
  MaxShows = 4
  Samples = {1, 2, 3}
  Capacities = {0, 1, 2, 3}
  MaxSpan = 4
  MaxBars = 3
  Levels = {0, 9, 18}
  RepeaterRows = {a, b, c}
  MaxRepeaterRows = 3
  MaxRepeaterItems = 7
  MaxRepeats = 4
  Animates = TRUE
  FileNumbers <- SomeNumbers
  IntMax = 2
  Texts = {"a", "on", "ON"}
  EnumKeys <- OnAndOff
  MaxUnion = 2
  MaxSteps = 2
  Attachables = {o1, o2, o3}
  MaxAttachments = 7
  Folders = {"a", "sub"}
  LooseFiles = {"a1", "a2", "s1"}
  FolderOf <- TreeParent
  NameRank <- TreeRank
  DotFolders = {}
  FileFilters <- ImagesOrAll
  FileTrees <- FullOrNot
  MaxDirScans = 3
  MaxFileEdits = 2
  MaxDirChanges = 3
SPECIFICATION DataSpec
CHECK_DEADLOCK FALSE
INVARIANTS CacheIsTrue OneJobPerEntry
INVARIANTS ResultIsCurrent RowsFollowTheDisk ListsFollowOrDetach RestartShowsTheLists
INVARIANTS CodecsAgree ScreensFollow
INVARIANTS AppsAreRight SamplesAreTheLatest ToastsAreAccounted RepeaterMirrorsModel
