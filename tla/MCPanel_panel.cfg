CONSTANTS
  a = a
  b = b
  NoEntry = NoEntry
  Entries = {a}
  Pair = {a, b}
  PairCan <- NoneStops
  GpuChanges = 3
  HyprOptions = {"gaps"}
  HyprValues = {1, 2}
  Addresses = {"a", "b"}
  HyprChanges = 2
  Expressions = {"x", "y"}
  Evaluations = 4
  Volumes <- SomeVolumes
  Slaves <- SomeSlaves
  DiskOf <- SomeDisks
  PoolOf <- SomePools
  DiskRank <- NamesOrder
  MaxScans = 3
  DiskChanges = 2
  Interfaces = {"eth", "wlan"}
  MaxBytes = 3
  NetChanges = 4
  Can <- OneCard
  Answers = {"running", "stopped", "unknown"}
  MaxLater = 1
SPECIFICATION PanelFairSpec
CHECK_DEADLOCK FALSE
INVARIANTS BusyIsAccounted CardsRunOneCommand
INVARIANTS MonitorsAreRight AnswersAreCurrent
PROPERTIES SpinnersStop CurrentStateStays AdaptersAnswerOnce
