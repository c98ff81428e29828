CONSTANTS
  a = a
  b = b
  NoEntry = NoEntry
  Entries = {a, b}
  Can <- BothStop
  Answers = {"running", "stopped"}
  MaxLater = 1
SPECIFICATION FairSpec
CHECK_DEADLOCK FALSE
PROPERTY SpinnersStop
