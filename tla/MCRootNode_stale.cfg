CONSTANTS
  d0 = d0
  d1 = d1
  d1b = d1b
  d2 = d2
  darr = darr
  t0 = t0
  t1 = t1
  t2 = t2
  t1q = t1q
  NoDoc = NoDoc
  EmptyDoc = d0
  Docs <- MCDocs
  Rejected <- MCRejected
  Trees <- MCTrees
  Parse <- MCParse
  Strip <- MCStrip
  Serialise <- MCSerialise
  MaxRetries = 3
  SaveOutcomes = {"ok"}
  AllowDelete = TRUE
  MaxWrites = 2
  MaxEdits = 2
SPECIFICATION Spec
CHECK_DEADLOCK FALSE
INVARIANT NoStaleSave
