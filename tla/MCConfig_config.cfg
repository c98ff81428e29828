CONSTANTS
  d0 = d0
  d1 = d1
  d1b = d1b
  d2 = d2
  darr = darr
  t0 = t0
  t1 = t1
  t2 = t2
  t1q = t1q
  NoDoc = NoDoc
  EmptyDoc = d0
  Docs <- MCDocs
  Rejected <- MCRejected
  Trees <- MCTrees
  Parse <- MCParse
  Strip <- MCStrip
  Serialise <- MCSerialise
  MaxRetries = 3
  SaveOutcomes = {"ok", "open", "commit"}
  AllowDelete = FALSE
  MaxWrites = 2
  MaxEdits = 2
SPECIFICATION ConfigFairSpec
CHECK_DEADLOCK FALSE
INVARIANTS NoForgottenWrite NoStaleSave TextsAreRight ParserIsTheGrammar
PROPERTIES Reconciles PartialWritesAreSilent BrokenIsReported
