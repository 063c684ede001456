SPECIFICATION FairSpec
CONSTANTS
  Chunks <- Builtins
  MaxChunks = 1
  MaxSteps = 80
  Prelude <- NoPrelude
  LateDefinitions = FALSE
  Autoput = FALSE
  Frontends <- MCFrontends
INVARIANTS
  TypeOK
  RefsLive
  DumpsEmpty
  ResultsCorrect
PROPERTIES
  Terminates
CHECK_DEADLOCK FALSE
