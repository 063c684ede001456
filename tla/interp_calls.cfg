SPECIFICATION Spec
CONSTANTS
  Chunks <- Programs
  MaxChunks = 3
  MaxSteps = 20
  Prelude <- Calls
  LateDefinitions = TRUE
  Autoput = TRUE
  Frontends <- Repl
INVARIANTS
  ValuesOnly
  ErrorsExpected
  ContsMatch
  DefinitionsIntact
CHECK_DEADLOCK FALSE
