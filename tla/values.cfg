\* Every builtin of aggregates, vectors, matrices and dictionaries on small literals.
SPECIFICATION Spec
CONSTANTS
  SETSIZE = 4
  INT_BITS = 4
  CHAR_BITS = 3
  TYPES_SIZE = 2
  NODE_SIZE = 4
  Subjects <- MCSubjects
  Builtins <- MCBuiltins
  InitialStacks <- MCStacks
  Literals <- MCLiterals
  MaxOps <- MCMaxOps
  MaxStack = 4
PROPERTIES
  AggregatesUniform
  LinearAlgebraRight
  DictionariesAreValues
CHECK_DEADLOCK FALSE
