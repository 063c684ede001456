\* Names defined by DEFINE, by joy_eval_string and by assign together.
CONSTANTS
  MEM_LOW = 5
  MaxIndex = 26
  MaxOps = 6
  Doublings = {1, 2, 4}
  Nums = {1}
  StrLens = {}
  NSyms = 3
  DefSyms = {2}
  EmbedSyms = {3}
  VarSyms = {1}
  Builtins = {"dup", "pop", "gc"}
SPECIFICATION Spec
INVARIANT DefinitionsClosed
PROPERTIES DefinitionsPermanent
CHECK_DEADLOCK FALSE
