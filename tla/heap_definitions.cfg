\* Stack builtins, collections and definitions; neither strings nor variables.
CONSTANTS
  MEM_LOW = 6
  MaxIndex = 26
  MaxOps = 5
  Doublings = {1, 2, 4}
  Nums = {1, 2}
  StrLens = {}
  NSyms = 1
  DefSyms = {1}
  EmbedSyms = {}
  VarSyms = {}
  Builtins = {"dup", "pop", "swap", "cons", "uncons", "stack", "list", "gc"}
SPECIFICATION HSpec
INVARIANTS TypeOK RefsLive BodiesAreDefinitions
PROPERTIES ImplementsValueStack
CHECK_DEADLOCK FALSE
