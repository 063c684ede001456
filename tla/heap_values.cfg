\* Strings of one and two nodes, lists and a variable; no definitions.  Memory
\* is collected only when it runs out.
CONSTANTS
  MEM_LOW = 6
  MaxIndex = 26
  MaxOps = 6
  Doublings = {1, 2, 4}
  Nums = {1}
  StrLens = {0, 1}
  NSyms = 1
  DefSyms = {}
  EmbedSyms = {}
  VarSyms = {1}
  Builtins = {"dup", "swap", "cons", "rotate", "over", "list", "unstack"}
SPECIFICATION HSpec
INVARIANTS WithinCapacity VariablesCollected
PROPERTIES ImplementsValueStack
CHECK_DEADLOCK FALSE
