\* Two names, at most two frames and three values.
SPECIFICATION Spec
CONSTANTS
  SETSIZE = 4
  INT_BITS = 4
  CHAR_BITS = 3
  Names <- MCNames
  Values <- MCValues
  Literals <- MCLiterals
  NameLists <- MCNameLists
  Quotations <- MCQuotations
  CaseLists <- MCCaseLists
  MAX_BINDINGS = 2
  MaxStack = 2
  MaxFrames = 2
INVARIANTS
  InnermostBinding
CHECK_DEADLOCK FALSE
