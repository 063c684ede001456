\* pmap inside pmap: a task that calls a user defined symbol
SPECIFICATION FairSpec
CONSTANTS
  Workers = {w1, w2}
  Members <- MCMembers
  Quots <- MCQuots
  Requests <- NestedCalls
  Exec <- MCExec
  TypeOf <- MCTypeOf
  Operands <- MCOperands
  Zero <- MCZero
  Failed = Failed
  Garbage = Garbage
  NegativeZero = NegativeZero
  ASet = ASet
  AText = AText
  Defined = {"square"}
INVARIANTS BodiesResolved
CHECK_DEADLOCK FALSE
