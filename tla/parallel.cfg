\* pmap, pfilter, preduce and pfork under every schedule of three workers
SPECIFICATION FairSpec
CONSTANTS
  Workers = {w1, w2, w3}
  Members <- MCMembers
  Quots <- MCQuots
  Requests <- PassingCalls
  Exec <- MCExec
  TypeOf <- MCTypeOf
  Operands <- MCOperands
  Zero <- MCZero
  Failed = Failed
  Garbage = Garbage
  NegativeZero = NegativeZero
  ASet = ASet
  AText = AText
  Defined = {}
INVARIANTS TypeOK ClonesReleased OneWorkerPerTask OutcomeAsPromised MapAsPromised
PROPERTIES ParentWaits CallEnds
CHECK_DEADLOCK FALSE
