\* Small enough for the shortest way to a definition that is reopened.
CONSTANTS
  Procs = {p1, p2}
  Files = {f1, f2}
  Names = {1, 2}
  Bodies = {prog, num}
  Literals = {num}
  Snapshots = {s1, s2}
  Absent = Absent
  Undefined = Undefined
  Stale = Stale
  NoFile = NoFile
  MaxCalls = 4
  MaxFailures = 1
SPECIFICATION Spec
INVARIANT DefinitionsSurvive
CHECK_DEADLOCK FALSE
