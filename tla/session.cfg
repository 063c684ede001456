\* Two processes, two files, failing statements and crashes.
CONSTANTS
  Procs = {p1, p2}
  Files = {f1, f2}
  Names = {1, 2}
  Bodies = {prog, num}
  Literals = {num}
  Snapshots = {s1, s2}
  Absent = Absent
  Undefined = Undefined
  Stale = Stale
  NoFile = NoFile
  MaxCalls = 6
  MaxFailures = 1
SPECIFICATION Spec
INVARIANTS TypeOK MemoryAgrees
PROPERTIES RowsKept SnapshotsKept SnapshotsExact MergeComplete
SYMMETRY Symmetry
CHECK_DEADLOCK FALSE
