\* Two processes, keys and values; three releases of which two need another
\* operating system. A device whose BASEDIR was lost between the two moves stops.
SPECIFICATION MCSpec
CONSTANTS
  a = a
  b = b
  Procs = {a, b}
  Nobody = nobody
  Keys = {k1, k2}
  Values = {v1, v2}
  Absent = absent
  Torn = torn
  ClearKeys = {k1, k2}
  Releases = {1, 2, 3}
  Os <- MCOs
  TestedBranch = FALSE
INVARIANTS ReturnedIsDurable SnapshotConsistent SwappableBoots LocalWorkKept
PROPERTIES ImplementsMap UpdateArrives
CHECK_DEADLOCK FALSE
