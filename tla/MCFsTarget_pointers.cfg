\* Refuted: the directory that cannot be opened is freed and kept.
CONSTANTS
  Paths <- MCPaths
  Stats <- MCStats
  Volatile <- MCNone
  MaxChanges = 0
  Root <- MCRoot
  MaxTargets = 4
SPECIFICATION CreateSpec
INVARIANT PointersAreTargets
CHECK_DEADLOCK FALSE
