\* Refuted: a file named with its directory is looked for without it.
CONSTANTS
  Paths <- MCNestedPaths
  Stats <- MCStats
  Volatile <- MCNone
  MaxChanges = 0
  Root <- MCNestedRoot
  MaxTargets = 2
  MaxEvents = 2
SPECIFICATION Spec
INVARIANT PrintsFullPath
CHECK_DEADLOCK FALSE
