\* A directory with two entries that other processes change twice.  The
\* daemon stops where fs_target_create returned NULL.
CONSTANTS
  Paths <- MCPaths
  Stats <- MCStats
  Volatile <- MCFiles
  MaxChanges = 3
  Root <- MCRoot
  MaxTargets = 3
  MaxEvents = 3
SPECIFICATION FairSpec
INVARIANTS RoutineTypeOK EventChain
PROPERTIES LogsGrow EveryChangeRecorded WatchesTree
CHECK_DEADLOCK FALSE
