\* Other processes change the tree twice during the call.
CONSTANTS
  Paths <- MCPaths
  Stats <- MCStats
  Volatile <- MCSome
  MaxChanges = 2
  Root <- MCRoot
  MaxTargets = 4
SPECIFICATION FairCreateSpec
INVARIANTS FsTargetTypeOK EventsFollowInit SnapshotIsTree SnapshotComplete
PROPERTY SnapshotEnds
CHECK_DEADLOCK FALSE
