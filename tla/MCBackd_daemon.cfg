\* The daemon from its start to its end.  It stops at a signal.
CONSTANTS
  Paths <- MCPaths
  Stats <- MCStats
  Volatile <- MCVolatile
  MaxChanges = 1
  Root <- MCRoot
  MaxTargets = 5
  MaxEvents = 2
  Files <- MCFiles
  Slots = 4
  SpinMs = 1
  TimeMod = 2
  MaxElapsed = 1
  MaxLag = 0
  MaxSteps = 0
SPECIFICATION MCSpec
PROPERTY SignalReleases
INVARIANTS BackdTypeOK EventChain ObservesItsFile OneOwner AllReleased RoundLooksOnce
CHECK_DEADLOCK FALSE
