\* Refuted: service_deinit prints the slot after the last.
CONSTANTS
  Files <- MCThreeFiles
  Slots = 4
  SpinMs = 1
  TimeMod = 4
  MaxElapsed = 2
  MaxLag = 0
  MaxSteps = 0
SPECIFICATION Spec
INVARIANT AssertionsHold
CHECK_DEADLOCK FALSE
