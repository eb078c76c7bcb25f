\* Two files, created or skipped; the wait, with a clock that wraps and is set
\* twice.  The program stops.
CONSTANTS
  Files <- MCTwoFiles
  Slots = 3
  SpinMs = 2
  TimeMod = 11
  MaxElapsed = 6
  MaxLag = 1
  MaxSteps = 2
SPECIFICATION FairSpec
INVARIANTS PromptStop ServiceTypeOK SlotsAgree FreedOnce
PROPERTIES RoundSpacing SignalStops RoundsGoOn
CHECK_DEADLOCK FALSE
