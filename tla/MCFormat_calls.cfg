\* Two calls; then the caller stops.
CONSTANTS
  Calls <- MCCalls
  DstSizes = {0, 1, 2, 3, 5}
  IobufMax = 5
  IntMax = 127
  Printable <- MCPrintable
  Junk = "?"
  MaxCalls = 2
SPECIFICATION Spec
INVARIANTS FormatTypeOK WritesWhatFits EndsWithNUL
CHECK_DEADLOCK FALSE
