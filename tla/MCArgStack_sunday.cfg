\* Refuted: a 7 is cut to 6 before it could mean Sunday.
CONSTANTS
  Value <- MCValue
  FieldMin <- MCFieldMin
  FieldMax <- MCFieldMax
  FieldSize <- MCFieldSize
  Byte = 16
  Names <- MCNames
  Empty = ""
  Number <- MCNumber
  IntMax = 7
  FileStackSize = 4
  Inputs <- MCDayInputs
SPECIFICATION Spec
INVARIANT SundayIsSeven
CHECK_DEADLOCK FALSE
