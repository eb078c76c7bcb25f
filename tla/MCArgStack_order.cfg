\* Command lines and cron strings.  The program exits, or main hangs.
CONSTANTS
  Value <- MCValue
  FieldMin <- MCFieldMin
  FieldMax <- MCFieldMax
  FieldSize <- MCFieldSize
  Byte = 16
  Names <- MCNames
  Empty = ""
  Number <- MCNumber
  IntMax = 7
  FileStackSize = 4
  Inputs <- MCInputs
SPECIFICATION FairSpec
INVARIANTS ArgStackTypeOK FilesInOrder OptionsAsGiven MeansWhatItSays
PROPERTY MainGoesOn
CHECK_DEADLOCK FALSE
