SPECIFICATION Spec
CONSTANTS
  Elements = {x, y}
  Zero = zero
  Junk = junk
  EltSize = 3
  Word = 4
  InitialSize = 2
  SizeTypeMax = 12
  MaxLen = 3
  MaxSrc = 2
CHECK_DEADLOCK FALSE
INVARIANTS ArrayTypeOK SizeWithinCapacity BorrowedBufferKept
PROPERTIES KeepsPromise SettledStaysPut
