CONSTANTS
  Files <- MCFiles
  Nested <- MCNested
  MaxRequest = 1
  MaxText = 2
  MaxImage = 1
  MaxFiles = 2
  MaxTotal = 2
  MaxNames = 4
  MaxWrites = 2
  MaxEdits = 1
  MaxLosses = 1
  MaxReads = 1
SPECIFICATION ReadingSpec
CHECK_DEADLOCK FALSE
INVARIANTS Survives ResultTrue ReadWhole
PROPERTY Unclobbered
