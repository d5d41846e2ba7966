SPECIFICATION FairSpec
CONSTANTS
  N = 6
  Watermark = 3
  MaxBytes = 7
  MaxErrors = 1
  MaxFlushes = 1
INVARIANTS
  TypeOK
  TakenInOrder
PROPERTIES
  OffIsFlagged
  DeafnessEnds
CHECK_DEADLOCK FALSE
