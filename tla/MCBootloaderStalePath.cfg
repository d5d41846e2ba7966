SPECIFICATION Spec
CONSTANTS
  corrupt = corrupt
  good = good
  empty = empty
  Images <- MCImages
  Len <- MCLen
  MaxLen = 2
  GoodVector <- MCGoodVector
  NoFile = NoFile
  EmptyFile = EmptyFile
  Unchecked = Unchecked
  MaxFaults = 1
  MaxLosses = 1
PROPERTY ServerImageAccepted
CHECK_DEADLOCK FALSE
