SPECIFICATION FairSpec
CONSTANTS
  corrupt = corrupt
  good = good
  empty = empty
  Images <- MCImages
  Len <- MCLen
  MaxLen = 2
  GoodVector <- MCGoodVector
  NoFile = NoFile
  EmptyFile = EmptyFile
  Unchecked = Unchecked
  MaxFaults = 1
  MaxLosses = 1
INVARIANTS
  TypeOK
  CompleteIsExact
  NoPartialRun
PROPERTIES
  FlagIsCommitPoint
  StagedUpdateCompletes
CHECK_DEADLOCK FALSE
