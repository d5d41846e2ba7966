SPECIFICATION FairSpec
CONSTANTS
  POV_ARM_COUNT = 3
  IMAGE_COUNT = 3
  Kinds = {"image", "file", "firmware"}
  Controls <- MCControls
  FirstSeq = 65534
  MaxJobs = 2
  MaxTroubles = 2
  NoMsg = NoMsg
INVARIANTS
  TypeOK
  CommittedFromTheEnd
  ArmsAgree
PROPERTIES
  AcceptedMeansDone
  UndisturbedSucceeds
  
CHECK_DEADLOCK FALSE
