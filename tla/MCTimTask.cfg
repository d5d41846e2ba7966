SPECIFICATION FairSpec
CONSTANTS
  Uses = {"stator", "hydrology", "shell"}
  Poison = Poison
INVARIANTS
  CursorOnItsList
  
  FoundIffListed
PROPERTIES
  PassEnds
  ExpiredRuns
CHECK_DEADLOCK FALSE
