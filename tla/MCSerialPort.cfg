SPECIFICATION FairSpec
CONSTANTS
  N = 4
  MaxBytes = 7
  MaxFaults = 1
  MaxStops = 1
INVARIANTS
  TypeOK
  TakenInOrder
PROPERTIES
  TransmitReturns
  LineIsDrained
  ImplementsLink
CHECK_DEADLOCK FALSE
