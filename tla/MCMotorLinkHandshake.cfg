SPECIFICATION Spec
CONSTANTS
  Interval = 1
  Retries = 1
  Room = 3
  MaxFaults = 1
  MaxJobs = 1
  MaxTroubles = 2
PROPERTIES
  TwoHeartbeats
