SPECIFICATION FairSpec
CONSTANTS
  Interval = 2
  Retries = 1
  Room = 3
  MaxFaults = 1
  MaxJobs = 1
  MaxTroubles = 1
INVARIANTS
  NoSpuriousDisconnect
PROPERTIES
  NoSpuriousStop
  WatchResumes
  
