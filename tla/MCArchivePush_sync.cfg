SPECIFICATION FairSpec
CONSTANTS
  Seg = {1, 2, 3}
  Hist = {h}
  NRepo = 2
  Async = FALSE
  ProcessMax = 1
  AllLocal = TRUE
  QueueMax = 3
  NoLimit = NoLimit
  MaxFaults = 3
  NoFile = NoFile
CHECK_DEADLOCK FALSE
INVARIANTS AckedIsArchived
PROPERTY EveryFileAcknowledged
