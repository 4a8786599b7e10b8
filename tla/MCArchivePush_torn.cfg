SPECIFICATION Spec
CONSTANTS
  Seg = {1, 2}
  Hist = {h}
  NRepo = 1
  Async = TRUE
  ProcessMax = 1
  AllLocal = TRUE
  QueueMax = NoLimit
  NoLimit = NoLimit
  MaxFaults = 1
  NoFile = NoFile
CHECK_DEADLOCK FALSE
INVARIANT AckedIsArchived

