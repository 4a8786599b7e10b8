SPECIFICATION FairSpec
CONSTANTS
  Seg = {1, 2}
  Hist = {h}
  NRepo = 2
  Async = TRUE
  ProcessMax = 2
  AllLocal = TRUE
  QueueMax = NoLimit
  NoLimit = NoLimit
  MaxFaults = 3
  NoFile = NoFile
CHECK_DEADLOCK FALSE
INVARIANTS TypeOK AckedIsArchivedUnlessTorn StatusIsTrue
PROPERTIES StagedKeptUntilArchived EveryFileAcknowledged SpoolDrains
