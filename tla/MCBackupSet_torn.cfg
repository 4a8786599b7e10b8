SPECIFICATION Spec
CONSTANTS
  Encrypted = FALSE
  Parallel = FALSE
  ExpireAuto = TRUE
  Adhoc = {}
  Offline = FALSE
  FullType = "count"
  RetainFull = 2
  RetainDiff = Unset
  RetainWal = Unset
  WalType <- CountFull
  Unset = Unset
  MaxBackups = 2
  MaxSegments = 2
  MaxClusters = 1
  MaxFaults = 1
INVARIANT CompleteAreListed
