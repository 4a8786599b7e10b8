SPECIFICATION Spec
CONSTANTS
  Encrypted = TRUE
  Parallel = FALSE
  ExpireAuto = TRUE
  Adhoc = {}
  Offline = TRUE
  FullType = "count"
  RetainFull = 1
  RetainDiff = 1
  RetainWal = Unset
  WalType <- CountFull
  Unset = Unset
  MaxBackups = 5
  MaxSegments = 0
  MaxClusters = 1
  MaxFaults = 0
INVARIANT KeptAreRestorable
