SPECIFICATION FairSpec
CONSTANTS
  Encrypted = TRUE
  Parallel = TRUE
  ExpireAuto = TRUE
  Adhoc = {"oldest"}
  Offline = TRUE
  FullType = "count"
  RetainFull = 1
  RetainDiff = Unset
  RetainWal = 1
  WalType <- CountDiff
  Unset = Unset
  MaxBackups = 3
  MaxSegments = 2
  MaxClusters = 1
  MaxFaults = 2
INVARIANTS TypeOK KeptAreRestorable CompleteAreListed OneFullRemains KeptHaveTheirWal
PROPERTY ExpireFinishes
