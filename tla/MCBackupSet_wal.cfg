SPECIFICATION Spec
CONSTANTS
  Encrypted = FALSE
  Parallel = FALSE
  ExpireAuto = TRUE
  Adhoc = {"set", "oldest"}
  Offline = FALSE
  FullType = "time"
  RetainFull = 2
  RetainDiff = Unset
  RetainWal = 1
  WalType <- CountDiff
  Unset = Unset
  MaxBackups = 4
  MaxSegments = 3
  MaxClusters = 2
  MaxFaults = 0
INVARIANTS KeptHaveTheirWal KeptAreRestorable OneFullRemains
PROPERTY RollForwardKept
