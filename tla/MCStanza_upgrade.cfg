SPECIFICATION Spec
CONSTANTS
  Cluster = {A, B}
  NRepo = 1
  Async = FALSE
  HeaderCheck = TRUE
  MaxMoves = 1
  MaxFaults = 1
  MaxBackups = 1
  NoCluster = NoCluster
SYMMETRY Symmetry
INVARIANT UpgradeReachesBackupInfo
