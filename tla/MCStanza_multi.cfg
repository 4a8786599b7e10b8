SPECIFICATION Spec
CONSTANTS
  Cluster = {A, B}
  NRepo = 2
  Async = TRUE
  HeaderCheck = TRUE
  MaxMoves = 2
  MaxFaults = 1
  MaxBackups = 1
  NoCluster = NoCluster
SYMMETRY Symmetry
INVARIANTS HistoriesAgree BackupsUnderTheirCluster UpgradeReachesArchiveInfo
