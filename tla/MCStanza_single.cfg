SPECIFICATION Spec
CONSTANTS
  Cluster = {A, B}
  NRepo = 1
  Async = FALSE
  HeaderCheck = TRUE
  MaxMoves = 3
  MaxFaults = 3
  MaxBackups = 2
  NoCluster = NoCluster
SYMMETRY Symmetry
INVARIANTS TypeOK HistoriesAgree BackupsUnderTheirCluster WalUnderItsCluster
PROPERTIES CreateAdoptsNothing HistoryOnlyGrows
