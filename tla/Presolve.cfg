CONSTANTS
  Unit = 4
  Inf = 10000
  MaxPasses = 20
  MaxDualPasses = 8
  Models <- AllModels
  Values <- Halves
  Prices <- Wholes
SPECIFICATION Spec
INVARIANTS
  PointRestored
  CertificateRestored
  BasisWhole
  SameOptimum
CHECK_DEADLOCK FALSE
