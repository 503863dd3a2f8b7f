CONSTANTS
  Unit = 8
  Inf = 100000
  Lps <- Lpset
  Shift = 1
  Box = 1000
  Marginal = 3
  Grid = 4
  Spots <- MCSpots
  Systems <- MCSystems
SPECIFICATION MCSpec
INVARIANTS
  ClaimsHold
  ReportIsOfTheModel
  PushKeepsThePoint
  IisIsIrreducible
CHECK_DEADLOCK FALSE
