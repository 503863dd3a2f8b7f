CONSTANTS
  Unit = 8
  Inf = 100000
  Lps <- Lpset
  Shift = 1
  Box = 1000
  Marginal = 3
  Grid = 4
  Spots <- MCSpots
  Systems <- MCSystems
SPECIFICATION MCSpec
INVARIANT OneBasicPerRow
CHECK_DEADLOCK FALSE
