CONSTANTS
  Workers = {w1, w2}
  NodeLimit <- NoLimit
  MinOpen = 2
  Keep = 1
  Events = {"interrupt", "iterations", "failure", "exception"}
  NumPoints = 3
  FeasiblePoints = {1, 2}
  Step = 1
  Width = 1
  TopBound = 3
  RelativeGap = 40
  Points <- MCPoints
  Feasible <- FeasiblePoints
  Obj <- MCObj
  Splits <- MCSplits
  Bounds <- MCBounds
  NegInf = 0
  Inf = 99
  Rounded <- MCRounded
  Margin = 0
  GapSlack <- MCGapSlack
  NoPoint = NoPoint
SYMMETRY WorkerSymmetry
SPECIFICATION Spec
INVARIANTS NothingLost NoNodeTwice SoundAnswer OptimalIsProved
