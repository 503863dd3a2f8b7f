CONSTANTS
  Workers = {w1, w2}
  NodeLimit = 3
  MinOpen = 2
  Keep = 1
  Events = {"time", "exception"}
  NumPoints = 3
  FeasiblePoints = {1, 3}
  Step = 1
  Width = 2
  TopBound = 2
  RelativeGap = 0
  Points <- MCPoints
  Feasible <- FeasiblePoints
  Obj <- MCObj
  Splits <- MCSplits
  Bounds <- MCBounds
  NegInf = 0
  Inf = 99
  Rounded <- MCRounded
  Margin = 0
  GapSlack <- MCGapSlack
  NoPoint = NoPoint
SPECIFICATION Spec
PROPERTIES ImplementsProtocol Termination
