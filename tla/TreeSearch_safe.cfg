SPECIFICATION Spec
CONSTANTS
  Cols = {1, 2}
  NoCutoff = 99
  Problems <- MCProblems
  Top <- MCTop
  Step <- MCStep
  Margin = 0
  GapSlack <- MCGapSlack
  PoolSize = 2
  PoolSlack <- MCPoolSlack
  Options <- MCOptions
  CheckpointNodes = 2
  ConflictMax = 1
  MaxRuns = 1
  Events = {"time", "interrupt", "iterations", "failure"}
INVARIANTS DomainsRestored NothingLost ConflictsHold PoolIsBest
