SPECIFICATION Spec
CONSTANTS
  Cols = {1, 2}
  NoCutoff = 99
  Problems <- CrashProblems
  Top <- MCTop
  Step <- MCStep
  Margin = 0
  GapSlack <- MCGapSlack
  PoolSize = 2
  PoolSlack <- MCPoolSlack
  Options <- CrashOptions
  CheckpointNodes = 2
  ConflictMax = 1
  MaxRuns = 2
  Events = {"time", "iterations", "crash", "disk"}
INVARIANTS CheckpointWhole SoundAnswer
PROPERTIES Termination
