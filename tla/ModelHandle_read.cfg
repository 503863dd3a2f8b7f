CONSTANTS
  MaxRows = 1
  MaxCols = 2
  Values = {0, 1}
  Files <- ReadableFiles
  MaxCalls = 3
  MaxSolves = 1
SPECIFICATION HandleSpec
INVARIANT SolvesWhatWasSet
CHECK_DEADLOCK FALSE
