CONSTANTS
  Calls <- AllCalls
  Cuda = TRUE
  Forever = 50
  LongestPhase = 3
  MaxRows = 1
  MaxCols = 2
  Values = {0, 1}
  Files <- ReadableFiles
  MaxCalls = 4
  MaxSolves = 2
SPECIFICATION MCSpec
INVARIANTS
  HonestStatus
  StopHasItsReason
  ClockKept
  ProofHolds
  InterruptIsForItsSolve
  BuiltAsCalled
PROPERTY InterruptEndsTheSolve
CHECK_DEADLOCK FALSE
