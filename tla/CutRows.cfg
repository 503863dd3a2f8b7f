CONSTANTS
  Unit = 2
  Inf = 10000
  MaxDet = 5
  MaxAggregation = 1
  Reach = 4
  RowsPerRound = 1
  CutRowAgeLimit = 1
  MaxCutRows = 2
  MaxNodes = 1
  Models <- SmallModels
SPECIFICATION Spec
INVARIANTS
  RowsAreGlobal
  BasesFit
  StepIsExact
CHECK_DEADLOCK FALSE
