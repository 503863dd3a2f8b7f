SPECIFICATION MCSpec
CONSTANTS
  Dim = 3
  Prime = 3
  Bases <- MCBases
  Entering <- MCEntering
  MaxEtaCount = 2
  MaxFactorizations = 2
  Order = 5
  ConstraintMatrices <- MCConstraintMatrices
  Thetas <- MCThetas
  Quadratics <- MCQuadratics
  OrderingBudgets = {9, 60}
  FactorBudgets = {5, 20}
  ColumnCount = 2
  Scripts <- MCScripts
  Numbers <- MCNumbers
  Exponents <- MCExponents
  Boxes <- MCBoxes
  Points <- MCPoints
INVARIANTS
  SolvesTheBasis
  CountsExact
  FactorsTheMatrix
  VerdictIsExact
  SweepsAreExact
  CurvatureIsSound
PROPERTIES
  RepairIsExact
CHECK_DEADLOCK FALSE
