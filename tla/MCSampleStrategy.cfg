CONSTANTS
  NumData = 4
  MaxIter = 3
  Setups <- MCSetups
SPECIFICATION Spec
INVARIANTS
  TypeOK
  RowsInStep
  ObeysConfig
