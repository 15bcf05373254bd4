CONSTANTS
  NumData = 4
  NumLeaves = 3
  Setups <- MCSetups
SPECIFICATION Spec
INVARIANTS
  BagThenRest
  BlocksApart
PROPERTIES
  ImplementsLeafPartition
  SplitPlacesRows
