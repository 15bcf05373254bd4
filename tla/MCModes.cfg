SPECIFICATION ModesSpec
CONSTANTS
  Class = {c1, c2}
  Unit = 360
  Bias = 360
  Rates = {180, 360}
  Leaf = 360
  Cases <- Sound
  Forests <- TheForests
  Setups <- AllSetups
  MaxRounds = 3
  MaxValid = 1
INVARIANTS ModesInv WeightsInStep
PROPERTIES ReweightsDropped
CHECK_DEADLOCK FALSE
