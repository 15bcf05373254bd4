SPECIFICATION Spec
CONSTANTS
  Class = {c1, c2}
  Bias = 3
  Rates = {1, 2}
  Setups <- Sound
  MaxRounds = 3
  MaxValid = 2
INVARIANTS TypeOK ScoresMatchModels
PROPERTIES RoundsKept
CHECK_DEADLOCK FALSE
