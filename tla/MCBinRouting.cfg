SPECIFICATION Spec
CONSTANTS
  Values <- Numbers
  SampleCnt = 7
  Configs <- All
  Neighbor = 2
CHECK_DEADLOCK FALSE
INVARIANTS RoutingInv RoutedAlike CountsHold
