SPECIFICATION Spec
CONSTANTS
  NumData = 4
  Setups <- Some
  BlockRows = 2
  ThreadRows = 1
  MaxLeaves = 4
  Stale = 0
INVARIANTS MetalTypeOK HistogramsOfOwnRows LeavesInOrder
