SPECIFICATION Spec
CONSTANTS
  NumLeaves = 4
  CacheSize = 2
  Rows = {r1, r2, r3, r4}
  f1 = f1
  f2 = f2
  Features = {f1, f2}
  MinDataInLeaf = 1
  Configs <- BothPools
  Junk = Junk
  Nil = Nil
SYMMETRY RowSymmetry
INVARIANTS TypeOK SearchReadsOwnRows PoolInStep
CHECK_DEADLOCK FALSE
