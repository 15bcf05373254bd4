SPECIFICATION Spec
CONSTANTS
  Rows = {1, 2, 3, 4, 5}
  Features = {0, 1, 2}
  NumBin <- NumBinOf
  FreqIsZero = {1, 2}
  NumLeaves = 4
  MinData = 1
  TopK = 1
  Modes = {"feature", "data", "voting"}
  Plans <- MCPlans
  Jobs <- MCJobs
  Junk = 0
INVARIANTS TypeOK MachinesAgree FindsBestOfAll CountsAreGlobal

