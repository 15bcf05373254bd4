SPECIFICATION Spec
CONSTANTS
  NumData = 7
  NumThreads = 2
  OmpMaxThreads = 2
  DeltaLimit = 3
  NumFastIndex = 4
  Features <- TwoFeatures
  NumClass = 2
  Setups <- TheSetups
INVARIANTS StreamingInv EveryRowLoaded ReadsBack
