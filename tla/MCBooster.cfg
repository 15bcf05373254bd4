SPECIFICATION Spec
CONSTANTS
  t1 = t1
  t2 = t2
  t3 = t3
  f1 = f1
  Threads = {t1, t2, t3}
  FastConfigs = {f1}
  Setups <- Usual
  MaxModels = 3
INVARIANTS TypeOK AnswersAsAsked
PROPERTY EveryCallReturns
\* Clients stop when they have made all their calls; a call that never
\* returns violates EveryCallReturns.
CHECK_DEADLOCK FALSE
