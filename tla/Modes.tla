-------------------------------- MODULE Modes --------------------------------
(***************************************************************************)
(* The two modes that change what has been trained: a booster is created   *)
(* as DART or as RF (boosting.cpp, CreateBoosting) and stays what it is.   *)
(* Both work on the rounds and scores of GBDT.                             *)
(***************************************************************************)
EXTENDS DART, RF

VARIABLES boosting  \* config boosting: "dart" or "rf"

\* Variables of the mode a booster is not in.
NoForest == init_scores = 0
NoDrops ==
  /\ options = [uniform |-> TRUE, xgboost |-> FALSE, maxDrop |-> 0, mayRollback |-> FALSE,
                mayReset |-> FALSE, dropSplits |-> TRUE]
  /\ learning_rate = Unit /\ drop_index = {}
  /\ tree_weight = <<>> /\ sum_weight = 0 /\ updated = FALSE

ModesInit == \/ boosting = "dart" /\ DartInit /\ NoForest
             \/ boosting = "rf" /\ ForestInit /\ NoDrops

ModesNext ==
  /\ UNCHANGED boosting
  /\ \/ boosting = "dart" /\ DartNext /\ UNCHANGED init_scores
     \/ boosting = "rf" /\ ForestNext /\ UNCHANGED dart_vars

modes_vars == <<boosting, allVars, init_scores>>

ModesSpec == ModesInit /\ [][ModesNext]_modes_vars

\* Whatever the mode, scores are what the model predicts (dart.hpp,
\* DroppingTrees and Normalize; rf.hpp, MultiplyScore).
ModesInv ==
  /\ boosting = "dart" => DartInv
  /\ boosting = "rf" => ForestInv
=============================================================================
