-------------------------------- MODULE DART --------------------------------
(***************************************************************************)
(* DART (src/src/boosting/dart.hpp): boosting with dropped trees.  Before  *)
(* the gradients of an iteration are computed a random set of earlier      *)
(* rounds is dropped: their trees are negated in models_ and added to the  *)
(* training score, which is then without them.  After the iteration the    *)
(* dropped trees are scaled back in two steps, each followed by a          *)
(* correction of one kind of score: validation, then training.             *)
(*                                                                         *)
(* Learning rates, leaf outputs and weights are numbers in a unit: Unit    *)
(* stands for 1.0, and Exact stops TLC wherever a division has a remainder *)
(* (Unit is chosen so that none has), so rounding is left out.             *)
(***************************************************************************)
EXTENDS GBDT, FiniteSets, FiniteSetsExt, TLC

CONSTANTS
  Unit,   \* what 1.0 is represented by
  Cases   \* setups of GBDT with options of DART

VARIABLES
  options,        \* the DART part of the configuration, fixed at creation
  learning_rate,  \* config_->learning_rate
  drop_index,     \* drop_index_, positions in models
  tree_weight,    \* tree_weight_
  sum_weight,     \* sum_weight_
  updated         \* is_update_score_cur_iter_

dart_vars == <<options, learning_rate, drop_index, tree_weight, sum_weight, updated>>
allVars == <<vars, dart_vars>>

Uniform     == options.uniform      \* uniform_drop
XGBoostMode == options.xgboost      \* xgboost_dart_mode
MaxDrop     == options.maxDrop      \* max_drop
MayRollback == options.mayRollback  \* RollbackOneIter is called
MayReset    == options.mayReset     \* ResetConfig is called
DropSplits  == options.dropSplits   \* iterations that drop trees find a split

IsOptions(o) ==
  o \in [uniform : BOOLEAN, xgboost : BOOLEAN, maxDrop : Int, mayRollback : BOOLEAN,
         mayReset : BOOLEAN, dropSplits : BOOLEAN]

\* The uses of DART that keep scores and weights in step: a drop that is
\* pending meets no other operation, and weights are kept in the default mode
\* only, without rollbacks, resets and shuffles.
SoundCase(x) ==
  /\ SoundSetup(x.setup) /\ x.options.dropSplits
  /\ x.setup.objective \/ ~(x.setup.lateData \/ x.setup.mayShuffle
                            \/ x.options.mayRollback \/ x.options.mayReset)
  /\ \/ x.options.uniform
     \/ x.setup.firstSplits /\ ~(x.setup.mayShuffle \/ x.options.xgboost
                                 \/ x.options.mayRollback \/ x.options.mayReset)

ASSUME DARTAssumption ==
  /\ Unit \in Nat \ {0}
  /\ Rates \subseteq Nat \ {0}
  /\ \A x \in Cases : x.setup \in Setups /\ IsOptions(x.options)

Exact(a, b) == IF a % b = 0 THEN a \div b ELSE Assert(FALSE, "Unit is too small")

\* Tree::Shrinkage by n/d scales every leaf, and so the bias they hold.
Shrunk(out, n, d) == [leaves |-> Exact(out.leaves * n, d), bias |-> Exact(out.bias * n, d)]
Shrinkage(ms, positions, n, d) ==
  [p \in DOMAIN ms |->
     IF p \in positions
       THEN [ms[p] EXCEPT !.tree = [c \in Class |-> Shrunk(@[c], n, d)]]
       ELSE ms[p]]

\* ScoreUpdater::AddScore for every tree of the rounds at some positions.
AddRounds(score, ms, positions) ==
  [c \in Class |-> [i \in RoundId |->
     LET at == {p \in positions : ms[p].id = i}
     IN  IF at = {} THEN score[c][i]
         ELSE Plus(score[c][i], ms[CHOOSE p \in at : TRUE].tree[c])]]

-----------------------------------------------------------------------------
(* DroppingTrees: which trees are dropped is random; max_drop bounds how   *)
(* many, and the loop looks at it after a tree was added.                  *)

Droppable == (NumInit + 1)..(NumInit + iter)

DropSets ==
  {d \in SUBSET Droppable :
     MaxDrop < 0 \/ Cardinality(d) <= Max({1, MaxDrop})}

\* shrinkage_rate_ of an iteration that dropped k rounds.
ShrinkageRate(k) ==
  IF ~XGBoostMode THEN Exact(learning_rate, 1 + k)
  ELSE IF k = 0 THEN learning_rate
  ELSE Exact(learning_rate * Unit, learning_rate + k * Unit)

\* tree_weight_ is indexed from the first round that was not merged.
Weighted(d) == {p - NumInit : p \in d}

\* The models with the rounds in d negated, as DroppingTrees leaves them.
WithDropped(ms, d) == Shrinkage(ms, d, -1, 1)

\* The sum of what a function maps its domain to.
Total(f) == MapThenSumSet(LAMBDA i : f[i], DOMAIN f)

-----------------------------------------------------------------------------
(* Normalize, for the rounds d dropped in an iteration with rate r.        *)

\* The first step, for the validation scores; 1/(k+1), or the rate.
ForValid(ms, d, r) ==
  IF XGBoostMode THEN Shrinkage(ms, d, r, Unit)
  ELSE Shrinkage(ms, d, 1, Cardinality(d) + 1)

\* Mutant: only the training score is corrected.
ValidNormalized_None(scores, ms, d) == scores
ValidNormalized(scores, ms, d) == [v \in DOMAIN scores |-> AddRounds(scores[v], ms, d)]

\* The second step, for the training score; -k, or -k / learning_rate.
\* Mutant: the trees are restored to their old weight less one share.
ForTrain_Whole(ms, d) == Shrinkage(ms, d, -1, 1)
ForTrain(ms, d) ==
  IF XGBoostMode THEN Shrinkage(ms, d, -Cardinality(d) * Unit, learning_rate)
  ELSE Shrinkage(ms, d, -Cardinality(d), 1)

\* What a dropped round's weight becomes, and what its sum loses.
\* Mutant: the sum loses the whole weight.
WeightLoss_Whole(w, k) == w
WeightLoss(w, k) ==
  IF XGBoostMode THEN Exact(w * Unit, k * Unit + learning_rate) ELSE Exact(w, k + 1)
\* Mutant: a dropped round keeps its weight.
NewWeight_Kept(w, k) == w
NewWeight(w, k) ==
  IF XGBoostMode THEN Exact(w * k * Unit, k * Unit + learning_rate) ELSE Exact(w * k, k + 1)

NormalizedWeights(d) ==
  [i \in DOMAIN tree_weight |->
     IF i \in Weighted(d) THEN NewWeight(tree_weight[i], Cardinality(d)) ELSE tree_weight[i]]
NormalizedSum(d) ==
  sum_weight - Total([i \in Weighted(d) |-> WeightLoss(tree_weight[i], Cardinality(d))])

-----------------------------------------------------------------------------
(* Actions *)

\* is_update_score_cur_iter_ has no initial value.
DartInit ==
  /\ Init
  /\ \E x \in Cases : setup = x.setup /\ options = x.options
  /\ learning_rate = rate
  /\ drop_index = {}
  /\ tree_weight = <<>> /\ sum_weight = 0
  /\ updated \in BOOLEAN

\* GetTrainingScore between iterations, when gradients come from outside.
\* With an objective it drops trees inside TrainOneIter, and later calls
\* find the flag set.
GetTrainingScore(drop) ==
  /\ ~HasObjective /\ ~updated
  /\ drop \in DropSets
  /\ drop_index' = drop
  /\ models' = WithDropped(models, drop)
  /\ train_score' = AddRounds(train_score, WithDropped(models, drop), drop)
  /\ rate' = ShrinkageRate(Cardinality(drop))
  /\ updated' = TRUE
  /\ UNCHANGED <<setup, iter, valid_score, born, options, learning_rate, tree_weight, sum_weight>>

\* The iteration of GBDT over models without the dropped rounds, with the
\* rate r, and what Normalize makes of it.  An iteration that finds no
\* split returns before Normalize.
Trained(split, drop, ms, score, r) ==
  LET id == born + 1
      grown == IF Kept(split) THEN Append(ms, [id |-> id, tree |-> NewTrees(split, r)]) ELSE ms
      scored == AddScore(score, id, ScoreChange(split, r))
      validScored == AddToAll(valid_score, id, ScoreChange(split, r))
      valid == ForValid(grown, drop, r)
      done == ForTrain(valid, drop)
  IN  IF split = {}
      THEN models' = grown /\ train_score' = scored /\ valid_score' = validScored
      ELSE /\ models' = done
           /\ valid_score' = ValidNormalized(validScored, valid, drop)
           /\ train_score' = AddRounds(scored, done, drop)

\* tree_weight_ and sum_weight_ follow only when drops are not uniform.
WeightsTrained(split, drop, r) ==
  IF split = {} \/ Uniform
  THEN UNCHANGED <<tree_weight, sum_weight>>
  ELSE /\ tree_weight' = Append(NormalizedWeights(drop), r)
       /\ sum_weight' = NormalizedSum(drop) + r

DropThenTrain(split, drop) ==
  /\ HasObjective
  /\ drop \in DropSets
  /\ LET r == ShrinkageRate(Cardinality(drop))
         ms == WithDropped(models, drop)
     IN  /\ Trained(split, drop, ms, AddRounds(train_score, ms, drop), r)
         /\ WeightsTrained(split, drop, r)
         /\ rate' = r
  /\ drop_index' = drop
  /\ updated' = TRUE

\* Gradients from outside were computed from GetTrainingScore.
TrainDropped(split) ==
  /\ ~HasObjective /\ updated
  /\ Trained(split, drop_index, models, train_score, rate)
  /\ WeightsTrained(split, drop_index, rate)
  /\ updated' = FALSE
  /\ UNCHANGED <<rate, drop_index>>

DartTrainOneIter(split) ==
  /\ MayTrain(split)
  /\ \/ \E drop \in SUBSET Droppable :
          /\ DropSplits /\ drop # {} => split # {}
          /\ DropThenTrain(split, drop)
     \/ /\ DropSplits /\ drop_index # {} => split # {}
        /\ TrainDropped(split)
  /\ born' = born + 1
  /\ iter' = IF split # {} THEN iter + 1 ELSE iter
  /\ UNCHANGED <<setup, options, learning_rate>>

\* DART::ResetConfig forgets the sum of the weights, not the weights.
DartResetConfig ==
  /\ MayReset
  /\ ResetConfig
  /\ learning_rate' = rate'
  /\ sum_weight' = 0
  /\ UNCHANGED <<options, drop_index, tree_weight, updated>>

\* The operations DART inherits.
Inherited ==
  /\ \/ MayRollback /\ RollbackOneIter
     \/ AddValidDataset
     \/ ResetTrainingData
     \/ ShuffleModels
  /\ UNCHANGED dart_vars

DartNext ==
  \/ \E drop \in SUBSET Droppable : GetTrainingScore(drop)
  \/ \E split \in SUBSET Class : DartTrainOneIter(split)
  \/ DartResetConfig
  \/ Inherited

DartSpec == DartInit /\ [][DartNext]_allVars

-----------------------------------------------------------------------------
(* Properties *)

\* Rounds dropped for the gradients of an iteration still to come.
Pending == IF ~HasObjective /\ updated THEN drop_index ELSE {}

\* The variables keep their types, and every dropped round is one of the
\* rounds trained here.
DartTypeOK ==
  /\ IsSetup(setup) /\ IsOptions(options)
  /\ models \in Seq(Round)
  /\ iter \in Nat /\ rate \in Nat /\ learning_rate \in Rates
  /\ train_score \in Score /\ valid_score \in Seq(Score)
  /\ Pending \subseteq Droppable
  /\ tree_weight \in Seq(Nat) /\ sum_weight \in Nat

\* The training score holds every tree but the dropped ones, so gradients
\* never see a dropped tree; validation scores hold them all, at the weight
\* they had; with no drop pending all scores hold what models_ predicts.
DartScores ==
  \A c \in Class : \A i \in RoundId :
    LET dropped == \E p \in Pending : models[p].id = i
        tree == InModels(c, i, models)
    IN  /\ train_score[c][i] = IF dropped THEN Zero ELSE tree
        /\ \A v \in DOMAIN valid_score :
             valid_score[v][c][i] = IF dropped THEN Negated(tree) ELSE tree

\* The state of the booster between any two calls, also while a drop is
\* pending (dart.hpp, DroppingTrees and Normalize).
DartInv == DartTypeOK /\ DartScores

\* With drops by weight, tree_weight_ holds the weight each trained round
\* has in models_ ("The weights of all trees, used to choose drop trees").
WeightsOfRounds ==
  ~Uniform =>
    /\ Len(tree_weight) = iter
    /\ \A i \in DOMAIN tree_weight : \A c \in Class :
         LET out == models[NumInit + i].tree[c].leaves
         IN  NumInit + i \notin Pending /\ out # 0 => out = tree_weight[i]

\* sum_weight_ is the sum of tree_weight_ ("sum weights of all trees"); the
\* probability of every drop is computed from it.
SumOfWeights == ~Uniform => sum_weight = Total(tree_weight)

\* The weights a drop is drawn by are those of the trees (dart.hpp, Normalize
\* and TrainOneIter).
WeightsInStep == WeightsOfRounds /\ SumOfWeights

\* An iteration leaves each of the k rounds it dropped at k/(k+1) of the
\* weight it had before ("end with tree weight = (k / (k + 1)) *
\* old_weight"), or k/(k + learning rate) in xgboost mode.
SharesDropped ==
  born' # born =>
    LET k == Cardinality(drop_index')
    IN  \A p \in drop_index' : \A c \in Class :
          LET now == models'[p].tree[c].leaves
              old == IF HasObjective THEN models[p].tree[c].leaves
                     ELSE -models[p].tree[c].leaves
          IN  IF XGBoostMode THEN now * (k * Unit + learning_rate) = old * k * Unit
              ELSE now * (k + 1) = old * k

\* No iteration touches the rounds of the model training continues from.
KeepsMerged == born' # born => \A p \in 1..NumInit : models'[p] = models[p]

\* An iteration changes the rounds it dropped, as documented, and none that
\* were merged.
ReweightsDropped == [][SharesDropped /\ KeepsMerged]_allVars
=============================================================================
