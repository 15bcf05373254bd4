-------------------------------- MODULE GBDT --------------------------------
(***************************************************************************)
(* The boosting loop (src/src/boosting/gbdt.cpp): the list of trees        *)
(* models_, the iteration counter iter_, and the score every training and  *)
(* validation row has accumulated.  The scores are never recomputed: every *)
(* operation adds or subtracts trees, so they stay equal to what models_   *)
(* predicts only if every operation keeps both in step.                    *)
(*                                                                         *)
(* models_ holds num_tree_per_iteration_ trees for every iteration; it is  *)
(* represented as a sequence of rounds, one tree per class in each.  What  *)
(* a tree adds to a row is [leaves, bias]: what its learned leaf *)
(* outputs weigh, and the constant AddBias put on top of them.  A score is *)
(* what each round has contributed to it so far, per class.                *)
(***************************************************************************)
EXTENDS Integers, Sequences, Functions

CONSTANTS
  Class,      \* trees per iteration (num_tree_per_iteration_)
  Bias,       \* ObtainAutomaticInitialScore; 0 when it is within kEpsilon
  Rates,      \* learning rates, in a unit of the leaf outputs
  Setups,     \* how a booster may be configured and used
  MaxRounds,  \* bound on the rounds ever created
  MaxValid    \* bound on the validation sets

VARIABLES
  setup,        \* the configuration of this booster, fixed at its creation
  models,       \* Seq of rounds
  iter,         \* iter_
  rate,         \* shrinkage_rate_
  train_score,  \* train_score_updater_
  valid_score,  \* valid_score_updater_, a sequence
  born          \* rounds created so far, the merged ones included

vars == <<setup, rate, models, iter, train_score, valid_score, born>>

NumInit          == setup.numInit           \* num_init_iteration_
HasObjective     == setup.objective         \* objective_function_ # nullptr
BoostFromAverage == setup.boostFromAverage  \* config_->boost_from_average
HasFeatures      == setup.features          \* train_data_->num_features() > 0
HasInitScore     == setup.initScore         \* the data sets carry initial scores
FirstSplits      == setup.firstSplits       \* the first iteration finds a split
LateData         == setup.lateData          \* data sets arrive after training began
MayShuffle       == setup.mayShuffle        \* ShuffleModels is called

\* Data sets used with an earlier model carry its predictions as init scores.
IsSetup(s) ==
  /\ s \in [numInit : 0..MaxRounds, objective : BOOLEAN, boostFromAverage : BOOLEAN,
            features : BOOLEAN, initScore : BOOLEAN, firstSplits : BOOLEAN,
            lateData : BOOLEAN, mayShuffle : BOOLEAN]
  /\ s.numInit > 0 => s.initScore

\* The uses for which scores match the model: data sets that arrive after
\* training began find a split in the first iteration and merged rounds in front
\* (gbdt.cpp:205), and the default score of data without features is added once.
SoundSetup(s) ==
  /\ s.lateData => s.firstSplits /\ (s.numInit = 0 \/ ~s.mayShuffle)
  /\ s.features \/ s.boostFromAverage \/ s.initScore \/ ~s.objective

ASSUME GBDTAssumption ==
  /\ MaxRounds \in Nat /\ MaxValid \in Nat /\ Bias \in Int
  /\ Rates \subseteq Int
  /\ \A s \in Setups : IsSetup(s)

RoundId == 1..MaxRounds
Output == [leaves : Int, bias : Int]
Zero == [leaves |-> 0, bias |-> 0]
Round == [id : RoundId, tree : [Class -> Output]]
Score == [Class -> [RoundId -> Output]]

Plus(a, b) == [leaves |-> a.leaves + b.leaves, bias |-> a.bias + b.bias]
Negated(a) == [leaves |-> -a.leaves, bias |-> -a.bias]

\* ScoreUpdater::AddScore, one call per class: what a round now contributes.
AddScore(score, id, tree) ==
  [c \in Class |-> [score[c] EXCEPT ![id] = Plus(@, tree[c])]]

\* The validation updaters all receive what the training one does.
AddToAll(scores, id, tree) == [v \in DOMAIN scores |-> AddScore(scores[v], id, tree)]

\* Scores of a new ScoreUpdater: zero, or the init scores, which hold what
\* the merged rounds predict.
FreshScore ==
  [c \in Class |-> [i \in RoundId |->
     IF i <= NumInit THEN [leaves |-> 1, bias |-> 0] ELSE Zero]]

\* What the model predicts: the contribution of round i in class c.
InModels(c, i, ms) ==
  IF \E p \in DOMAIN ms : ms[p].id = i
    THEN ms[CHOOSE p \in DOMAIN ms : ms[p].id = i].tree[c]
    ELSE Zero

Distinct(ms) == \A p, q \in DOMAIN ms : ms[p].id = ms[q].id => p = q

-----------------------------------------------------------------------------
(* A booster right after GBDT::Init and MergeFrom.                         *)

InitialRound(i) == [id |-> i, tree |-> [c \in Class |-> [leaves |-> 1, bias |-> 0]]]

Init ==
  /\ setup \in Setups
  /\ models = [i \in 1..NumInit |-> InitialRound(i)]
  /\ iter = 0 /\ rate \in Rates
  /\ train_score = FreshScore
  /\ valid_score = <<>>
  /\ born = NumInit

-----------------------------------------------------------------------------
(* TrainOneIter                                                            *)

\* GBDT::BoostFromAverage: the score training starts from, once per booster.
StartingScore ==
  IF /\ models = <<>> /\ ~HasInitScore /\ HasObjective
     /\ BoostFromAverage \/ ~HasFeatures
  THEN Bias ELSE 0

\* A class whose first tree has no split receives the default score there
\* when the option boost_from_average is off.
AddsDefault == models = <<>> /\ HasObjective /\ ~BoostFromAverage /\ ~HasInitScore

\* The trees an iteration pushes when the classes in `split` found a split;
\* a constant tree holds the default score or the starting score.
NewTrees(split, shrinkage) ==
  [c \in Class |->
     [leaves |-> IF c \in split THEN shrinkage ELSE 0,
      bias   |-> IF c \notin split /\ AddsDefault THEN Bias ELSE StartingScore]]

\* What the same iteration adds to the scores: BoostFromAverage for every
\* class, then UpdateScore for a split tree and the late default otherwise.
\* Mutant: the default of an unsplit class never reaches the scores.
ScoreChange_NoDefault(split, shrinkage) ==
  [c \in Class |-> [leaves |-> IF c \in split THEN shrinkage ELSE 0, bias |-> StartingScore]]
ScoreChange(split, shrinkage) ==
  [c \in Class |->
     Plus([leaves |-> 0, bias |-> StartingScore],
          IF c \in split THEN [leaves |-> shrinkage, bias |-> 0]
          ELSE [leaves |-> 0, bias |-> IF AddsDefault THEN Bias ELSE 0])]

\* An iteration without any split is taken back, except the very first round.
Kept(split) == split # {} \/ Len(models) = 0

MayTrain(split) ==
  /\ born < MaxRounds
  /\ FirstSplits /\ models = <<>> => split # {}
  /\ split # {} => HasFeatures

TrainOneIter(split) ==
  /\ MayTrain(split)
  /\ LET id == born + 1 IN
       /\ models' = IF Kept(split) THEN Append(models, [id |-> id, tree |-> NewTrees(split, rate)])
                    ELSE models
       /\ train_score' = AddScore(train_score, id, ScoreChange(split, rate))
       /\ valid_score' = AddToAll(valid_score, id, ScoreChange(split, rate))
       /\ born' = id
  /\ iter' = IF split # {} THEN iter + 1 ELSE iter
  /\ UNCHANGED <<setup, rate>>

-----------------------------------------------------------------------------
(* RollbackOneIter: the last round is negated, added to every score, popped. *)

\* Mutant: only the training score is corrected.
RollbackValid_Kept(scores, r) == scores
RollbackValid(scores, r) ==
  AddToAll(scores, r.id, [c \in Class |-> Negated(r.tree[c])])

\* Mutant: a round that iter_ does not count is rolled back too.
CanRollback_AnyRound == models # <<>>
CanRollback == iter > 0

RollbackOneIter ==
  /\ CanRollback
  /\ LET r == models[Len(models)] IN
       /\ train_score' = AddScore(train_score, r.id, [c \in Class |-> Negated(r.tree[c])])
       /\ valid_score' = RollbackValid(valid_score, r)
  /\ models' = SubSeq(models, 1, Len(models) - 1)
  /\ iter' = iter - 1
  /\ UNCHANGED <<setup, rate, born>>

-----------------------------------------------------------------------------
(* New data sets: the scores start from the init scores and receive the    *)
(* iter_ rounds that follow the merged ones.                               *)

\* Mutant: the merged rounds are replayed too, on top of the init scores.
ReplayFrom_Zero == 1
ReplayFrom == NumInit + 1

Replayed ==
  LET rounds == SubSeq(models, ReplayFrom, NumInit + iter)
  IN  [c \in Class |-> [i \in RoundId |-> Plus(FreshScore[c][i], InModels(c, i, rounds))]]

AddValidDataset ==
  /\ Len(valid_score) < MaxValid
  /\ LateData \/ born = NumInit
  /\ valid_score' = Append(valid_score, Replayed)
  /\ UNCHANGED <<setup, rate, models, iter, train_score, born>>

ResetTrainingData ==
  /\ LateData
  /\ train_score' = Replayed
  /\ UNCHANGED <<setup, rate, models, iter, valid_score, born>>

-----------------------------------------------------------------------------
(* ShuffleModels reorders the rounds of a range: a loop over their indices *)
(* swaps each but the last with a later one, drawn from a generator with a *)
(* fixed seed (here, any later one), and models_ is refilled by index.     *)

\* std::swap of two indices.
Swapped(indices, i, j) == [indices EXCEPT ![i] = indices[j], ![j] = indices[i]]

\* The indices after the swaps of the rounds first..last of n.
IndicesAfter(n, first, last, pick) ==
  LET indices[i \in 0..n] ==
        IF i = 0 THEN [p \in 1..n |-> p]
        ELSE IF i \in first..(last - 1) THEN Swapped(indices[i - 1], i, pick[i])
        ELSE indices[i - 1]
  IN  indices[n]

\* NextShort(i + 1, end_iter) for the swap of round i.
\* Mutant: any later round, also behind the range.
Picks_Past(first, last) ==
  {pick \in [first..(last - 1) -> 1..Len(models)] : \A i \in first..(last - 1) : i < pick[i]}
Picks(first, last) ==
  {pick \in [first..(last - 1) -> 1..last] : \A i \in first..(last - 1) : i < pick[i]}

\* The range asked for is cut to the rounds there are; no end means all.
ShuffleModels ==
  /\ MayShuffle
  /\ LET n == Len(models)
     IN  \E start_iter \in -1..n, end_iter \in 0..(n + 1) :
           LET first == 1 + (IF start_iter < 0 THEN 0 ELSE start_iter)
               last  == IF end_iter <= 0 \/ end_iter > n THEN n ELSE end_iter
           IN  \E pick \in Picks(first, last) :
                 models' = [p \in 1..n |-> models[IndicesAfter(n, first, last, pick)[p]]]
  /\ UNCHANGED <<setup, rate, iter, train_score, valid_score, born>>

\* ResetConfig: of what is modelled here it changes the learning rate.
ResetConfig ==
  /\ rate' \in Rates
  /\ UNCHANGED <<setup, models, iter, train_score, valid_score, born>>

-----------------------------------------------------------------------------
Next ==
  \/ \E split \in SUBSET Class : TrainOneIter(split)
  \/ RollbackOneIter
  \/ AddValidDataset
  \/ ResetTrainingData
  \/ ShuffleModels
  \/ ResetConfig

Spec == Init /\ [][Next]_vars

-----------------------------------------------------------------------------
(* Properties *)

\* The variables keep their types, and iter_ counts rounds that exist.
TypeOK ==
  /\ IsSetup(setup)
  /\ models \in Seq(Round)
  /\ iter \in Nat /\ rate \in Rates
  /\ train_score \in Score
  /\ valid_score \in Seq(Score)
  /\ born \in NumInit..MaxRounds

\* Between two calls every score, training and validation, holds exactly
\* what the trees of models_ predict: no tree is missing, counted twice or
\* left over after a rollback (gbdt.h: "store and update ... scores").
Matches(score) == \A c \in Class : \A i \in RoundId : score[c][i] = InModels(c, i, models)
ScoresMatchModels ==
  /\ Matches(train_score)
  /\ \A v \in DOMAIN valid_score : Matches(valid_score[v])

\* A round stays in the model, once and unchanged, until it is rolled back as
\* the last one; and a shuffle moves every round of its range and none outside,
\* so the rounds that move have no other round between them (c_api.h:744 asks
\* for a range; gbdt.h:102 swaps each of its rounds with a later one).
Stays(p) == \E q \in DOMAIN models' : \A k \in DOMAIN models' : models'[k] = models[p] <=> k = q
Moved == {p \in DOMAIN models \cap DOMAIN models' : models'[p] # models[p]}
RoundsKept ==
  [][/\ \A p \in DOMAIN models : Stays(p) \/ (p = Len(models) /\ iter' = iter - 1)
     /\ \A p, q \in Moved : p..q \subseteq Moved]_vars
=============================================================================
