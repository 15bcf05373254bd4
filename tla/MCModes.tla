------------------------------- MODULE MCModes -------------------------------
(* DART and random forest mode for TLC, side by side.  The learning rate   *)
(* of DART is 1/2 or 1.                                                    *)
EXTENDS Modes

Built == [numInit |-> 0, objective |-> TRUE, boostFromAverage |-> TRUE, features |-> TRUE,
          initScore |-> FALSE, firstSplits |-> TRUE, lateData |-> TRUE, mayShuffle |-> FALSE]

\* Gradients from outside: data sets are there from the start.
Custom == [Built EXCEPT !.objective = FALSE, !.lateData = FALSE]
\* The first iteration may find no split, and rounds are shuffled.
Shuffled == [Built EXCEPT !.firstSplits = FALSE, !.lateData = FALSE, !.mayShuffle = TRUE]
\* One round of an earlier model, whose predictions are the init scores.
Merged == [Built EXCEPT !.numInit = 1, !.initScore = TRUE]

Weights == [uniform |-> FALSE, xgboost |-> FALSE, maxDrop |-> -1, mayRollback |-> FALSE,
            mayReset |-> FALSE, dropSplits |-> TRUE]
\* Drops with equal probability: no weights are kept, so rollbacks and new
\* learning rates disturb none.
Even == [Weights EXCEPT !.uniform = TRUE, !.mayRollback = TRUE, !.mayReset = TRUE]
EvenXGBoost == [Weights EXCEPT !.uniform = TRUE, !.xgboost = TRUE]
OneDrop == [Weights EXCEPT !.maxDrop = 1]

Case(s, o) == [setup |-> s, options |-> o]

\* A rollback or a reset between reading scores and training is left out,
\* so outside gradients are not combined with Even.
Sound ==
  {Case(Built, Weights), Case(Built, OneDrop), Case(Built, Even), Case(Built, EvenXGBoost),
   Case(Shuffled, Even), Case(Custom, Weights), Case(Merged, Weights)}

\* Forests, whose first trees may have no split: with late data and shuffled
\* rounds, without an average to start from, and after merging a model.
Late == [Built EXCEPT !.firstSplits = FALSE, !.mayShuffle = TRUE]
NoAverage == [Late EXCEPT !.boostFromAverage = FALSE]
NoFeatures == [Late EXCEPT !.features = FALSE]
TheForests == {Late, NoAverage, NoFeatures, Merged}

AllSetups == {x.setup : x \in Sound} \cup TheForests

\* The theorems are about these.
ASSUME CasesAreSound == \A x \in Cases : SoundCase(x)
ASSUME ForestsAreSound == \A s \in Forests : SoundForest(s)
=============================================================================
