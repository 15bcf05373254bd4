------------------------------- MODULE MCGBDT -------------------------------
(* Instances of GBDT: two classes, so that one of them may find a split    *)
(* while the other does not.                                               *)
EXTENDS GBDT

Usual == [numInit |-> 0, objective |-> TRUE, boostFromAverage |-> TRUE, features |-> TRUE,
          initScore |-> FALSE, firstSplits |-> FALSE, lateData |-> FALSE, mayShuffle |-> TRUE]

\* Data sets come and go; the first iteration finds a split.
Late == [Usual EXCEPT !.firstSplits = TRUE, !.lateData = TRUE]
\* The option boost_from_average is off.
NoAverage == [Usual EXCEPT !.boostFromAverage = FALSE]
\* One round of an earlier model, whose predictions are the init scores.
Merged == [Late EXCEPT !.numInit = 1, !.initScore = TRUE, !.mayShuffle = FALSE]
\* Data without a usable feature.
NoFeatures == [Usual EXCEPT !.features = FALSE]

Sound == {Usual, Late, NoAverage, Merged, NoFeatures}

\* The theorems are about these.
ASSUME SetupsAreSound == \A s \in Setups : SoundSetup(s)
=============================================================================
