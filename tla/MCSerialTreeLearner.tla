------------------------ MODULE MCSerialTreeLearner ------------------------
(***************************************************************************)
(* SerialTreeLearner for TLC.  Rows are interchangeable.                   *)
(***************************************************************************)
EXTENDS SerialTreeLearner, TLC

CONSTANTS f1, f2

NotForced == <<>>

\* Forced splits: a chain of three nodes on two features.
Chain == (<<>> :> f1) @@ (<<"left">> :> f1) @@ (<<"left", "right">> :> f2)

Plain   == [maxDepth |-> 0, intermediate |-> FALSE, forced |-> NotForced,
            fullPool |-> FALSE, features |-> {f1, f2}]
Shallow == [Plain EXCEPT !.maxDepth = 2]
Forced  == [Plain EXCEPT !.forced = Chain]
Monotone == [Plain EXCEPT !.intermediate = TRUE, !.features = {f1}]

InFullPool(c) == [c EXCEPT !.fullPool = TRUE, !.features = {f1}]

\* A pool smaller than the tree with everything but the recomputation of
\* monotone constraints, and an array for every leaf.
BothPools == {Plain, Shallow, Forced, InFullPool(Plain), InFullPool(Monotone)}

\* What the proofs about histograms ask of the configurations.
ASSUME SetupsRecomputeSafely == RecomputesSafely

RowSymmetry == Permutations(Rows)
=============================================================================
