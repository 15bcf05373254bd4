------------------------- MODULE MCMetalTreeLearner -------------------------
(***************************************************************************)
(* MetalTreeLearner for TLC: a dense group of two features, one feature    *)
(* with a column of its own and one for the CPU; thresholds that some      *)
(* leaves reach by rows and others by columns; forced splits.              *)
(***************************************************************************)
EXTENDS MetalTreeLearner

Device == [dense |-> {{"a"}}, packed |-> {{"m"}}, cpu |-> {"c"}, forced |-> {},
           minWorkload |-> 4, minPartition |-> 3, constHess |-> FALSE]

Bundled == [Device EXCEPT !.dense = {{"a", "b"}}, !.packed = {}, !.minWorkload = 2,
                          !.minPartition = 0, !.constHess = TRUE]

Narrow == [Device EXCEPT !.dense = {}, !.minWorkload = 2, !.constHess = TRUE]

\* No column at all: the device is never used.
Disabled == [Device EXCEPT !.dense = {}, !.packed = {}, !.minWorkload = 0]

\* A feature of forced splits that the tree may not have been given.
ForcedSplits == [Device EXCEPT !.forced = {"m"}, !.minWorkload = 2]

Some == {Device, Bundled, Narrow, Disabled, ForcedSplits}
=============================================================================
