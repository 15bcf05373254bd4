---------------------------- MODULE MCBinRouting ----------------------------
(***************************************************************************)
(* BinRouting for TLC: all samples of seven values from six, with few and  *)
(* enough bins, the three ways to treat missing values, forced bounds and  *)
(* categories.                                                             *)
(***************************************************************************)
EXTENDS BinRouting

Numbers == {-20, -10, 0, 10, 20}

Base == [type |-> "numerical", use_missing |-> TRUE, zero_as_missing |-> FALSE,
         max_bin |-> 5, min_data_in_bin |-> 1, forced |-> <<>>, filter_cnt |-> 0]

All ==
  {[Base EXCEPT !.max_bin = b] : b \in 2..6}
  \cup {[Base EXCEPT !.min_data_in_bin = 3], [Base EXCEPT !.use_missing = FALSE],
        [Base EXCEPT !.filter_cnt = 2], [Base EXCEPT !.max_bin = 3, !.min_data_in_bin = 2]}
  \cup {[Base EXCEPT !.zero_as_missing = TRUE, !.max_bin = b] : b \in 2..5}
  \cup {[Base EXCEPT !.forced = f, !.max_bin = b] : f \in {<<-15>>, <<10, 15>>}, b \in 2..5}
  \cup {[Base EXCEPT !.type = "categorical", !.max_bin = b] : b \in {2, 5}}
  \cup {[Base EXCEPT !.type = "categorical", !.min_data_in_bin = 3, !.use_missing = FALSE]}
=============================================================================
