------------------------- MODULE MCHistogramPool -------------------------
(***************************************************************************)
(* HistogramPool for TLC, and the mistakes its properties would catch.     *)
(***************************************************************************)
EXTENDS HistogramPool

=============================================================================
