------------------------------ MODULE MCHistory ------------------------------
(* HistoryPrune with small bounds: some of the lines have no timestamp.       *)
EXTENDS HistoryPrune

OneUndated == {2}
=============================================================================
