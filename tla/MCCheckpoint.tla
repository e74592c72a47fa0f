---- MODULE MCCheckpoint ----
(* Recovery copies on a small instance for TLC: one file of the user, three *)
(* copies of which one or two are kept, and a clock of two readings.        *)
EXTENDS CheckpointRecovery, TLC

Symmetry == Permutations(Ids) \cup Permutations(Contents)
====
