------------------------------ MODULE MCTrash ------------------------------
EXTENDS Trash, TLC
CONSTANTS p1, p2, r1, r2
Symmetry == Permutations(Receipts) \cup Permutations(Contents)
=============================================================================
