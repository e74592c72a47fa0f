------------------------------ MODULE MCPanes -------------------------------
EXTENDS Panes, TLC

CONSTANTS p1, p2, p3, p4, t1, t2, t3, s1, s2

Symmetry == Permutations(PaneIds) \cup Permutations(TabIds) \cup Permutations(Sessions)
=============================================================================
