--------------------------- MODULE MCSessionDetail ---------------------------
EXTENDS SessionDetail, TLC

CONSTANTS t1, t2, s1, s2, p1, p2

OneTabEach == (t1 :> p1) @@ (t2 :> p2)
OneTab == t1 :> p1
OwnIds == [s \in Sessions |-> s]

\* The two panes may be swapped together with their tabs.
Symmetry == {(t1 :> t2) @@ (t2 :> t1) @@ (p1 :> p2) @@ (p2 :> p1)}
=============================================================================
