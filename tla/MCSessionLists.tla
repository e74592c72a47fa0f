--------------------------- MODULE MCSessionLists ---------------------------
EXTENDS SessionLists

CONSTANTS p, q

\* Three pages of one session in p, none in q.
MCProjectOf == [s \in 1..3 |-> p]
MCTimes == {[s \in 1..3 |-> 2]}
=============================================================================
