------------------------------ MODULE Custody ------------------------------
(***************************************************************************)
(* What the safe-delete engine promises about one piece of data, whatever  *)
(* files, receipts and manifests it uses.  A content is live, or binned (a *)
(* receipt lists it), and passes from one to the other one at a time.  It  *)
(* leaves the engine's custody in two ways only: it is forfeit (its owner  *)
(* replaced, removed or emptied it), or it is exposed (it was caught in a  *)
(* window the engine leaves open).  There is no step from live or binned   *)
(* to nowhere.  Trash implements this.                                     *)
(***************************************************************************)
CONSTANT Contents

VARIABLE place

Places == {"unborn", "live", "moving", "binned", "forfeit", "exposed"}

TypeOK == place \in [Contents -> Places]

Init == place = [c \in Contents |-> "unborn"]

\* The owner writes c, in the open or into a window; what was there before,
\* the members of D, is forfeit.
Write(c, D, to) ==
  /\ place[c] = "unborn" /\ c \notin D /\ to \in {"live", "exposed"}
  /\ \A d \in D : place[d] # "unborn"
  /\ place' = [x \in Contents |-> IF x = c THEN to
                                  ELSE IF x \in D THEN "forfeit" ELSE place[x]]

\* The owner removes or empties the members of D.
Forfeit(D) ==
  /\ \A d \in D : place[d] # "unborn"
  /\ place' = [x \in Contents |-> IF x \in D THEN "forfeit" ELSE place[x]]

\* The engine takes c from its path: no other content is in its hands.
Take(c) ==
  /\ place[c] = "live" /\ \A d \in Contents : place[d] # "moving"
  /\ place' = [place EXCEPT ![c] = "moving"]

\* A receipt lists c: entered after the move, or still listed from before.
File(c) ==
  /\ place[c] \in {"moving", "live"}
  /\ place' = [place EXCEPT ![c] = "binned"]

PutBack(c) ==
  /\ place[c] = "binned"
  /\ place' = [place EXCEPT ![c] = "live"]

\* c is left where no receipt and no path leads to it.
Expose(c) ==
  /\ place[c] \in {"live", "moving"}
  /\ place' = [place EXCEPT ![c] = "exposed"]

Next ==
  \/ \E c \in Contents, D \in SUBSET Contents, to \in Places : Write(c, D, to)
  \/ \E D \in SUBSET Contents : Forfeit(D)
  \/ \E c \in Contents : Take(c) \/ File(c) \/ PutBack(c) \/ Expose(c)

Spec == Init /\ [][Next]_place
=============================================================================
