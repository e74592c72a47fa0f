-------------------------- MODULE MaintenanceProofs --------------------------
(***************************************************************************)
(* The maintenance commands exclude one another, share one run slot, keep  *)
(* out of an SSH session and heed a cancel, for any threads and workers,   *)
(* any number of categories and of commands.                               *)
(*                                                                         *)
(* What a guard promises depends on which commands come where: a drop of   *)
(* the slot is harmless only at the end of a command that took it.  The    *)
(* inductive invariant IInv therefore says which commands are found at     *)
(* which step, and whose op, slot and cancel are.                          *)
(*                                                                         *)
(* The last part is the safety half of coming to rest: nobody waits for    *)
(* ever but for the dialog, and every step uses something up.              *)
(***************************************************************************)
EXTENDS MaintenanceService, TLAPS

\* Which commands are where.
Placed ==
  \A t \in Threads :
    /\ pc[t] \in {"reset", "clear", "free"} => cmd[t] \in Claiming
    /\ pc[t] = "scanning" => cmd[t] = "scan"
    /\ pc[t] = "upfront" => cmd[t] = "policy"
    /\ pc[t] = "loop" => cmd[t] \in {"policy", "dry"}
    /\ pc[t] \in {"reset", "upfront", "loop"} => ok[t] = TRUE
    /\ pc[t] = "drop" => cmd[t] \in Muting \cup {"policy"}
    /\ pc[t] \in {"lock", "gate", "work", "unlock"} => cmd[t] \notin {"none", "scan", "dry"}

\* op names the thread that holds it.
OpOwned == \A t \in Threads : HoldsOp(t) <=> op = t

\* Nothing is about to be mutated in an SSH session but by the one command that
\* had passed the gate.
Gated ==
  /\ since \in 0 .. 1
  /\ ssh /\ since = 1 => \A t \in Threads : pc[t] = "work" => cmd[t] = "preview"

\* The flag is set while a pass is in flight only if the cancel reached it, and
\* no cancel has reached a pass that has still to reset the flag.
CancelsReach ==
  \A t \in Threads : InSlot(t) =>
    /\ t \in hit => pc[t] # "reset"
    /\ InFlight(t) /\ cancel => t \in hit

IInv ==
  /\ TypeOK /\ Placed /\ OpOwned
  /\ SlotHasOneOwner /\ UnmutedAtRest /\ Gated
  /\ CancelStands /\ CancelsReach

-----------------------------------------------------------------------------

\* Nothing is held at first.
LEMMA InitIInv == Init => IInv
<1> SUFFICES ASSUME Init PROVE IInv
  OBVIOUS
<1>1. /\ running \in BOOLEAN /\ cancel \in BOOLEAN /\ ssh \in BOOLEAN
      /\ muted \in BOOLEAN /\ due \in BOOLEAN
  BY Zenon DEF Init
<1>2. ok \in [Threads -> BOOLEAN]
  BY Zenon DEF Init
<1> QED
  BY <1>1, <1>2, ServiceAssumption
  DEF Init, IInv, TypeOK, Placed, OpOwned, SlotHasOneOwner, UnmutedAtRest, Gated,
      CancelStands, CancelsReach, HoldsOp, InSlot, InFlight, PCs, Cmds, Threads

\* Every step keeps the invariant.
LEMMA NextIInv == IInv /\ [Next]_vars => IInv'
<1> SUFFICES ASSUME IInv, [Next]_vars PROVE IInv'
  OBVIOUS
<1>0. /\ TypeOK /\ Placed /\ OpOwned /\ SlotHasOneOwner /\ UnmutedAtRest /\ Gated
      /\ CancelStands /\ CancelsReach
  BY DEF IInv
<1>a. Main \in Threads /\ Scheduler \in Threads /\ None \notin Threads
  BY ServiceAssumption DEF Threads
<1>b. \A t \in Threads : /\ [ok EXCEPT ![t] = TRUE] \in [Threads -> BOOLEAN]
                         /\ [ok EXCEPT ![t] = FALSE] \in [Threads -> BOOLEAN]
  BY <1>0 DEF TypeOK
<1>c. ok \in [Threads -> BOOLEAN]
  BY <1>0 DEF TypeOK
<1> USE ServiceAssumption
    DEF TypeOK, Placed, OpOwned, SlotHasOneOwner, UnmutedAtRest, Gated, CancelStands,
        CancelsReach, HoldsOp, InSlot, InFlight, PCs, Cmds, Claiming, Muting, Goto,
        Spend, Begin, shared, local
<1>1. ASSUME NEW c \in Cmds, Claim(Main, c) PROVE IInv'
  <2>1. running' \in BOOLEAN
    BY <1>0, <1>1, Zenon DEF Claim
  <2>2. ok' \in {ok, [ok EXCEPT ![Main] = TRUE], [ok EXCEPT ![Main] = FALSE]}
    BY <1>0, <1>a, <1>1 DEF Claim
  <2>3. /\ [ok EXCEPT ![Main] = TRUE] \in [Threads -> BOOLEAN]
        /\ [ok EXCEPT ![Main] = FALSE] \in [Threads -> BOOLEAN]
    BY <1>a, <1>b
  <2>4. ok' \in [Threads -> BOOLEAN]
    BY <1>c, <2>2, <2>3, Zenon
  <2>5. TypeOK'
    BY <1>0, <1>a, <1>1, <2>1, <2>4 DEF Claim
  <2>6. Placed'
    BY <1>0, <1>a, <1>1 DEF Claim
  <2>7. OpOwned' /\ UnmutedAtRest' /\ Gated'
    BY <1>0, <1>a, <1>1 DEF Claim
  <2>8. SlotHasOneOwner'
    BY <1>0, <1>a, <1>1 DEF Claim
  <2>9. CancelStands' /\ CancelsReach'
    BY <1>0, <1>a, <1>1 DEF Claim
  <2> QED
    BY <2>5, <2>6, <2>7, <2>8, <2>9 DEF IInv
<1>2. ASSUME NEW t \in Threads, NEW c \in Cmds, Enter(t, c) PROVE IInv'
  <2>1. TypeOK' /\ Placed'
    BY <1>0, <1>a, <1>2 DEF Enter, Lockers
  <2>2. OpOwned' /\ UnmutedAtRest' /\ Gated'
    BY <1>0, <1>a, <1>2 DEF Enter, Lockers
  <2>3. SlotHasOneOwner'
    BY <1>0, <1>a, <1>2 DEF Enter, Lockers
  <2>4. CancelStands' /\ CancelsReach'
    BY <1>0, <1>a, <1>2 DEF Enter, Lockers
  <2> QED
    BY <2>1, <2>2, <2>3, <2>4 DEF IInv
<1>3. CASE Preview
  <2>1. TypeOK' /\ Placed'
    BY <1>0, <1>a, <1>3 DEF Preview
  <2>2. OpOwned' /\ UnmutedAtRest' /\ Gated'
    BY <1>0, <1>a, <1>3 DEF Preview
  <2>3. SlotHasOneOwner'
    BY <1>0, <1>a, <1>3 DEF Preview
  <2>4. CancelStands' /\ CancelsReach'
    BY <1>0, <1>a, <1>3 DEF Preview
  <2> QED
    BY <2>1, <2>2, <2>3, <2>4 DEF IInv
<1>4. CASE Cancel
  <2>1. TypeOK' /\ Placed'
    BY <1>0, <1>a, <1>4 DEF Cancel
  <2>2. OpOwned' /\ UnmutedAtRest' /\ Gated'
    BY <1>0, <1>a, <1>4 DEF Cancel
  <2>3. SlotHasOneOwner'
    BY <1>0, <1>a, <1>4 DEF Cancel
  <2>4. CancelStands' /\ CancelsReach'
    BY <1>0, <1>a, <1>4 DEF Cancel
  <2> QED
    BY <2>1, <2>2, <2>3, <2>4 DEF IInv
<1>5. CASE Tick
  <2>1. running' \in BOOLEAN
    BY <1>0, <1>5, Zenon DEF Tick
  <2>2. ok' \in {ok, [ok EXCEPT ![Scheduler] = TRUE], [ok EXCEPT ![Scheduler] = FALSE]}
    BY <1>0, <1>a, <1>5 DEF Tick
  <2>3. /\ [ok EXCEPT ![Scheduler] = TRUE] \in [Threads -> BOOLEAN]
        /\ [ok EXCEPT ![Scheduler] = FALSE] \in [Threads -> BOOLEAN]
    BY <1>a, <1>b
  <2>4. ok' \in [Threads -> BOOLEAN]
    BY <1>c, <2>2, <2>3, Zenon
  <2>5. TypeOK'
    BY <1>0, <1>a, <1>5, <2>1, <2>4 DEF Tick
  <2>6. Placed'
    BY <1>0, <1>a, <1>5 DEF Tick
  <2>7. OpOwned' /\ UnmutedAtRest' /\ Gated'
    BY <1>0, <1>a, <1>5 DEF Tick
  <2>8. SlotHasOneOwner'
    BY <1>0, <1>a, <1>5 DEF Tick
  <2>9. CancelStands' /\ CancelsReach'
    BY <1>0, <1>a, <1>5 DEF Tick
  <2> QED
    BY <2>5, <2>6, <2>7, <2>8, <2>9 DEF IInv
<1>6. CASE Elapse
  <2>1. TypeOK' /\ Placed'
    BY <1>0, <1>a, <1>6 DEF Elapse
  <2>2. OpOwned' /\ UnmutedAtRest' /\ Gated'
    BY <1>0, <1>a, <1>6 DEF Elapse
  <2>3. SlotHasOneOwner'
    BY <1>0, <1>a, <1>6 DEF Elapse
  <2>4. CancelStands' /\ CancelsReach'
    BY <1>0, <1>a, <1>6 DEF Elapse
  <2> QED
    BY <2>1, <2>2, <2>3, <2>4 DEF IInv
<1>7. CASE Connect
  <2>1. TypeOK' /\ Placed'
    BY <1>0, <1>a, <1>7 DEF Connect
  <2>2. OpOwned' /\ UnmutedAtRest' /\ Gated'
    BY <1>0, <1>a, <1>7 DEF Connect
  <2>3. SlotHasOneOwner'
    BY <1>0, <1>a, <1>7 DEF Connect
  <2>4. CancelStands' /\ CancelsReach'
    BY <1>0, <1>a, <1>7 DEF Connect
  <2> QED
    BY <2>1, <2>2, <2>3, <2>4 DEF IInv
<1>8. CASE Disconnect
  <2>1. TypeOK' /\ Placed'
    BY <1>0, <1>a, <1>8 DEF Disconnect
  <2>2. OpOwned' /\ UnmutedAtRest' /\ Gated'
    BY <1>0, <1>a, <1>8 DEF Disconnect
  <2>3. SlotHasOneOwner'
    BY <1>0, <1>a, <1>8 DEF Disconnect
  <2>4. CancelStands' /\ CancelsReach'
    BY <1>0, <1>a, <1>8 DEF Disconnect
  <2> QED
    BY <2>1, <2>2, <2>3, <2>4 DEF IInv
<1>9. ASSUME NEW t \in Threads, ResetCancel(t) PROVE IInv'
  <2>1. cancel' \in BOOLEAN
    BY <1>0, <1>9, Zenon DEF ResetCancel
  <2>2. TypeOK'
    BY <1>0, <1>a, <1>9, <2>1 DEF ResetCancel
  <2>3. Placed'
    BY <1>0, <1>a, <1>9 DEF ResetCancel
  <2>4. OpOwned' /\ UnmutedAtRest' /\ Gated'
    BY <1>0, <1>a, <1>9 DEF ResetCancel
  <2>5. SlotHasOneOwner'
    BY <1>0, <1>a, <1>9 DEF ResetCancel
  <2>6. CancelStands' /\ CancelsReach'
    BY <1>0, <1>a, <1>9 DEF ResetCancel
  <2> QED
    BY <2>2, <2>3, <2>4, <2>5, <2>6 DEF IInv
<1>10. ASSUME NEW t \in Threads, Scanned(t) PROVE IInv'
  <2>1. TypeOK' /\ Placed'
    BY <1>0, <1>a, <1>10 DEF Scanned
  <2>2. OpOwned' /\ UnmutedAtRest' /\ Gated'
    BY <1>0, <1>a, <1>10 DEF Scanned
  <2>3. SlotHasOneOwner'
    BY <1>0, <1>a, <1>10 DEF Scanned
  <2>4. CancelStands' /\ CancelsReach'
    BY <1>0, <1>a, <1>10 DEF Scanned
  <2> QED
    BY <2>1, <2>2, <2>3, <2>4 DEF IInv
<1>11. ASSUME NEW t \in Threads, Upfront(t) PROVE IInv'
  <2>1. muted' \in BOOLEAN
    BY <1>0, <1>11, Zenon DEF Upfront
  <2>2. ok' \in {ok, [ok EXCEPT ![t] = TRUE], [ok EXCEPT ![t] = FALSE]}
    BY <1>0, <1>a, <1>11 DEF Upfront
  <2>3. /\ [ok EXCEPT ![t] = TRUE] \in [Threads -> BOOLEAN]
        /\ [ok EXCEPT ![t] = FALSE] \in [Threads -> BOOLEAN]
    BY <1>a, <1>b
  <2>4. ok' \in [Threads -> BOOLEAN]
    BY <1>c, <2>2, <2>3, Zenon
  <2>5. TypeOK'
    BY <1>0, <1>a, <1>11, <2>1, <2>4 DEF Upfront
  <2>6. Placed'
    BY <1>0, <1>a, <1>11 DEF Upfront
  <2>7. OpOwned' /\ UnmutedAtRest' /\ Gated'
    BY <1>0, <1>a, <1>11 DEF Upfront
  <2>8. SlotHasOneOwner'
    BY <1>0, <1>a, <1>11 DEF Upfront
  <2>9. CancelStands' /\ CancelsReach'
    BY <1>0, <1>a, <1>11 DEF Upfront
  <2> QED
    BY <2>5, <2>6, <2>7, <2>8, <2>9 DEF IInv
<1>12. ASSUME NEW t \in Threads, LoopCancelled(t) PROVE IInv'
  <2>1. TypeOK' /\ Placed'
    BY <1>0, <1>a, <1>12 DEF LoopCancelled
  <2>2. OpOwned' /\ UnmutedAtRest' /\ Gated'
    BY <1>0, <1>a, <1>12 DEF LoopCancelled
  <2>3. SlotHasOneOwner'
    BY <1>0, <1>a, <1>12 DEF LoopCancelled
  <2>4. CancelStands' /\ CancelsReach'
    BY <1>0, <1>a, <1>12 DEF LoopCancelled
  <2> QED
    BY <2>1, <2>2, <2>3, <2>4 DEF IInv
<1>13. ASSUME NEW t \in Threads, LoopSkips(t) PROVE IInv'
  <2>1. TypeOK' /\ Placed'
    BY <1>0, <1>a, <1>13 DEF LoopSkips
  <2>2. OpOwned' /\ UnmutedAtRest' /\ Gated'
    BY <1>0, <1>a, <1>13 DEF LoopSkips
  <2>3. SlotHasOneOwner'
    BY <1>0, <1>a, <1>13 DEF LoopSkips
  <2>4. CancelStands' /\ CancelsReach'
    BY <1>0, <1>a, <1>13 DEF LoopSkips
  <2> QED
    BY <2>1, <2>2, <2>3, <2>4 DEF IInv
<1>14. ASSUME NEW t \in Threads, LoopMoves(t) PROVE IInv'
  <2>1. TypeOK' /\ Placed'
    BY <1>0, <1>a, <1>14 DEF LoopMoves
  <2>2. OpOwned' /\ UnmutedAtRest' /\ Gated'
    BY <1>0, <1>a, <1>14 DEF LoopMoves
  <2>3. SlotHasOneOwner'
    BY <1>0, <1>a, <1>14 DEF LoopMoves
  <2>4. CancelStands' /\ CancelsReach'
    BY <1>0, <1>a, <1>14 DEF LoopMoves
  <2> QED
    BY <2>1, <2>2, <2>3, <2>4 DEF IInv
<1>15. ASSUME NEW t \in Threads, LoopFails(t) PROVE IInv'
  <2>1. TypeOK' /\ Placed'
    BY <1>0, <1>a, <1>15 DEF LoopFails
  <2>2. OpOwned' /\ UnmutedAtRest' /\ Gated'
    BY <1>0, <1>a, <1>15 DEF LoopFails
  <2>3. SlotHasOneOwner'
    BY <1>0, <1>a, <1>15 DEF LoopFails
  <2>4. CancelStands' /\ CancelsReach'
    BY <1>0, <1>a, <1>15 DEF LoopFails
  <2> QED
    BY <2>1, <2>2, <2>3, <2>4 DEF IInv
<1>16. ASSUME NEW t \in Threads, LoopEnds(t) PROVE IInv'
  <2>1. due' \in BOOLEAN
    BY <1>0, <1>16, Zenon DEF LoopEnds
  <2>2. TypeOK'
    BY <1>0, <1>a, <1>16, <2>1 DEF LoopEnds
  <2>3. Placed'
    BY <1>0, <1>a, <1>16 DEF LoopEnds
  <2>4. OpOwned' /\ UnmutedAtRest' /\ Gated'
    BY <1>0, <1>a, <1>16 DEF LoopEnds
  <2>5. SlotHasOneOwner'
    BY <1>0, <1>a, <1>16 DEF LoopEnds
  <2>6. CancelStands' /\ CancelsReach'
    BY <1>0, <1>a, <1>16 DEF LoopEnds
  <2> QED
    BY <2>2, <2>3, <2>4, <2>5, <2>6 DEF IInv
<1>17. ASSUME NEW t \in Threads, Lock(t) PROVE IInv'
  <2>1. TypeOK' /\ Placed'
    BY <1>0, <1>a, <1>17 DEF Lock
  <2>2. OpOwned' /\ UnmutedAtRest' /\ Gated'
    BY <1>0, <1>a, <1>17 DEF Lock
  <2>3. SlotHasOneOwner'
    BY <1>0, <1>a, <1>17 DEF Lock
  <2>4. CancelStands' /\ CancelsReach'
    BY <1>0, <1>a, <1>17 DEF Lock
  <2> QED
    BY <2>1, <2>2, <2>3, <2>4 DEF IInv
<1>18. ASSUME NEW t \in Threads, Gate(t) PROVE IInv'
  <2>1. muted' \in BOOLEAN
    BY <1>0, <1>18, Zenon DEF Gate
  <2>2. ok' \in {ok, [ok EXCEPT ![t] = TRUE], [ok EXCEPT ![t] = FALSE]}
    BY <1>0, <1>a, <1>18 DEF Gate
  <2>3. /\ [ok EXCEPT ![t] = TRUE] \in [Threads -> BOOLEAN]
        /\ [ok EXCEPT ![t] = FALSE] \in [Threads -> BOOLEAN]
    BY <1>a, <1>b
  <2>4. ok' \in [Threads -> BOOLEAN]
    BY <1>c, <2>2, <2>3, Zenon
  <2>5. TypeOK'
    BY <1>0, <1>a, <1>18, <2>1, <2>4 DEF Gate
  <2>6. Placed'
    BY <1>0, <1>a, <1>18 DEF Gate
  <2>7. OpOwned' /\ UnmutedAtRest' /\ Gated'
    BY <1>0, <1>a, <1>18 DEF Gate
  <2>8. SlotHasOneOwner'
    BY <1>0, <1>a, <1>18 DEF Gate
  <2>9. CancelStands' /\ CancelsReach'
    BY <1>0, <1>a, <1>18 DEF Gate
  <2> QED
    BY <2>5, <2>6, <2>7, <2>8, <2>9 DEF IInv
<1>19. ASSUME NEW t \in Threads, Work(t) PROVE IInv'
  <2>1. TypeOK' /\ Placed'
    BY <1>0, <1>a, <1>19 DEF Work
  <2>2. OpOwned' /\ UnmutedAtRest' /\ Gated'
    BY <1>0, <1>a, <1>19 DEF Work
  <2>3. SlotHasOneOwner'
    BY <1>0, <1>a, <1>19 DEF Work
  <2>4. CancelStands' /\ CancelsReach'
    BY <1>0, <1>a, <1>19 DEF Work
  <2> QED
    BY <2>1, <2>2, <2>3, <2>4 DEF IInv
<1>20. ASSUME NEW t \in Threads, DropMute(t) PROVE IInv'
  <2>1. muted' \in BOOLEAN
    BY <1>0, <1>20, Zenon DEF DropMute
  <2>2. TypeOK'
    BY <1>0, <1>a, <1>20, <2>1 DEF DropMute
  <2>3. Placed'
    BY <1>0, <1>a, <1>20 DEF DropMute
  <2>4. OpOwned' /\ UnmutedAtRest' /\ Gated'
    BY <1>0, <1>a, <1>20 DEF DropMute
  <2>5. SlotHasOneOwner'
    BY <1>0, <1>a, <1>20 DEF DropMute
  <2>6. CancelStands' /\ CancelsReach'
    BY <1>0, <1>a, <1>20 DEF DropMute
  <2> QED
    BY <2>2, <2>3, <2>4, <2>5, <2>6 DEF IInv
<1>21. ASSUME NEW t \in Threads, Unlock(t) PROVE IInv'
  <2>1. TypeOK' /\ Placed'
    BY <1>0, <1>a, <1>21 DEF Unlock
  <2>2. OpOwned' /\ UnmutedAtRest' /\ Gated'
    BY <1>0, <1>a, <1>21 DEF Unlock
  <2>3. SlotHasOneOwner'
    BY <1>0, <1>a, <1>21 DEF Unlock
  <2>4. CancelStands' /\ CancelsReach'
    BY <1>0, <1>a, <1>21 DEF Unlock
  <2> QED
    BY <2>1, <2>2, <2>3, <2>4 DEF IInv
<1>22. ASSUME NEW t \in Threads, ClearCancel(t) PROVE IInv'
  <2>1. cancel' \in BOOLEAN
    BY <1>0, <1>22, Zenon DEF ClearCancel
  <2>2. TypeOK'
    BY <1>0, <1>a, <1>22, <2>1 DEF ClearCancel
  <2>3. Placed'
    BY <1>0, <1>a, <1>22 DEF ClearCancel
  <2>4. OpOwned' /\ UnmutedAtRest' /\ Gated'
    BY <1>0, <1>a, <1>22 DEF ClearCancel
  <2>5. SlotHasOneOwner'
    BY <1>0, <1>a, <1>22 DEF ClearCancel
  <2>6. CancelStands' /\ CancelsReach'
    BY <1>0, <1>a, <1>22 DEF ClearCancel
  <2> QED
    BY <2>2, <2>3, <2>4, <2>5, <2>6 DEF IInv
<1>23. ASSUME NEW t \in Threads, Free(t) PROVE IInv'
  <2>1. running' \in BOOLEAN
    BY <1>0, <1>23, Zenon DEF Free
  <2>2. ok' \in {ok, [ok EXCEPT ![t] = TRUE], [ok EXCEPT ![t] = FALSE]}
    BY <1>0, <1>a, <1>23 DEF Free
  <2>3. /\ [ok EXCEPT ![t] = TRUE] \in [Threads -> BOOLEAN]
        /\ [ok EXCEPT ![t] = FALSE] \in [Threads -> BOOLEAN]
    BY <1>a, <1>b
  <2>4. ok' \in [Threads -> BOOLEAN]
    BY <1>c, <2>2, <2>3, Zenon
  <2>5. TypeOK'
    BY <1>0, <1>a, <1>23, <2>1, <2>4 DEF Free
  <2>6. Placed'
    BY <1>0, <1>a, <1>23 DEF Free
  <2>7. OpOwned' /\ UnmutedAtRest' /\ Gated'
    BY <1>0, <1>a, <1>23 DEF Free
  <2>8. SlotHasOneOwner'
    BY <1>0, <1>a, <1>23 DEF Free
  <2>9. CancelStands' /\ CancelsReach'
    BY <1>0, <1>a, <1>23 DEF Free
  <2> QED
    BY <2>5, <2>6, <2>7, <2>8, <2>9 DEF IInv
<1>24. CASE UNCHANGED vars
  BY <1>0, <1>24 DEF vars, IInv
<1> QED
  BY <1>a, <1>1, <1>2, <1>3, <1>4, <1>5, <1>6, <1>7, <1>8, <1>9, <1>10, <1>11,
     <1>12, <1>13, <1>14, <1>15, <1>16, <1>17, <1>18, <1>19, <1>20, <1>21, <1>22, <1>23, <1>24 DEF Next, Step

\* Hence it holds throughout.
LEMMA MaintenanceInvariance == Spec => []IInv
  BY InitIInv, NextIInv, PTL DEF Spec

-----------------------------------------------------------------------------

\* The types, with left and since within their bounds.
THEOREM MaintenanceTypeCorrect == Spec => []TypeOK
<1>1. IInv => TypeOK
  BY DEF IInv
<1> QED
  BY <1>1, MaintenanceInvariance, PTL

\* Two commands are never between lock_op and the end of its guard together; no
\* refusal, failure or cancel frees the slot of another command or leaks it; and
\* the front end is unmuted whenever no MuteGuard is alive.
THEOREM GuardsHold == Spec => []GuardsAgree
<1>1. IInv => MutationsExclude
  BY DEF IInv, OpOwned, MutationsExclude
<1>2. IInv => SlotHasOneOwner /\ UnmutedAtRest
  BY DEF IInv
<1>3. IInv => GuardsAgree
  BY <1>1, <1>2 DEF GuardsAgree
<1> QED
  BY <1>3, MaintenanceInvariance, PTL

\* Once an SSH session is connected, at most one mutation is still made.
THEOREM GateHolds == Spec => []AtMostOneAfterConnect
<1>1. IInv => AtMostOneAfterConnect
  BY DEF IInv, Gated, AtMostOneAfterConnect
<1> QED
  BY <1>1, MaintenanceInvariance, PTL

\* A cancel that reached a pass in the slot stands until the pass is over.
THEOREM CancelReachesPass == Spec => []CancelStands
<1>1. IInv => CancelStands
  BY DEF IInv
<1> QED
  BY <1>1, MaintenanceInvariance, PTL

\* A pass in the slot is cancelled only by a cancel that came while it was in
\* flight.
THEOREM NoStaleCancel == Spec => CancelledPassWasHit
<1> DEFINE A == \A t \in Threads : LoopCancelled(t) /\ cmd[t] = "policy" => t \in hit
<1>1. IInv => A
  BY DEF IInv, CancelsReach, LoopCancelled, InSlot, InFlight, Claiming
<1>2. CancelledPassWasHit <=> [][A]_vars
  BY DEF CancelledPassWasHit
<1> QED
  BY <1>1, <1>2, MaintenanceInvariance, PTL

\* last_cleanup_ms is stamped only by a pass that went through everything.
THEOREM StaysDueUntilDone == Spec => DueUntilDone
<1> DEFINE A == due /\ ~due' => \E t \in Threads : /\ cmd[t] = "policy" /\ pc[t] = "loop"
                                                   /\ left[t] = 0 /\ ok[t]
<1>1. IInv /\ [Next]_vars => [A]_vars
  <2> SUFFICES ASSUME IInv, Next, due, ~due'
               PROVE  \E t \in Threads : /\ cmd[t] = "policy" /\ pc[t] = "loop"
                                         /\ left[t] = 0 /\ ok[t]
    OBVIOUS
  <2>1. PICK t \in Threads : LoopEnds(t)
    BY DEF Next, Step, Claim, Enter, Preview, Cancel, Tick, Elapse, Connect, Disconnect,
       ResetCancel, Scanned, Upfront, LoopCancelled, LoopSkips, LoopMoves, LoopFails,
       Lock, Gate, Work, DropMute, Unlock, ClearCancel, Free, shared, local
  <2> QED
    BY <2>1 DEF LoopEnds, IInv, Placed
<1>2. [][A]_vars <=> DueUntilDone
  BY DEF DueUntilDone
<1> QED
  BY <1>1, <1>2, MaintenanceInvariance, PTL DEF Spec
-----------------------------------------------------------------------------
(***************************************************************************)
(* Coming to rest: the part of ComesToRest that is not fairness.  Somebody *)
(* can go on, or the dialog and the main thread wait for each other; no    *)
(* thread goes on for ever; and when all are done nothing is left behind.  *)
(***************************************************************************)

\* t is in a command and waits for nobody.
Ready(t) ==
  \/ pc[t] \in PCs \ {"idle", "lock", "work"}
  \/ pc[t] = "lock" /\ op = None
  \/ pc[t] = "work" /\ (cmd[t] = "export" => pc[Main] = "idle")

SomebodyReady ==
  (\E t \in Threads : pc[t] # "idle") => (\E t \in Threads : Ready(t)) \/ DialogDeadlock

NothingLeft ==
  (\A t \in Threads : pc[t] = "idle") => op = None /\ ~running /\ ~muted

\* Only workers have dialogs; and who holds a MuteGuard is where it is dropped.
Guarding ==
  \A t \in Threads :
    /\ cmd[t] = "export" => t \in Workers
    /\ t \in guards => \/ cmd[t] \in Muting /\ pc[t] \in {"work", "drop"}
                       \/ cmd[t] = "policy" /\ pc[t] \in {"loop", "lock", "gate", "work", "unlock", "drop"}

\* How many steps of its own are left to t: a pass has at most five to a
\* category, and after a scheduled one there may be a dry run.
Rank(t) ==
  LET after == Categories + 3
      all == Categories + 1
  IN CASE pc[t] = "idle" -> 0
       [] pc[t] # "idle" /\ cmd[t] = "dry" -> left[t] + 1
       [] pc[t] # "idle" /\ cmd[t] = "policy" ->
            after + (CASE pc[t] = "free"    -> 0
                       [] pc[t] = "clear"   -> 1
                       [] pc[t] = "drop"    -> 2
                       [] pc[t] = "loop"    -> 3 + 5 * left[t]
                       [] pc[t] = "unlock"  -> 4 + 5 * left[t]
                       [] pc[t] = "work"    -> 5 + 5 * left[t]
                       [] pc[t] = "gate"    -> 6 + 5 * left[t]
                       [] pc[t] = "lock"    -> 7 + 5 * left[t]
                       [] pc[t] = "upfront" -> 4 + 5 * all
                       [] OTHER             -> 5 + 5 * all)
       [] OTHER ->
            after + (CASE pc[t] = "free"     -> 0
                       [] pc[t] = "clear"    -> 1
                       [] pc[t] = "unlock"   -> 2
                       [] pc[t] = "drop"     -> 3
                       [] pc[t] = "work"     -> 4
                       [] pc[t] = "gate"     -> 5
                       [] pc[t] = "lock"     -> 6
                       [] pc[t] = "scanning" -> 7
                       [] OTHER              -> 8)

\* Every step uses up a command to come, an SSH session, or a step of the thread
\* that makes it.
UsesUp ==
  \/ budget' < budget
  \/ budget' = budget /\ ssh /\ ~ssh'
  \/ /\ budget' = budget /\ ssh' = ssh
     /\ \E t \in Threads : /\ Rank(t)' \in Nat /\ Rank(t)' < Rank(t)
                           /\ \A u \in Threads \ {t} : Rank(u)' = Rank(u)

LEMMA GuardingNext == IInv /\ Guarding /\ [Next]_vars => Guarding'
<1> SUFFICES ASSUME IInv, Guarding, [Next]_vars PROVE Guarding'
  OBVIOUS
<1>1. TypeOK /\ Placed /\ Main \in Threads /\ Scheduler \in Threads /\ Main \notin Workers
  BY ServiceAssumption DEF IInv, Threads
<1> USE DEF Guarding, Goto, shared, local
<1>2. ASSUME NEW t \in Threads, NEW c \in Cmds, NEW l, Begin(t, c, l), pc[t] \in {"idle", "free"}, guards' = guards,
             c = "export" => t \in Workers
      PROVE  Guarding'
  <2>1. /\ cmd' = [cmd EXCEPT ![t] = c] /\ pc' = [pc EXCEPT ![t] = l]
        /\ cmd \in [Threads -> Cmds] /\ pc \in [Threads -> PCs]
    BY <1>1, <1>2 DEF Begin, TypeOK
  <2>2. t \notin guards
    BY <1>2
  <2> QED
    BY <1>2, <2>1, <2>2
<1>3. ASSUME UNCHANGED <<pc, cmd, guards>> PROVE Guarding'
  BY <1>3
<1>4. ASSUME NEW c \in Cmds, Claim(Main, c) PROVE Guarding'
  BY <1>1, <1>2, <1>3, <1>4 DEF Claim, Claiming
<1>5. ASSUME NEW t \in Threads, NEW c \in Cmds, Enter(t, c) PROVE Guarding'
  BY <1>2, <1>5 DEF Enter, Lockers
<1>6. CASE Preview
  BY <1>1, <1>2, <1>6 DEF Preview, Cmds
<1>7. CASE Tick
  BY <1>1, <1>2, <1>3, <1>7 DEF Tick, Cmds
<1>8. CASE Cancel \/ Elapse \/ Connect \/ Disconnect \/ UNCHANGED vars
  BY <1>3, <1>8 DEF Cancel, Elapse, Connect, Disconnect, vars
<1>9. ASSUME NEW t \in Threads, Step(t) PROVE Guarding'
  <2>1. pc \in [Threads -> PCs] /\ cmd \in [Threads -> Cmds]
    BY <1>1 DEF TypeOK
  <2>2. CASE Free(t)
    <3>1. CASE Goto(t, "idle") /\ UNCHANGED <<cmd, left, ok, hit>>
      BY <2>1, <2>2, <3>1 DEF Free
    <3>2. CASE t = Scheduler /\ Begin(t, "dry", "loop")
      BY <1>2, <2>2, <3>2 DEF Free, Cmds
    <3> QED
      BY <2>2, <3>1, <3>2 DEF Free
  <2>3. CASE ResetCancel(t) \/ Scanned(t) \/ ClearCancel(t)
    BY <2>1, <2>3 DEF ResetCancel, Scanned, ClearCancel
  <2>4. CASE Upfront(t)
    BY <1>1, <2>1, <2>4 DEF Upfront, Placed
  <2>5. CASE LoopCancelled(t) \/ LoopFails(t) \/ LoopEnds(t)
    BY <2>1, <2>5 DEF LoopCancelled, LoopFails, LoopEnds, Muting
  <2>6. CASE LoopSkips(t) \/ LoopMoves(t)
    BY <2>1, <2>6 DEF LoopSkips, LoopMoves, Muting
  <2>7. CASE Lock(t)
    BY <2>1, <2>7 DEF Lock, Muting
  <2>8. CASE Gate(t)
    BY <2>1, <2>8 DEF Gate, Muting
  <2>9. CASE Work(t)
    BY <2>1, <2>9 DEF Work, Muting
  <2>10. CASE DropMute(t) \/ Unlock(t)
    BY <2>1, <2>10 DEF DropMute, Unlock, Muting
  <2> QED
    BY <1>9, <2>2, <2>3, <2>4, <2>5, <2>6, <2>7, <2>8, <2>9, <2>10 DEF Step
<1> QED
  BY <1>4, <1>5, <1>6, <1>7, <1>8, <1>9 DEF Next

LEMMA SpecGuarding == Spec => []Guarding
<1>1. Init => Guarding
  BY DEF Init, Guarding
<1> QED
  BY <1>1, GuardingNext, MaintenanceInvariance, PTL DEF Spec

\* As long as a command is under way somebody can go on, however many threads
\* wait for op, but where the dialog of export_backup waits for the main thread
\* and the main thread for op.
THEOREM SomebodyGoesOn == Spec => []SomebodyReady
<1>1. IInv /\ Guarding => SomebodyReady
  <2> SUFFICES ASSUME IInv, Guarding, NEW t \in Threads, pc[t] # "idle", \A u \in Threads : ~Ready(u)
               PROVE  DialogDeadlock
    BY DEF SomebodyReady
  <2>1. pc \in [Threads -> PCs] /\ op \in Threads \cup {None} /\ Main \in Threads /\ Main \notin Workers
    BY ServiceAssumption DEF IInv, TypeOK, Threads
  <2>2. \A u \in Threads : pc[u] \in {"idle", "lock", "work"}
    BY <2>1 DEF Ready
  <2>3. PICK u \in Threads : op = u /\ pc[u] = "work"
    <3>1. pc[t] = "work" => op = t
      BY DEF IInv, OpOwned, HoldsOp
    <3>2. pc[t] = "lock" => op \in Threads
      BY <2>1 DEF Ready
    <3>3. op \in Threads
      BY <2>2, <3>1, <3>2
    <3>4. HoldsOp(op)
      BY <3>3 DEF IInv, OpOwned
    <3> QED
      BY <2>2, <3>3, <3>4 DEF HoldsOp
  <2>4. cmd[u] = "export" /\ pc[Main] # "idle"
    BY <2>3 DEF Ready
  <2>5. pc[Main] = "lock"
    <3>1. u # Main
      BY <2>1, <2>4 DEF Guarding
    <3>2. pc[Main] # "work"
      BY <2>1, <2>3, <3>1 DEF IInv, OpOwned, HoldsOp
    <3> QED
      BY <2>1, <2>2, <2>4, <3>2
  <2> QED
    BY <2>3, <2>4, <2>5 DEF DialogDeadlock
<1> QED
  BY <1>1, MaintenanceInvariance, SpecGuarding, PTL

\* When every thread is done op and the slot are free and the watcher is not
\* muted.
THEOREM RestIsClean == Spec => []NothingLeft
<1>1. IInv /\ Guarding => NothingLeft
  <2> SUFFICES ASSUME IInv, Guarding, \A t \in Threads : pc[t] = "idle"
               PROVE  op = None /\ ~running /\ ~muted
    BY DEF NothingLeft
  <2>1. op = None
    BY DEF IInv, TypeOK, OpOwned, HoldsOp
  <2>2. ~running
    BY DEF IInv, SlotHasOneOwner, InSlot
  <2>3. guards = {}
    BY DEF IInv, TypeOK, Guarding
  <2> QED
    BY <2>1, <2>2, <2>3 DEF IInv, UnmutedAtRest
<1> QED
  BY <1>1, MaintenanceInvariance, SpecGuarding, PTL

LEMMA RankKept ==
  ASSUME NEW u, pc'[u] = pc[u], cmd'[u] = cmd[u], left'[u] = left[u]
  PROVE  Rank(u)' = Rank(u)
  BY DEF Rank

\* A step of a thread leaves it fewer.
LEMMA RankFalls ==
  ASSUME IInv, NEW t \in Threads, Step(t)
  PROVE  Rank(t)' \in Nat /\ Rank(t)' < Rank(t)
<1>1. /\ Categories \in Nat /\ left[t] \in 0 .. Categories + 1 /\ cmd[t] \in Cmds
      /\ pc \in [Threads -> PCs] /\ cmd \in [Threads -> Cmds] /\ left \in [Threads -> 0 .. Categories + 1]
  BY ServiceAssumption DEF IInv, TypeOK
<1>2. Placed
  BY DEF IInv
<1> USE <1>1, <1>2 DEF Goto, shared, local, Rank, Placed, Claiming, Muting
<1>3. CASE ResetCancel(t)
  BY <1>3 DEF ResetCancel
<1>4. CASE Scanned(t)
  BY <1>4 DEF Scanned
<1>5. CASE Upfront(t)
  BY <1>5 DEF Upfront
<1>6. CASE LoopCancelled(t) \/ LoopFails(t)
  BY <1>6 DEF LoopCancelled, LoopFails
<1>7. CASE LoopSkips(t)
  BY <1>7 DEF LoopSkips
<1>8. CASE LoopMoves(t)
  BY <1>8 DEF LoopMoves
<1>9. CASE LoopEnds(t)
  BY <1>9 DEF LoopEnds
<1>10. CASE Lock(t)
  BY <1>10 DEF Lock
<1>11. CASE Gate(t)
  BY <1>11 DEF Gate
<1>12. CASE Work(t)
  BY <1>12 DEF Work
<1>13. CASE DropMute(t)
  BY <1>13 DEF DropMute
<1>14. CASE Unlock(t)
  BY <1>14 DEF Unlock
<1>15. CASE ClearCancel(t)
  BY <1>15 DEF ClearCancel
<1>16. CASE Free(t)
  BY <1>16 DEF Free, Begin
<1> QED
  BY <1>3, <1>4, <1>5, <1>6, <1>7, <1>8, <1>9, <1>10, <1>11, <1>12, <1>13, <1>14, <1>15, <1>16 DEF Step

LEMMA RankOfOthers ==
  ASSUME IInv, NEW t \in Threads, Step(t), NEW u \in Threads \ {t}
  PROVE  Rank(u)' = Rank(u)
<1>1. pc'[u] = pc[u] /\ cmd'[u] = cmd[u] /\ left'[u] = left[u]
  BY DEF IInv, TypeOK, Goto, shared, local, Step, ResetCancel, Scanned, Upfront, LoopCancelled, LoopSkips, LoopMoves,
     LoopFails, LoopEnds, Lock, Gate, Work, DropMute, Unlock, ClearCancel, Free, Begin
<1> QED
  BY <1>1, RankKept

\* No command goes on for ever: between two commands, or connections, that still
\* come there are only so many steps, and each is one less for the thread that
\* makes it and no more for any other.
THEOREM StepsRunOut == Spec => [][UsesUp]_vars
<1>1. IInv /\ [Next]_vars => [UsesUp]_vars
  <2> SUFFICES ASSUME IInv, Next PROVE UsesUp
    OBVIOUS
  <2>1. CASE Spend
    BY <2>1 DEF Spend, UsesUp, IInv, TypeOK
  <2>2. CASE Disconnect
    BY <2>2 DEF Disconnect, UsesUp
  <2>3. ASSUME NEW t \in Threads, Step(t) PROVE UsesUp
    <3>1. budget' = budget /\ ssh' = ssh
      BY <2>3 DEF shared, local, Step, ResetCancel, Scanned, Upfront, LoopCancelled, LoopSkips, LoopMoves,
         LoopFails, LoopEnds, Lock, Gate, Work, DropMute, Unlock, ClearCancel, Free
    <3> QED
      BY <2>3, <3>1, RankFalls, RankOfOthers DEF UsesUp
  <2> QED
    BY <2>1, <2>2, <2>3 DEF Next, Claim, Enter, Preview, Cancel, Tick, Elapse, Connect
<1> QED
  BY <1>1, MaintenanceInvariance, PTL DEF Spec
=============================================================================
