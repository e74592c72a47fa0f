---------------------------- MODULE HistoryProofs ----------------------------
(***************************************************************************)
(* No prompt is lost by prune_history but in its window, and none is in    *)
(* two places without a fault, for any number of lines, faults and stops.  *)
(* A step of the command relies on what the steps before it found: the     *)
(* inductive invariant IInv says what each value of pc still knows.        *)
(***************************************************************************)
EXTENDS HistoryPrune, TLAPS

Splits  == {"tail", "head", "check", "trash", "rename"}
Reading == {"split", "tail", "head", "check"}

\* What the command knows of the file: which lines it saw, and that head and
\* tail are all of them.
Knows ==
  /\ pc \in Reading => snap \subseteq file
  /\ pc \in {"tail", "head", "check"} => snap \subseteq head \cup tail
  /\ pc \in {"trash", "rename"} => file \subseteq head \cup tail \cup exposed
  /\ pc \in Splits => /\ head \subseteq file /\ head \cap tail = {}
                      /\ tail \cap Undated = {}
  /\ pc = "rename" => tail \subseteq trashed

\* Where a line is: nowhere twice, but for the tail that is about to leave.
Placed ==
  /\ pc # "rename" => file \cap trashed \subseteq doubled
  /\ pc = "rename" => file \cap trashed \subseteq doubled \cup tail
  /\ trashed \cap Undated = {}

\* Which attempts were raced: what has been appended since a snapshot tells.
Attempts ==
  /\ pc # "idle" => attempt \in 0 .. 1
  /\ attempt \in 1 .. 2 => 0 \in raced
  /\ attempt = 2 => 1 \in raced
  /\ pc \in Reading => file = snap \/ attempt \in raced

IInv == TypeOK /\ NothingLost /\ Knows /\ Placed /\ Attempts /\ StraysAccounted

\* The program starts in a state of the invariant.
LEMMA InitIInv == Init => IInv
<1> SUFFICES ASSUME Init PROVE IInv
  OBVIOUS
<1>1. tmp \in BOOLEAN /\ tailed \in BOOLEAN
  BY Zenon DEF Init
<1> QED
  BY <1>1, HistoryAssumption DEF Init, IInv, TypeOK, NothingLost, Knows, Placed,
     Attempts, StraysAccounted, PCs, Splits, Reading

\* Every step of the CLI, of the command and of the faults keeps the invariant.
LEMMA NextIInv == IInv /\ [Next]_vars => IInv'
<1> SUFFICES ASSUME IInv, [Next]_vars PROVE IInv'
  OBVIOUS
<1> USE HistoryAssumption DEF IInv, TypeOK, NothingLost, Knows, Placed, Attempts,
        StraysAccounted, PCs, Splits, Reading, Goto, Fault, disk, command, history
<1>1. CASE CliOpen
  BY <1>1 DEF CliOpen
<1>2. CASE CliWrite
  <2>1. /\ last' = last + 1 /\ last' \in Nat
        /\ 1 .. last' = (1 .. last) \cup {last'} /\ last' \notin 1 .. last
    BY <1>2 DEF CliWrite
  <2>2. TypeOK'
    BY <1>2, <2>1 DEF CliWrite
  <2>3. NothingLost'
    BY <1>2, <2>1 DEF CliWrite
  <2>4. Knows'
    BY <1>2, <2>1 DEF CliWrite
  <2>5. Placed'
    BY <1>2, <2>1 DEF CliWrite
  <2>6. Attempts' /\ StraysAccounted'
    BY <1>2, <2>1 DEF CliWrite
  <2> QED
    BY <2>2, <2>3, <2>4, <2>5, <2>6
<1>3. CASE PruneHistory
  BY <1>3 DEF PruneHistory
<1>4. CASE StatSnapshot
  BY <1>4 DEF StatSnapshot
<1>5. CASE SplitHistory
  BY <1>5 DEF SplitHistory, Prunable
<1>6. CASE SplitFails
  BY <1>6 DEF SplitFails
<1>7. CASE WriteTail
  BY <1>7 DEF WriteTail
<1>8. CASE WriteTailFails
  BY <1>8 DEF WriteTailFails
<1>9. CASE WriteHead
  BY <1>9 DEF WriteHead
<1>10. CASE WriteHeadFails
  <2>0. tmp' \in BOOLEAN /\ tailed' \in BOOLEAN
    BY <1>10, Zenon DEF WriteHeadFails
  <2>1. TypeOK'
    BY <1>10, <2>0 DEF WriteHeadFails
  <2>2. NothingLost'
    BY <1>10 DEF WriteHeadFails
  <2>3. Knows'
    BY <1>10 DEF WriteHeadFails
  <2>4. Placed'
    BY <1>10 DEF WriteHeadFails
  <2>5. Attempts'
    BY <1>10 DEF WriteHeadFails
  <2>6. StraysAccounted'
    BY <1>10 DEF WriteHeadFails
  <2> QED
    BY <2>1, <2>2, <2>3, <2>4, <2>5, <2>6
<1>11. CASE Check
  <2>0. tmp' \in BOOLEAN /\ tailed' \in BOOLEAN
    BY <1>11, Zenon DEF Check
  <2>1. TypeOK'
    <3>1. CASE file = snap
      BY <1>11, <2>0, <3>1 DEF Check
    <3>2. CASE file # snap
      <4>1. attempt \in 0 .. 1 /\ attempt' = attempt + 1 /\ attempt' \in 0 .. 2
        BY <1>11, <3>2 DEF Check
      <4> QED
        BY <1>11, <2>0, <3>2, <4>1 DEF Check
    <3> QED
      BY <3>1, <3>2
  <2>2. NothingLost'
    BY <1>11 DEF Check
  <2>3. Knows'
    BY <1>11 DEF Check
  <2>4. Placed'
    BY <1>11 DEF Check
  <2>5. Attempts'
    BY <1>11 DEF Check
  <2>6. StraysAccounted'
    BY <1>11 DEF Check
  <2> QED
    BY <2>1, <2>2, <2>3, <2>4, <2>5, <2>6
<1>12. CASE TrashTail
  BY <1>12 DEF TrashTail
<1>13. CASE TrashTailFails
  <2>0. tmp' \in BOOLEAN /\ tailed' \in BOOLEAN
    BY <1>13, Zenon DEF TrashTailFails
  <2>1. TypeOK'
    BY <1>13, <2>0 DEF TrashTailFails
  <2>2. NothingLost'
    BY <1>13 DEF TrashTailFails
  <2>3. Knows'
    BY <1>13 DEF TrashTailFails
  <2>4. Placed'
    BY <1>13 DEF TrashTailFails
  <2>5. Attempts'
    BY <1>13 DEF TrashTailFails
  <2>6. StraysAccounted'
    BY <1>13 DEF TrashTailFails
  <2> QED
    BY <2>1, <2>2, <2>3, <2>4, <2>5, <2>6
<1>14. CASE RenameHead
  BY <1>14 DEF RenameHead
<1>15. CASE RenameHeadFails
  <2>0. tmp' \in BOOLEAN /\ tailed' \in BOOLEAN
    BY <1>15, Zenon DEF RenameHeadFails
  <2>1. TypeOK'
    BY <1>15, <2>0 DEF RenameHeadFails
  <2>2. NothingLost'
    BY <1>15 DEF RenameHeadFails
  <2>3. Knows'
    BY <1>15 DEF RenameHeadFails
  <2>4. Placed'
    BY <1>15 DEF RenameHeadFails
  <2>5. Attempts'
    BY <1>15 DEF RenameHeadFails
  <2>6. StraysAccounted'
    BY <1>15 DEF RenameHeadFails
  <2> QED
    BY <2>1, <2>2, <2>3, <2>4, <2>5, <2>6
<1>16. CASE Stop
  <2>0. tmp' \in BOOLEAN /\ tailed' \in BOOLEAN
    BY <1>16, Zenon DEF Stop
  <2>1. TypeOK'
    BY <1>16, <2>0 DEF Stop
  <2>2. NothingLost'
    BY <1>16 DEF Stop
  <2>3. Knows'
    BY <1>16 DEF Stop
  <2>4. Placed'
    BY <1>16 DEF Stop
  <2>5. Attempts'
    BY <1>16 DEF Stop
  <2>6. StraysAccounted'
    BY <1>16 DEF Stop
  <2> QED
    BY <2>1, <2>2, <2>3, <2>4, <2>5, <2>6
<1>17. CASE UNCHANGED vars
  BY <1>17 DEF vars
<1> QED
  BY <1>1, <1>2, <1>3, <1>4, <1>5, <1>6, <1>7, <1>8, <1>9, <1>10, <1>11, <1>12,
     <1>13, <1>14, <1>15, <1>16, <1>17 DEF Next

\* The invariant holds of every reachable state.
THEOREM PruneInvariance == Spec => []IInv
  BY InitIInv, NextIInv, PTL DEF Spec

\* The state stays well typed; on its own TypeOK is not inductive, since a third
\* attempt is ruled out only by the loop's count.
THEOREM PruneTypeCorrect == Spec => []TypeOK
<1>1. IInv => TypeOK
  BY DEF IInv
<1> QED
  BY <1>1, PruneInvariance, PTL

\* Whatever fails and wherever the program stops, a prompt is in history.jsonl,
\* in the trash, or was appended in the window of the last three steps.
THEOREM PruneLosesNothing == Spec => []NothingLost
<1>1. IInv => NothingLost
  BY DEF IInv
<1> QED
  BY <1>1, PruneInvariance, PTL

\* A prompt is in the file and the trash both only after a fault, and prompts
\* without a timestamp stay in the file.
THEOREM PruneSingleHome == Spec => []SingleHome
<1>1. IInv => SingleHome
  BY DEF IInv, Placed, SingleHome
<1> QED
  BY <1>1, PruneInvariance, PTL

\* A retry and a prune that gives up leave no file behind.
THEOREM PruneStrays == Spec => []StraysAccounted
<1>1. IInv => StraysAccounted
  BY DEF IInv
<1> QED
  BY <1>1, PruneInvariance, PTL

\* The prune gives up only on a file that was appended to in both attempts.
THEOREM PruneGivesUp == Spec => [](attempt = 2 => {0, 1} \subseteq raced)
<1>1. IInv => (attempt = 2 => {0, 1} \subseteq raced)
  BY DEF IInv, Attempts, TypeOK
<1> QED
  BY <1>1, PruneInvariance, PTL
=============================================================================
