---------------------------- MODULE TrashProofs ----------------------------
(***************************************************************************)
(* Proofs about Trash, for every set of paths, receipts and contents, on   *)
(* one device or on two.                                                   *)
(***************************************************************************)
EXTENDS Trash, TLAPS

\* The definitions every step below expands.
USE TrashAssumption DEF Slot, PCs, Return, disk, op, hist

\* Every step of the engine and of the other programs keeps the types.
LEMMA TypeStep == TypeOK /\ [Next]_vars => TypeOK'
<1> SUFFICES ASSUME TypeOK, [Next]_vars PROVE TypeOK'
  OBVIOUS
<1> USE DEF TypeOK
<1>1. ASSUME NEW p \in Paths, NEW c \in Contents, CliWrite(p, c) PROVE TypeOK'
  BY <1>1 DEF CliWrite
<1>2. ASSUME NEW p \in Paths, CliUnlink(p) PROVE TypeOK'
  BY <1>2 DEF CliUnlink
<1>3. ASSUME NEW r \in Receipts, NEW S \in SUBSET Paths, TrashItems(r, S)
      PROVE  TypeOK'
  BY <1>3 DEF TrashItems
<1>4. ASSUME NEW p \in Paths, TrashRename(p) PROVE TypeOK'
  BY <1>4 DEF TrashRename
<1>5. ASSUME NEW p \in Paths, TrashCopy(p) PROVE TypeOK'
  BY <1>5 DEF TrashCopy
<1>6. CASE TrashCopied
  BY <1>6 DEF TrashCopied
<1>7. CASE TrashCopyFails
  BY <1>7 DEF TrashCopyFails
<1>8. CASE TrashRemove
  BY <1>8 DEF TrashRemove
<1>9. CASE TrashRemoveFails
  BY <1>9 DEF TrashRemoveFails, Unlisted
<1>10. CASE WriteManifest
  BY <1>10 DEF WriteManifest
<1>11. ASSUME NEW r \in Receipts, RestoreTrash(r) PROVE TypeOK'
  BY <1>11 DEF RestoreTrash
<1>12. ASSUME NEW p \in Paths, RestoreRename(p) PROVE TypeOK'
  BY <1>12 DEF RestoreRename
<1>13. ASSUME NEW p \in Paths, RestoreCopy(p) PROVE TypeOK'
  BY <1>13 DEF RestoreCopy
<1>14. CASE RestoreCopied
  BY <1>14 DEF RestoreCopied
<1>15. CASE RestoreCopyFails
  BY <1>15 DEF RestoreCopyFails
<1>16. CASE RestoreRemove
  BY <1>16 DEF RestoreRemove
<1>17. CASE RestoreRemoveFails
  BY <1>17 DEF RestoreRemoveFails
<1>18. CASE RestoreDone
  BY <1>18 DEF RestoreDone
<1>19. ASSUME NEW r \in Receipts, EmptyTrash(r) PROVE TypeOK'
  BY <1>19 DEF EmptyTrash
<1>20. ASSUME NEW p \in Paths, ClearSlot(p) PROVE TypeOK'
  BY <1>20 DEF ClearSlot
<1>21. CASE ClearManifest
  BY <1>21 DEF ClearManifest
<1>22. CASE Cleared
  BY <1>22 DEF Cleared
<1>23. CASE Stop
  BY <1>23 DEF Stop, Unlisted
<1>24. CASE UNCHANGED vars
  BY <1>24 DEF vars
<1> QED
  BY <1>1, <1>2, <1>3, <1>4, <1>5, <1>6, <1>7, <1>8, <1>9, <1>10, <1>11, <1>12,
     <1>13, <1>14, <1>15, <1>16, <1>17, <1>18, <1>19, <1>20, <1>21, <1>22,
     <1>23, <1>24 DEF Next

\* Whatever is on disk, and whatever the history names, has been written.
LEMMA BornStep ==
  TypeOK /\ DiskIsBorn /\ BatchInv /\ RestoreInv /\ [Next]_vars => DiskIsBorn'
<1> SUFFICES ASSUME TypeOK, DiskIsBorn, BatchInv, RestoreInv, [Next]_vars
         PROVE  DiskIsBorn'
  OBVIOUS
<1> USE DEF TypeOK, DiskIsBorn
<1>1. ASSUME NEW p \in Paths, NEW c \in Contents, CliWrite(p, c)
      PROVE  DiskIsBorn'
  BY <1>1 DEF CliWrite
<1>2. ASSUME NEW p \in Paths, CliUnlink(p)
      PROVE  DiskIsBorn'
  BY <1>2 DEF CliUnlink
<1>3. ASSUME NEW r \in Receipts, NEW S \in SUBSET Paths, TrashItems(r, S)
      PROVE  DiskIsBorn'
  BY <1>3 DEF TrashItems
<1>4. ASSUME NEW p \in Paths, TrashRename(p)
      PROVE  DiskIsBorn'
  BY <1>4 DEF TrashRename, BatchInv, Trashing
<1>5. ASSUME NEW p \in Paths, TrashCopy(p)
      PROVE  DiskIsBorn'
  BY <1>5 DEF TrashCopy, BatchInv, Trashing
<1>6. CASE TrashCopied
  BY <1>6 DEF TrashCopied, BatchInv, Trashing
<1>7. CASE TrashCopyFails
  BY <1>7 DEF TrashCopyFails
<1>8. CASE TrashRemove
  BY <1>8 DEF TrashRemove
<1>9. CASE TrashRemoveFails
  BY <1>9 DEF TrashRemoveFails, Unlisted
<1>10. CASE WriteManifest
  BY <1>10 DEF WriteManifest, BatchInv, Trashing
<1>11. ASSUME NEW r \in Receipts, RestoreTrash(r)
      PROVE  DiskIsBorn'
  BY <1>11 DEF RestoreTrash
<1>12. ASSUME NEW p \in Paths, RestoreRename(p)
      PROVE  DiskIsBorn'
  BY <1>12 DEF RestoreRename
<1>13. ASSUME NEW p \in Paths, RestoreCopy(p)
      PROVE  DiskIsBorn'
  BY <1>13 DEF RestoreCopy
<1>14. CASE RestoreCopied
  BY <1>14 DEF RestoreCopied
<1>15. CASE RestoreCopyFails
  BY <1>15 DEF RestoreCopyFails
<1>16. CASE RestoreRemove
  BY <1>16 DEF RestoreRemove
<1>17. CASE RestoreRemoveFails
  BY <1>17 DEF RestoreRemoveFails, RestoreInv, Restoring
<1>18. CASE RestoreDone
  BY <1>18 DEF RestoreDone
<1>19. ASSUME NEW r \in Receipts, EmptyTrash(r)
      PROVE  DiskIsBorn'
  BY <1>19 DEF EmptyTrash
<1>20. ASSUME NEW p \in Paths, ClearSlot(p)
      PROVE  DiskIsBorn'
  BY <1>20 DEF ClearSlot
<1>21. CASE ClearManifest
  BY <1>21 DEF ClearManifest
<1>22. CASE Cleared
  BY <1>22 DEF Cleared
<1>23. CASE Stop
  BY <1>23 DEF Stop, Unlisted
<1>24. CASE UNCHANGED vars
  BY <1>24 DEF vars
<1> QED
  BY <1>1, <1>2, <1>3, <1>4, <1>5, <1>6, <1>7, <1>8, <1>9, <1>10, <1>11, <1>12,
     <1>13, <1>14, <1>15, <1>16, <1>17, <1>18, <1>19, <1>20, <1>21, <1>22,
     <1>23, <1>24 DEF Next

\* A batch fills only the slots it lists and the current one.
LEMMA BatchStep ==
  TypeOK /\ DiskIsBorn /\ BatchInv /\ [Next]_vars => BatchInv'
<1> SUFFICES ASSUME TypeOK, DiskIsBorn, BatchInv, [Next]_vars PROVE BatchInv'
  OBVIOUS
<1> USE DEF TypeOK, BatchInv, Trashing
<1>1. ASSUME NEW p \in Paths, NEW c \in Contents, CliWrite(p, c)
      PROVE  BatchInv'
  BY <1>1 DEF CliWrite
<1>2. ASSUME NEW p \in Paths, CliUnlink(p)
      PROVE  BatchInv'
  BY <1>2 DEF CliUnlink
<1>3. ASSUME NEW r \in Receipts, NEW S \in SUBSET Paths, TrashItems(r, S)
      PROVE  BatchInv'
  BY <1>3 DEF TrashItems, DiskIsBorn
<1>4. ASSUME NEW p \in Paths, TrashRename(p)
      PROVE  BatchInv'
  BY <1>4 DEF TrashRename
<1>5. ASSUME NEW p \in Paths, TrashCopy(p)
      PROVE  BatchInv'
  BY <1>5 DEF TrashCopy
<1>6. CASE TrashCopied
  BY <1>6 DEF TrashCopied
<1>7. CASE TrashCopyFails
  BY <1>7 DEF TrashCopyFails
<1>8. CASE TrashRemove
  BY <1>8 DEF TrashRemove
<1>9. CASE TrashRemoveFails
  BY <1>9 DEF TrashRemoveFails
<1>10. CASE WriteManifest
  BY <1>10 DEF WriteManifest
<1>11. ASSUME NEW r \in Receipts, RestoreTrash(r)
      PROVE  BatchInv'
  BY <1>11 DEF RestoreTrash
<1>12. ASSUME NEW p \in Paths, RestoreRename(p)
      PROVE  BatchInv'
  BY <1>12 DEF RestoreRename
<1>13. ASSUME NEW p \in Paths, RestoreCopy(p)
      PROVE  BatchInv'
  BY <1>13 DEF RestoreCopy
<1>14. CASE RestoreCopied
  BY <1>14 DEF RestoreCopied
<1>15. CASE RestoreCopyFails
  BY <1>15 DEF RestoreCopyFails
<1>16. CASE RestoreRemove
  BY <1>16 DEF RestoreRemove
<1>17. CASE RestoreRemoveFails
  BY <1>17 DEF RestoreRemoveFails
<1>18. CASE RestoreDone
  BY <1>18 DEF RestoreDone
<1>19. ASSUME NEW r \in Receipts, EmptyTrash(r)
      PROVE  BatchInv'
  BY <1>19 DEF EmptyTrash
<1>20. ASSUME NEW p \in Paths, ClearSlot(p)
      PROVE  BatchInv'
  BY <1>20 DEF ClearSlot
<1>21. CASE ClearManifest
  BY <1>21 DEF ClearManifest
<1>22. CASE Cleared
  BY <1>22 DEF Cleared
<1>23. CASE Stop
  BY <1>23 DEF Stop
<1>24. CASE UNCHANGED vars
  BY <1>24 DEF vars
<1> QED
  BY <1>1, <1>2, <1>3, <1>4, <1>5, <1>6, <1>7, <1>8, <1>9, <1>10, <1>11, <1>12,
     <1>13, <1>14, <1>15, <1>16, <1>17, <1>18, <1>19, <1>20, <1>21, <1>22,
     <1>23, <1>24 DEF Next

\* The copy and its source agree until the source is removed.
LEMMA CopyStep ==
  TypeOK /\ DiskIsBorn /\ CopyInv /\ [Next]_vars => CopyInv'
<1> SUFFICES ASSUME TypeOK, DiskIsBorn, CopyInv, [Next]_vars PROVE CopyInv'
  OBVIOUS
<1> USE DEF TypeOK, CopyInv, Excused, Unlisted
<1>1. ASSUME NEW p \in Paths, NEW c \in Contents, CliWrite(p, c)
      PROVE  CopyInv'
  BY <1>1 DEF CliWrite, InWindow, Restoring, DiskIsBorn
<1>2. ASSUME NEW p \in Paths, CliUnlink(p)
      PROVE  CopyInv'
  BY <1>2 DEF CliUnlink
<1>3. ASSUME NEW r \in Receipts, NEW S \in SUBSET Paths, TrashItems(r, S)
      PROVE  CopyInv'
  BY <1>3 DEF TrashItems
<1>4. ASSUME NEW p \in Paths, TrashRename(p)
      PROVE  CopyInv'
  BY <1>4 DEF TrashRename
<1>5. ASSUME NEW p \in Paths, TrashCopy(p)
      PROVE  CopyInv'
  BY <1>5 DEF TrashCopy
<1>6. CASE TrashCopied
  BY <1>6 DEF TrashCopied
<1>7. CASE TrashCopyFails
  BY <1>7 DEF TrashCopyFails
<1>8. CASE TrashRemove
  BY <1>8 DEF TrashRemove
<1>9. CASE TrashRemoveFails
  BY <1>9 DEF TrashRemoveFails
<1>10. CASE WriteManifest
  BY <1>10 DEF WriteManifest
<1>11. ASSUME NEW r \in Receipts, RestoreTrash(r)
      PROVE  CopyInv'
  BY <1>11 DEF RestoreTrash
<1>12. ASSUME NEW p \in Paths, RestoreRename(p)
      PROVE  CopyInv'
  BY <1>12 DEF RestoreRename
<1>13. ASSUME NEW p \in Paths, RestoreCopy(p)
      PROVE  CopyInv'
  BY <1>13 DEF RestoreCopy
<1>14. CASE RestoreCopied
  BY <1>14 DEF RestoreCopied
<1>15. CASE RestoreCopyFails
  BY <1>15 DEF RestoreCopyFails
<1>16. CASE RestoreRemove
  BY <1>16 DEF RestoreRemove
<1>17. CASE RestoreRemoveFails
  BY <1>17 DEF RestoreRemoveFails
<1>18. CASE RestoreDone
  BY <1>18 DEF RestoreDone
<1>19. ASSUME NEW r \in Receipts, EmptyTrash(r)
      PROVE  CopyInv'
  BY <1>19 DEF EmptyTrash
<1>20. ASSUME NEW p \in Paths, ClearSlot(p)
      PROVE  CopyInv'
  BY <1>20 DEF ClearSlot
<1>21. CASE ClearManifest
  BY <1>21 DEF ClearManifest
<1>22. CASE Cleared
  BY <1>22 DEF Cleared
<1>23. CASE Stop
  BY <1>23 DEF Stop
<1>24. CASE UNCHANGED vars
  BY <1>24 DEF vars
<1> QED
  BY <1>1, <1>2, <1>3, <1>4, <1>5, <1>6, <1>7, <1>8, <1>9, <1>10, <1>11, <1>12,
     <1>13, <1>14, <1>15, <1>16, <1>17, <1>18, <1>19, <1>20, <1>21, <1>22,
     <1>23, <1>24 DEF Next

\* A restore leaves the slots it is done with empty; what turns up in its way is excused.
LEMMA RestoreStep ==
  TypeOK /\ DiskIsBorn /\ RestoreInv /\ [Next]_vars => RestoreInv'
<1> SUFFICES ASSUME TypeOK, DiskIsBorn, RestoreInv, [Next]_vars
         PROVE  RestoreInv'
  OBVIOUS
<1> USE DEF TypeOK, RestoreInv, Restoring, InWindow, Excused, Unlisted
<1>1. ASSUME NEW p \in Paths, NEW c \in Contents, CliWrite(p, c)
      PROVE  RestoreInv'
  BY <1>1 DEF CliWrite
<1>2. ASSUME NEW p \in Paths, CliUnlink(p)
      PROVE  RestoreInv'
  BY <1>2 DEF CliUnlink
<1>3. ASSUME NEW r \in Receipts, NEW S \in SUBSET Paths, TrashItems(r, S)
      PROVE  RestoreInv'
  BY <1>3 DEF TrashItems
<1>4. ASSUME NEW p \in Paths, TrashRename(p)
      PROVE  RestoreInv'
  BY <1>4 DEF TrashRename
<1>5. ASSUME NEW p \in Paths, TrashCopy(p)
      PROVE  RestoreInv'
  BY <1>5 DEF TrashCopy
<1>6. CASE TrashCopied
  BY <1>6 DEF TrashCopied
<1>7. CASE TrashCopyFails
  BY <1>7 DEF TrashCopyFails
<1>8. CASE TrashRemove
  BY <1>8 DEF TrashRemove
<1>9. CASE TrashRemoveFails
  BY <1>9 DEF TrashRemoveFails
<1>10. CASE WriteManifest
  BY <1>10 DEF WriteManifest
<1>11. ASSUME NEW r \in Receipts, RestoreTrash(r)
      PROVE  RestoreInv'
  BY <1>11 DEF RestoreTrash
<1>12. ASSUME NEW p \in Paths, RestoreRename(p)
      PROVE  RestoreInv'
  BY <1>12 DEF RestoreRename
<1>13. ASSUME NEW p \in Paths, RestoreCopy(p)
      PROVE  RestoreInv'
  BY <1>13 DEF RestoreCopy
<1>14. CASE RestoreCopied
  BY <1>14 DEF RestoreCopied
<1>15. CASE RestoreCopyFails
  BY <1>15 DEF RestoreCopyFails
<1>16. CASE RestoreRemove
  BY <1>16 DEF RestoreRemove
<1>17. CASE RestoreRemoveFails
  BY <1>17 DEF RestoreRemoveFails
<1>18. CASE RestoreDone
  BY <1>18 DEF RestoreDone
<1>19. ASSUME NEW r \in Receipts, EmptyTrash(r)
      PROVE  RestoreInv'
  BY <1>19 DEF EmptyTrash
<1>20. ASSUME NEW p \in Paths, ClearSlot(p)
      PROVE  RestoreInv'
  BY <1>20 DEF ClearSlot
<1>21. CASE ClearManifest
  BY <1>21 DEF ClearManifest
<1>22. CASE Cleared
  BY <1>22 DEF Cleared
<1>23. CASE Stop
  BY <1>23 DEF Stop
<1>24. CASE UNCHANGED vars
  BY <1>24 DEF vars
<1> QED
  BY <1>1, <1>2, <1>3, <1>4, <1>5, <1>6, <1>7, <1>8, <1>9, <1>10, <1>11, <1>12,
     <1>13, <1>14, <1>15, <1>16, <1>17, <1>18, <1>19, <1>20, <1>21, <1>22,
     <1>23, <1>24 DEF Next

\* remove_all destroys only what is excused or live elsewhere.
LEMMA ClearStep ==
  TypeOK /\ DiskIsBorn /\ RestoreInv /\ ClearInv /\ [Next]_vars => ClearInv'
<1> SUFFICES ASSUME TypeOK, DiskIsBorn, RestoreInv, ClearInv, [Next]_vars
         PROVE  ClearInv'
  OBVIOUS
<1> USE DEF TypeOK, ClearInv, IsLive, Excused, Unlisted
<1>1. ASSUME NEW p \in Paths, NEW c \in Contents, CliWrite(p, c)
      PROVE  ClearInv'
  BY <1>1 DEF CliWrite
<1>2. ASSUME NEW p \in Paths, CliUnlink(p)
      PROVE  ClearInv'
  BY <1>2 DEF CliUnlink
<1>3. ASSUME NEW r \in Receipts, NEW S \in SUBSET Paths, TrashItems(r, S)
      PROVE  ClearInv'
  BY <1>3 DEF TrashItems
<1>4. ASSUME NEW p \in Paths, TrashRename(p)
      PROVE  ClearInv'
  BY <1>4 DEF TrashRename
<1>5. ASSUME NEW p \in Paths, TrashCopy(p)
      PROVE  ClearInv'
  BY <1>5 DEF TrashCopy
<1>6. CASE TrashCopied
  BY <1>6 DEF TrashCopied
<1>7. CASE TrashCopyFails
  BY <1>7 DEF TrashCopyFails
<1>8. CASE TrashRemove
  BY <1>8 DEF TrashRemove
<1>9. CASE TrashRemoveFails
  BY <1>9 DEF TrashRemoveFails
<1>10. CASE WriteManifest
  BY <1>10 DEF WriteManifest
<1>11. ASSUME NEW r \in Receipts, RestoreTrash(r)
      PROVE  ClearInv'
  BY <1>11 DEF RestoreTrash
<1>12. ASSUME NEW p \in Paths, RestoreRename(p)
      PROVE  ClearInv'
  BY <1>12 DEF RestoreRename
<1>13. ASSUME NEW p \in Paths, RestoreCopy(p)
      PROVE  ClearInv'
  BY <1>13 DEF RestoreCopy
<1>14. CASE RestoreCopied
  BY <1>14 DEF RestoreCopied
<1>15. CASE RestoreCopyFails
  BY <1>15 DEF RestoreCopyFails
<1>16. CASE RestoreRemove
  BY <1>16 DEF RestoreRemove
<1>17. CASE RestoreRemoveFails
  BY <1>17 DEF RestoreRemoveFails
<1>18. CASE RestoreDone
  BY <1>18 DEF RestoreDone, RestoreInv, Restoring
<1>19. ASSUME NEW r \in Receipts, EmptyTrash(r)
      PROVE  ClearInv'
  BY <1>19 DEF EmptyTrash
<1>20. ASSUME NEW p \in Paths, ClearSlot(p)
      PROVE  ClearInv'
  BY <1>20 DEF ClearSlot
<1>21. CASE ClearManifest
  BY <1>21 DEF ClearManifest
<1>22. CASE Cleared
  BY <1>22 DEF Cleared
<1>23. CASE Stop
  BY <1>23 DEF Stop
<1>24. CASE UNCHANGED vars
  BY <1>24 DEF vars
<1> QED
  BY <1>1, <1>2, <1>3, <1>4, <1>5, <1>6, <1>7, <1>8, <1>9, <1>10, <1>11, <1>12,
     <1>13, <1>14, <1>15, <1>16, <1>17, <1>18, <1>19, <1>20, <1>21, <1>22,
     <1>23, <1>24 DEF Next

\* Only the paths on another device are copied.
LEMMA DeviceStep ==
  TypeOK /\ NoCopyOnOneDevice /\ [Next]_vars => NoCopyOnOneDevice'
<1> SUFFICES ASSUME TypeOK, NoCopyOnOneDevice, [Next]_vars
         PROVE  NoCopyOnOneDevice'
  OBVIOUS
<1> USE DEF NoCopyOnOneDevice
<1>1. ASSUME NEW p \in Paths, NEW c \in Contents, CliWrite(p, c)
      PROVE  NoCopyOnOneDevice'
  BY <1>1 DEF CliWrite
<1>2. ASSUME NEW p \in Paths, CliUnlink(p)
      PROVE  NoCopyOnOneDevice'
  BY <1>2 DEF CliUnlink
<1>3. ASSUME NEW r \in Receipts, NEW S \in SUBSET Paths, TrashItems(r, S)
      PROVE  NoCopyOnOneDevice'
  BY <1>3 DEF TrashItems
<1>4. ASSUME NEW p \in Paths, TrashRename(p)
      PROVE  NoCopyOnOneDevice'
  BY <1>4 DEF TrashRename
<1>5. ASSUME NEW p \in Paths, TrashCopy(p)
      PROVE  NoCopyOnOneDevice'
  BY <1>5 DEF TrashCopy
<1>6. CASE TrashCopied
  BY <1>6 DEF TrashCopied
<1>7. CASE TrashCopyFails
  BY <1>7 DEF TrashCopyFails
<1>8. CASE TrashRemove
  BY <1>8 DEF TrashRemove
<1>9. CASE TrashRemoveFails
  BY <1>9 DEF TrashRemoveFails
<1>10. CASE WriteManifest
  BY <1>10 DEF WriteManifest
<1>11. ASSUME NEW r \in Receipts, RestoreTrash(r)
      PROVE  NoCopyOnOneDevice'
  BY <1>11 DEF RestoreTrash
<1>12. ASSUME NEW p \in Paths, RestoreRename(p)
      PROVE  NoCopyOnOneDevice'
  BY <1>12 DEF RestoreRename
<1>13. ASSUME NEW p \in Paths, RestoreCopy(p)
      PROVE  NoCopyOnOneDevice'
  BY <1>13 DEF RestoreCopy
<1>14. CASE RestoreCopied
  BY <1>14 DEF RestoreCopied
<1>15. CASE RestoreCopyFails
  BY <1>15 DEF RestoreCopyFails
<1>16. CASE RestoreRemove
  BY <1>16 DEF RestoreRemove
<1>17. CASE RestoreRemoveFails
  BY <1>17 DEF RestoreRemoveFails
<1>18. CASE RestoreDone
  BY <1>18 DEF RestoreDone
<1>19. ASSUME NEW r \in Receipts, EmptyTrash(r)
      PROVE  NoCopyOnOneDevice'
  BY <1>19 DEF EmptyTrash
<1>20. ASSUME NEW p \in Paths, ClearSlot(p)
      PROVE  NoCopyOnOneDevice'
  BY <1>20 DEF ClearSlot
<1>21. CASE ClearManifest
  BY <1>21 DEF ClearManifest
<1>22. CASE Cleared
  BY <1>22 DEF Cleared
<1>23. CASE Stop
  BY <1>23 DEF Stop
<1>24. CASE UNCHANGED vars
  BY <1>24 DEF vars
<1> QED
  BY <1>1, <1>2, <1>3, <1>4, <1>5, <1>6, <1>7, <1>8, <1>9, <1>10, <1>11, <1>12,
     <1>13, <1>14, <1>15, <1>16, <1>17, <1>18, <1>19, <1>20, <1>21, <1>22,
     <1>23, <1>24 DEF Next

\* No step loses a content outside the windows.
LEMMA LostStep ==
  TypeOK /\ DiskIsBorn /\ BatchInv /\ CopyInv /\ RestoreInv /\ ClearInv /\
  NothingLostOutsideWindows /\ [Next]_vars
    => NothingLostOutsideWindows'
<1> SUFFICES ASSUME TypeOK, DiskIsBorn, BatchInv, CopyInv, RestoreInv,
                ClearInv, NothingLostOutsideWindows, [Next]_vars
         PROVE  NothingLostOutsideWindows'
  OBVIOUS
<1> USE DEF TypeOK, NothingLostOutsideWindows, IsLive, IsBinned, IsMoving,
           Excused, Unlisted
<1>1. ASSUME NEW p \in Paths, NEW c \in Contents, CliWrite(p, c)
      PROVE  NothingLostOutsideWindows'
  BY <1>1 DEF CliWrite, InWindow
<1>2. ASSUME NEW p \in Paths, CliUnlink(p)
      PROVE  NothingLostOutsideWindows'
  BY <1>2 DEF CliUnlink
<1>3. ASSUME NEW r \in Receipts, NEW S \in SUBSET Paths, TrashItems(r, S)
      PROVE  NothingLostOutsideWindows'
  BY <1>3 DEF TrashItems, DiskIsBorn
<1>4. ASSUME NEW p \in Paths, TrashRename(p)
      PROVE  NothingLostOutsideWindows'
  BY <1>4 DEF TrashRename, BatchInv, Trashing
<1>5. ASSUME NEW p \in Paths, TrashCopy(p)
      PROVE  NothingLostOutsideWindows'
  BY <1>5 DEF TrashCopy, BatchInv, Trashing
<1>6. CASE TrashCopied
  BY <1>6 DEF TrashCopied, BatchInv, Trashing
<1>7. CASE TrashCopyFails
  BY <1>7 DEF TrashCopyFails, BatchInv, Trashing
<1>8. CASE TrashRemove
  BY <1>8 DEF TrashRemove, BatchInv, Trashing, CopyInv
<1>9. CASE TrashRemoveFails
  BY <1>9 DEF TrashRemoveFails, BatchInv, Trashing, CopyInv
<1>10. CASE WriteManifest
  BY <1>10 DEF WriteManifest, BatchInv, Trashing
<1>11. ASSUME NEW r \in Receipts, RestoreTrash(r)
      PROVE  NothingLostOutsideWindows'
  BY <1>11 DEF RestoreTrash
<1>12. ASSUME NEW p \in Paths, RestoreRename(p)
      PROVE  NothingLostOutsideWindows'
  BY <1>12 DEF RestoreRename, RestoreInv, Restoring, InWindow
<1>13. ASSUME NEW p \in Paths, RestoreCopy(p)
      PROVE  NothingLostOutsideWindows'
  BY <1>13 DEF RestoreCopy, RestoreInv, Restoring, InWindow
<1>14. CASE RestoreCopied
  BY <1>14 DEF RestoreCopied, RestoreInv, Restoring, InWindow
<1>15. CASE RestoreCopyFails
  BY <1>15 DEF RestoreCopyFails, RestoreInv, Restoring, InWindow
<1>16. CASE RestoreRemove
  BY <1>16 DEF RestoreRemove, CopyInv
<1>17. CASE RestoreRemoveFails
  BY <1>17 DEF RestoreRemoveFails, CopyInv
<1>18. CASE RestoreDone
  BY <1>18 DEF RestoreDone
<1>19. ASSUME NEW r \in Receipts, EmptyTrash(r)
      PROVE  NothingLostOutsideWindows'
  BY <1>19 DEF EmptyTrash
<1>20. ASSUME NEW p \in Paths, ClearSlot(p)
      PROVE  NothingLostOutsideWindows'
  BY <1>20 DEF ClearSlot, ClearInv
<1>21. CASE ClearManifest
  BY <1>21 DEF ClearManifest, ClearInv
<1>22. CASE Cleared
  BY <1>22 DEF Cleared
<1>23. CASE Stop
  BY <1>23 DEF Stop
<1>24. CASE UNCHANGED vars
  BY <1>24 DEF vars
<1> QED
  BY <1>1, <1>2, <1>3, <1>4, <1>5, <1>6, <1>7, <1>8, <1>9, <1>10, <1>11, <1>12,
     <1>13, <1>14, <1>15, <1>16, <1>17, <1>18, <1>19, <1>20, <1>21, <1>22,
     <1>23, <1>24 DEF Next

\* No step duplicates a content on one device.
LEMMA OneHomeStep ==
  TypeOK /\ DiskIsBorn /\ NoCopyOnOneDevice /\ OneHome /\ [Next]_vars
    => OneHome'
<1> SUFFICES ASSUME TypeOK, DiskIsBorn, NoCopyOnOneDevice, OneHome, [Next]_vars
         PROVE  OneHome'
  OBVIOUS
<1> USE DEF TypeOK, OneHome, NoCopyOnOneDevice
<1>1. ASSUME NEW p \in Paths, NEW c \in Contents, CliWrite(p, c)
      PROVE  OneHome'
  BY <1>1 DEF CliWrite, DiskIsBorn
<1>2. ASSUME NEW p \in Paths, CliUnlink(p)
      PROVE  OneHome'
  BY <1>2 DEF CliUnlink
<1>3. ASSUME NEW r \in Receipts, NEW S \in SUBSET Paths, TrashItems(r, S)
      PROVE  OneHome'
  BY <1>3 DEF TrashItems
<1>4. ASSUME NEW p \in Paths, TrashRename(p)
      PROVE  OneHome'
  BY <1>4 DEF TrashRename
<1>5. ASSUME NEW p \in Paths, TrashCopy(p)
      PROVE  OneHome'
  BY <1>5 DEF TrashCopy
<1>6. CASE TrashCopied
  BY <1>6 DEF TrashCopied
<1>7. CASE TrashCopyFails
  BY <1>7 DEF TrashCopyFails
<1>8. CASE TrashRemove
  BY <1>8 DEF TrashRemove
<1>9. CASE TrashRemoveFails
  BY <1>9 DEF TrashRemoveFails
<1>10. CASE WriteManifest
  BY <1>10 DEF WriteManifest
<1>11. ASSUME NEW r \in Receipts, RestoreTrash(r)
      PROVE  OneHome'
  BY <1>11 DEF RestoreTrash
<1>12. ASSUME NEW p \in Paths, RestoreRename(p)
      PROVE  OneHome'
  BY <1>12 DEF RestoreRename
<1>13. ASSUME NEW p \in Paths, RestoreCopy(p)
      PROVE  OneHome'
  BY <1>13 DEF RestoreCopy
<1>14. CASE RestoreCopied
  BY <1>14 DEF RestoreCopied
<1>15. CASE RestoreCopyFails
  BY <1>15 DEF RestoreCopyFails
<1>16. CASE RestoreRemove
  BY <1>16 DEF RestoreRemove
<1>17. CASE RestoreRemoveFails
  BY <1>17 DEF RestoreRemoveFails
<1>18. CASE RestoreDone
  BY <1>18 DEF RestoreDone
<1>19. ASSUME NEW r \in Receipts, EmptyTrash(r)
      PROVE  OneHome'
  BY <1>19 DEF EmptyTrash
<1>20. ASSUME NEW p \in Paths, ClearSlot(p)
      PROVE  OneHome'
  BY <1>20 DEF ClearSlot
<1>21. CASE ClearManifest
  BY <1>21 DEF ClearManifest
<1>22. CASE Cleared
  BY <1>22 DEF Cleared
<1>23. CASE Stop
  BY <1>23 DEF Stop
<1>24. CASE UNCHANGED vars
  BY <1>24 DEF vars
<1> QED
  BY <1>1, <1>2, <1>3, <1>4, <1>5, <1>6, <1>7, <1>8, <1>9, <1>10, <1>11, <1>12,
     <1>13, <1>14, <1>15, <1>16, <1>17, <1>18, <1>19, <1>20, <1>21, <1>22,
     <1>23, <1>24 DEF Next

\* No step leaves a second orphan in a receipt.
LEMMA OrphanStep ==
  TypeOK /\ DiskIsBorn /\ BatchInv /\ RestoreInv /\ ClearInv /\
  AtMostOneOrphan /\ [Next]_vars
    => AtMostOneOrphan'
<1> SUFFICES ASSUME TypeOK, DiskIsBorn, BatchInv, RestoreInv, ClearInv,
                AtMostOneOrphan, [Next]_vars
         PROVE  AtMostOneOrphan'
  OBVIOUS
<1> USE DEF TypeOK, AtMostOneOrphan
<1>1. ASSUME NEW p \in Paths, NEW c \in Contents, CliWrite(p, c)
      PROVE  AtMostOneOrphan'
  BY <1>1 DEF CliWrite
<1>2. ASSUME NEW p \in Paths, CliUnlink(p)
      PROVE  AtMostOneOrphan'
  BY <1>2 DEF CliUnlink
<1>3. ASSUME NEW r \in Receipts, NEW S \in SUBSET Paths, TrashItems(r, S)
      PROVE  AtMostOneOrphan'
  BY <1>3 DEF TrashItems, DiskIsBorn
<1>4. ASSUME NEW p \in Paths, TrashRename(p)
      PROVE  AtMostOneOrphan'
  BY <1>4 DEF TrashRename, BatchInv, Trashing
<1>5. ASSUME NEW p \in Paths, TrashCopy(p)
      PROVE  AtMostOneOrphan'
  BY <1>5 DEF TrashCopy, BatchInv, Trashing
<1>6. CASE TrashCopied
  BY <1>6 DEF TrashCopied, BatchInv, Trashing
<1>7. CASE TrashCopyFails
  BY <1>7 DEF TrashCopyFails, BatchInv, Trashing
<1>8. CASE TrashRemove
  BY <1>8 DEF TrashRemove
<1>9. CASE TrashRemoveFails
  BY <1>9 DEF TrashRemoveFails
<1>10. CASE WriteManifest
  BY <1>10 DEF WriteManifest, BatchInv, Trashing
<1>11. ASSUME NEW r \in Receipts, RestoreTrash(r)
      PROVE  AtMostOneOrphan'
  BY <1>11 DEF RestoreTrash
<1>12. ASSUME NEW p \in Paths, RestoreRename(p)
      PROVE  AtMostOneOrphan'
  BY <1>12 DEF RestoreRename
<1>13. ASSUME NEW p \in Paths, RestoreCopy(p)
      PROVE  AtMostOneOrphan'
  BY <1>13 DEF RestoreCopy
<1>14. CASE RestoreCopied
  BY <1>14 DEF RestoreCopied
<1>15. CASE RestoreCopyFails
  BY <1>15 DEF RestoreCopyFails
<1>16. CASE RestoreRemove
  BY <1>16 DEF RestoreRemove
<1>17. CASE RestoreRemoveFails
  BY <1>17 DEF RestoreRemoveFails, RestoreInv, Restoring
<1>18. CASE RestoreDone
  BY <1>18 DEF RestoreDone
<1>19. ASSUME NEW r \in Receipts, EmptyTrash(r)
      PROVE  AtMostOneOrphan'
  BY <1>19 DEF EmptyTrash
<1>20. ASSUME NEW p \in Paths, ClearSlot(p)
      PROVE  AtMostOneOrphan'
  BY <1>20 DEF ClearSlot
<1>21. CASE ClearManifest
  BY <1>21 DEF ClearManifest, ClearInv
<1>22. CASE Cleared
  BY <1>22 DEF Cleared
<1>23. CASE Stop
  BY <1>23 DEF Stop
<1>24. CASE UNCHANGED vars
  BY <1>24 DEF vars
<1> QED
  BY <1>1, <1>2, <1>3, <1>4, <1>5, <1>6, <1>7, <1>8, <1>9, <1>10, <1>11, <1>12,
     <1>13, <1>14, <1>15, <1>16, <1>17, <1>18, <1>19, <1>20, <1>21, <1>22,
     <1>23, <1>24 DEF Next

\* The contents as Custody sees them.
P == [c \in Contents |-> Place(c)]

\* Every step is, content by content, a step of Custody or none at all.
LEMMA RefineStep == IInv /\ [Next]_vars => [CustodyOfContents!Next]_P
<1> SUFFICES ASSUME IInv, [Next]_vars PROVE [CustodyOfContents!Next]_P
  OBVIOUS
<1> USE DEF IInv
<1> DEFINE Same == \A x \in Contents : Place(x)' = Place(x)
           Moves(c, from, to) ==
             /\ c \in Contents /\ Place(c) \in from
             /\ \A x \in Contents : Place(x)' = IF x = c THEN to ELSE Place(x)
           Forfeits(D) ==
             /\ D \subseteq Contents /\ \A d \in D : Place(d) # "unborn"
             /\ \A x \in Contents :
                  Place(x)' = IF x \in D THEN "forfeit" ELSE Place(x)
<1>a. Same => UNCHANGED P
  BY DEF P
<1>b. ASSUME NEW c, Moves(c, {"moving", "live"}, "binned") PROVE CustodyOfContents!Next
  <2>1. CustodyOfContents!File(c)
    BY <1>b DEF CustodyOfContents!File
  <2> QED BY <2>1, <1>b DEF CustodyOfContents!Next
<1>c. ASSUME NEW c, Moves(c, {"binned"}, "live") PROVE CustodyOfContents!Next
  <2>1. CustodyOfContents!PutBack(c)
    BY <1>c DEF CustodyOfContents!PutBack
  <2> QED BY <2>1, <1>c DEF CustodyOfContents!Next
<1>d. ASSUME NEW c, Moves(c, {"live", "moving"}, "exposed") PROVE CustodyOfContents!Next
  <2>1. CustodyOfContents!Expose(c)
    BY <1>d DEF CustodyOfContents!Expose
  <2> QED BY <2>1, <1>d DEF CustodyOfContents!Next
<1>e. ASSUME NEW c, Moves(c, {"live"}, "moving"),
             \A d \in Contents : Place(d) # "moving"
      PROVE  CustodyOfContents!Next
  <2>1. CustodyOfContents!Take(c)
    BY <1>e DEF CustodyOfContents!Take
  <2> QED BY <2>1, <1>e DEF CustodyOfContents!Next
<1>f. ASSUME NEW D, Forfeits(D) PROVE CustodyOfContents!Next
  <2>1. CustodyOfContents!Forfeit(D)
    BY <1>f DEF CustodyOfContents!Forfeit
  <2> QED BY <2>1, <1>f DEF CustodyOfContents!Next
<1> HIDE DEF Same, Moves, Forfeits

<1>1. ASSUME NEW p \in Paths, NEW c \in Contents, CliWrite(p, c)
      PROVE  CustodyOfContents!Next
  <2> DEFINE D == {live[p]} \cap Contents
             to == IF InWindow(p) THEN "exposed" ELSE "live"
  <2>1. /\ Place(c) = "unborn" /\ c \notin D
        /\ \A d \in D : Place(d) # "unborn"
    BY <1>1 DEF CliWrite, Place, DiskIsBorn
  <2>a. \A x \in Contents : x # c /\ x \notin D => (IsLive(x)' <=> IsLive(x))
    BY <1>1 DEF CliWrite, IsLive, TypeOK
  <2>b. IsLive(c)'
    BY <1>1 DEF CliWrite, IsLive, TypeOK
  <2>c. \A x \in Contents : /\ IsBinned(x)' <=> IsBinned(x)
                            /\ IsMoving(x)' <=> IsMoving(x)
    BY <1>1 DEF CliWrite, IsBinned, IsMoving
  <2>d. /\ c \notin asked /\ c \notin exposed
    BY <1>1 DEF CliWrite, DiskIsBorn
  <2>2. \A x \in Contents : Place(x)' = IF x = c THEN to
                                        ELSE IF x \in D THEN "forfeit" ELSE Place(x)
    BY <1>1, <2>1, <2>a, <2>b, <2>c, <2>d DEF CliWrite, Place, DiskIsBorn
  <2>3. CustodyOfContents!Write(c, D, to)
    BY <2>1, <2>2 DEF CustodyOfContents!Write
  <2> HIDE DEF D
  <2>4. D \in SUBSET Contents /\ to \in CustodyOfContents!Places
    BY DEF D, CustodyOfContents!Places
  <2> QED BY <2>3, <2>4 DEF CustodyOfContents!Next
<1>2. ASSUME NEW p \in Paths, CliUnlink(p) PROVE CustodyOfContents!Next
  <2>1. Forfeits({live[p]} \cap Contents)
    BY <1>2 DEF Forfeits, CliUnlink, DiskIsBorn, Place, IsLive, IsBinned, IsMoving, Excused, TypeOK
  <2> QED BY <2>1, <1>f
<1>3. ASSUME NEW r \in Receipts, NEW S \in SUBSET Paths, TrashItems(r, S) PROVE Same
  BY <1>3 DEF Same, TrashItems, DiskIsBorn, Place, IsLive, IsBinned, IsMoving, Excused, TypeOK
<1>4. ASSUME NEW p \in Paths, TrashRename(p) PROVE UNCHANGED P \/ CustodyOfContents!Next
  <2>c. PICK c : c = live[p]
    OBVIOUS
  <2>1. CASE c \in Contents \ Excused
    <3>1. \A x \in Contents : Place(x) # "moving"
      BY <1>4 DEF TrashRename, Place, IsLive, IsBinned, IsMoving, Excused, TypeOK
    <3>2. ~IsLive(c)' /\ ~IsBinned(c)' /\ IsMoving(c)'
      <4>1. ~IsLive(c)'
        BY <1>4, <2>1, <2>c DEF TrashRename, OneHome, IsLive, TypeOK
      <4>2. IsMoving(c)'
        BY <1>4, <2>1, <2>c DEF TrashRename, IsMoving, TypeOK
      <4>3. p \notin manifest[rid]
        BY <1>4 DEF TrashRename, BatchInv, Trashing
      <4>4. ~IsBinned(c)'
        BY <1>4, <2>1, <2>c, <4>3 DEF TrashRename, OneHome, IsBinned, TypeOK
      <4> QED BY <4>1, <4>2, <4>4
    <3>3. Moves(c, {"live"}, "moving")
      BY <1>4, <2>1, <2>c, <3>2 DEF Moves, TrashRename, BatchInv, Trashing, DiskIsBorn, Place, IsLive, IsBinned, IsMoving, Excused, TypeOK
    <3> QED BY <3>1, <3>3, <1>e
  <2>2. CASE c \notin Contents \ Excused
    <3>1. Same
      BY <1>4, <2>2, <2>c DEF Same, TrashRename, BatchInv, Trashing, Place, IsLive, IsBinned, IsMoving, Excused, TypeOK
    <3> QED BY <3>1, <1>a
  <2> QED BY <2>1, <2>2
<1>5. ASSUME NEW p \in Paths, TrashCopy(p) PROVE Same
  BY <1>5 DEF Same, TrashCopy, BatchInv, Trashing, Place, IsLive, IsBinned, IsMoving, Excused, TypeOK
<1>6. ASSUME TrashCopied \/ TrashCopyFails PROVE Same
  <2>1. cur \notin manifest[rid] /\ rid \in Receipts
    BY <1>6 DEF TrashCopied, TrashCopyFails, BatchInv, Trashing, TypeOK
  <2>2. \A r \in Receipts : \A p \in manifest[r] : store'[r][p] = store[r][p]
    BY <1>6, <2>1 DEF TrashCopied, TrashCopyFails, TypeOK
  <2>3. \A x : IsBinned(x)' <=> IsBinned(x)
    BY <1>6, <2>2 DEF TrashCopied, TrashCopyFails, IsBinned
  <2> QED
    BY <1>6, <2>3 DEF Same, TrashCopied, TrashCopyFails, Place, IsLive, IsMoving
<1>7. ASSUME TrashRemove PROVE UNCHANGED P \/ CustodyOfContents!Next
  <2>c. PICK c : c = live[cur]
    OBVIOUS
  <2>0. /\ cur \in Paths /\ rid \in Receipts /\ pc = "trash.copied" /\ pc' = "trash.moved"
        /\ live' = [live EXCEPT ![cur] = None]
        /\ UNCHANGED <<store, manifest, rid, cur, born, asked, exposed>>
    BY <1>7 DEF TrashRemove, TypeOK
  <2>1. \A x \in Contents : x # c => (IsLive(x)' <=> IsLive(x)) 
    BY <2>0, <2>c DEF IsLive, TypeOK
  <2>2. \A x \in Contents : IsBinned(x)' <=> IsBinned(x)
    BY <2>0 DEF IsBinned
  <2>3. \A x \in Contents : /\ ~IsMoving(x) 
                            /\ IsMoving(x)' <=> store[rid][cur] = x
    BY <2>0 DEF IsMoving
  <2>4. CASE c \in Contents \ Excused /\ ~IsLive(c)' /\ IsBinned(c)
    <3>1. Moves(c, {"moving", "live"}, "binned")
      BY <2>0, <2>c, <2>1, <2>2, <2>3, <2>4 DEF Moves, Place, CopyInv, IsLive, Excused, DiskIsBorn
    <3> QED BY <3>1, <1>b
  <2>5. CASE c \in Contents \ Excused /\ ~IsLive(c)' /\ ~IsBinned(c)
    <3>1. Moves(c, {"live"}, "moving")
      BY <2>0, <2>c, <2>1, <2>2, <2>3, <2>5 DEF Moves, Place, CopyInv, IsLive, Excused, DiskIsBorn
    <3>2. \A x \in Contents : Place(x) # "moving"
      BY <2>3 DEF Place
    <3> QED BY <3>1, <3>2, <1>e
  <2>6. CASE ~(c \in Contents \ Excused /\ ~IsLive(c)')
    <3>1. \A x \in Contents : x \notin Excused => (IsLive(x)' <=> IsLive(x))
      BY <2>0, <2>c, <2>1, <2>6 DEF IsLive, Excused, TypeOK
    <3>2. \A x \in Contents \ Excused : IsMoving(x)' => x = c /\ IsLive(x)
      BY <2>0, <2>c, <2>3 DEF CopyInv, IsLive
    <3>3. Same
      BY <2>0, <2>c, <2>2, <2>3, <2>6, <3>1, <3>2 DEF Same, Place, Excused
    <3> QED BY <3>3, <1>a
  <2> QED BY <2>4, <2>5, <2>6
<1>8. ASSUME TrashRemoveFails PROVE UNCHANGED P \/ CustodyOfContents!Next
  <2>c. PICK c : c = live[cur]
    OBVIOUS
  <2>0. /\ cur \in Paths /\ rid \in Receipts /\ pc = "trash.copied" /\ pc' = "idle"
        /\ live' = [live EXCEPT ![cur] = Partial]
        /\ exposed' = exposed \cup Unlisted({c, store[rid][cur]})
        /\ UNCHANGED <<store, manifest, born, asked>>
    BY <1>8, <2>c DEF TrashRemoveFails, TypeOK
  <2>1. \A x \in Contents : x # c => (IsLive(x)' <=> IsLive(x))
    BY <2>0, <2>c DEF IsLive, TypeOK
  <2>2. \A x \in Contents : IsBinned(x)' <=> IsBinned(x)
    BY <2>0 DEF IsBinned
  <2>3. \A x \in Contents : ~IsMoving(x) /\ ~IsMoving(x)'
    BY <2>0 DEF IsMoving
  <2>4. \A x \in Contents \ Excused : x # c => x \notin exposed'
    BY <2>0, <2>c DEF CopyInv, Unlisted, Excused
  <2>5. CASE c \in Contents \ Excused
    <3>1. Place(c) = "live" /\ store[rid][cur] = c
      BY <2>0, <2>5, <2>c DEF Place, IsLive, CopyInv, DiskIsBorn, Excused
    <3>2. CASE ~IsBinned(c)
      <4>1. Moves(c, {"live", "moving"}, "exposed")
        BY <2>0, <2>1, <2>2, <2>3, <2>4, <2>5, <3>1, <3>2
           DEF Moves, Place, Unlisted, Excused
      <4> QED BY <4>1, <1>d
    <3>3. CASE IsBinned(c) /\ ~IsLive(c)'
      <4>1. c \notin exposed'
        BY <2>0, <2>5, <3>1, <3>3 DEF Unlisted, Excused
      <4>2. Moves(c, {"moving", "live"}, "binned")
        BY <2>0, <2>1, <2>2, <2>3, <2>4, <2>5, <3>1, <3>3, <4>1
           DEF Moves, Place, Excused
      <4> QED BY <4>2, <1>b
    <3>4. CASE IsBinned(c) /\ IsLive(c)'
      <4>1. c \notin exposed'
        BY <2>0, <2>5, <3>1, <3>4 DEF Unlisted, Excused
      <4>2. Same
        BY <2>0, <2>1, <2>2, <2>3, <2>4, <2>5, <3>1, <3>4, <4>1
           DEF Same, Place, Excused
      <4> QED BY <4>2, <1>a
    <3> QED BY <3>2, <3>3, <3>4
  <2>6. CASE c \notin Contents \ Excused
    <3>1. \A x \in Contents \ Excused : IsLive(x)' <=> IsLive(x)
      BY <2>1, <2>6
    <3>2. Same
      BY <2>0, <2>2, <2>3, <2>4, <2>6, <3>1 DEF Same, Place, Excused
    <3> QED BY <3>2, <1>a
  <2> QED BY <2>5, <2>6
<1>9. ASSUME WriteManifest PROVE UNCHANGED P \/ CustodyOfContents!Next
  <2>c. PICK c : c = store[rid][cur]
    OBVIOUS
  <2>0. /\ cur \in Paths /\ rid \in Receipts /\ pc = "trash.moved" /\ pc' # "trash.moved"
        /\ manifest' = [manifest EXCEPT ![rid] = @ \cup {cur}]
        /\ UNCHANGED <<live, store, born, asked, exposed>>
    BY <1>9 DEF WriteManifest, BatchInv, Trashing, TypeOK
  <2>1. \A x \in Contents : /\ IsLive(x)' <=> IsLive(x)
                            /\ IsMoving(x) <=> x = c
                            /\ ~IsMoving(x)'
    BY <2>0, <2>c DEF IsLive, IsMoving
  <2>2. \A x \in Contents : IsBinned(x)' <=> (IsBinned(x) \/ x = c)
    BY <2>0, <2>c DEF IsBinned, TypeOK
  <2>3. CASE c \in Contents \ Excused /\ ~IsLive(c) /\ ~IsBinned(c)
    <3>1. Moves(c, {"moving", "live"}, "binned")
      BY <2>0, <2>1, <2>2, <2>3, <2>c DEF Moves, Place, Excused, DiskIsBorn
    <3> QED BY <3>1, <1>b
  <2>4. CASE ~(c \in Contents \ Excused /\ ~IsLive(c) /\ ~IsBinned(c))
    <3>1. Same
      BY <2>0, <2>1, <2>2, <2>4 DEF Same, Place, Excused
    <3> QED BY <3>1, <1>a
  <2> QED BY <2>3, <2>4
<1>10. ASSUME NEW r \in Receipts, RestoreTrash(r) PROVE Same
  BY <1>10 DEF Same, RestoreTrash, Place, IsLive, IsBinned, IsMoving
<1>11. ASSUME NEW p \in Paths, NEW c,
              c = store[rid][p], rid \in Receipts, p \in manifest[rid],
              pc # "trash.moved", pc' # "trash.moved",
              live' = [live EXCEPT ![p] = c],
              live[p] \notin Contents \ Excused,
              store' \in {store, [store EXCEPT ![rid][p] = None]},
              UNCHANGED <<manifest, born, asked, exposed>>
       PROVE  UNCHANGED P \/ CustodyOfContents!Next
  <2>1. \A x \in Contents \ Excused :
          /\ ~IsMoving(x) /\ ~IsMoving(x)'
          /\ IsLive(x)' <=> (IsLive(x) \/ x = c)
          /\ x # c => (IsBinned(x)' <=> IsBinned(x))
    <3>1. \A x \in Contents \ Excused : IsLive(x)' <=> (IsLive(x) \/ x = c)
      BY <1>11 DEF IsLive, TypeOK
    <3>2. ASSUME NEW x \in Contents, x # c
          PROVE  \A s \in Receipts : \A q \in manifest[s] :
                   (store'[s][q] = x) <=> (store[s][q] = x)
      <4>1. CASE store' = store
        BY <4>1
      <4>2. CASE store' = [store EXCEPT ![rid][p] = None]
        BY <1>11, <3>2, <4>2, TrashAssumption DEF TypeOK
      <4> QED BY <1>11, <4>1, <4>2
    <3>3. \A x \in Contents : x # c => (IsBinned(x)' <=> IsBinned(x))
      BY <1>11, <3>2 DEF IsBinned
    <3> QED BY <1>11, <3>1, <3>3 DEF IsMoving
  <2>2. CASE c \in Contents \ Excused /\ ~IsLive(c)
    <3>1. IsBinned(c) /\ c \in born
      BY <1>11, <2>2 DEF IsBinned, DiskIsBorn, TypeOK
    <3>2. Moves(c, {"binned"}, "live")
      BY <1>11, <2>1, <2>2, <3>1 DEF Moves, Place, Excused
    <3> QED BY <3>2, <1>c
  <2>3. CASE ~(c \in Contents \ Excused /\ ~IsLive(c))
    <3>1. Same
      BY <1>11, <2>1, <2>3 DEF Same, Place, Excused
    <3> QED BY <3>1, <1>a
  <2> QED BY <2>2, <2>3
<1>12. ASSUME NEW p \in Paths, RestoreRename(p) PROVE UNCHANGED P \/ CustodyOfContents!Next
  <2>1. live[p] \notin Contents \ Excused
    BY <1>12 DEF RestoreRename, RestoreInv, Restoring, InWindow
  <2>2. p \in manifest[rid] /\ rid \in Receipts
    BY <1>12 DEF RestoreRename, RestoreInv, Restoring, TypeOK
  <2> QED BY <1>11, <1>12, <2>1, <2>2 DEF RestoreRename
<1>13. ASSUME RestoreCopied PROVE UNCHANGED P \/ CustodyOfContents!Next
  <2>1. live[cur] \notin Contents \ Excused
    BY <1>13 DEF RestoreCopied, RestoreInv, Restoring, InWindow, TypeOK
  <2>2. cur \in Paths /\ cur \in manifest[rid] /\ rid \in Receipts
    BY <1>13 DEF RestoreCopied, RestoreInv, Restoring, TypeOK
  <2> QED BY <1>11, <1>13, <2>1, <2>2 DEF RestoreCopied
<1>14. ASSUME NEW p \in Paths, RestoreCopy(p) \/ (RestoreCopyFails /\ p = cur) PROVE Same
  <2>1. live[p] \notin Contents \ Excused
    BY <1>14 DEF RestoreCopy, RestoreCopyFails, RestoreInv, Restoring, InWindow, TypeOK
  <2>2. \A x \in Contents \ Excused : IsLive(x)' <=> IsLive(x)
    BY <1>14, <2>1 DEF RestoreCopy, RestoreCopyFails, IsLive, TypeOK
  <2> QED
    BY <1>14, <2>2 DEF Same, RestoreCopy, RestoreCopyFails, Place, IsBinned, IsMoving, Excused
<1>15. ASSUME RestoreRemove \/ RestoreRemoveFails PROVE Same
  <2>1. cur \in Paths /\ rid \in Receipts
    BY <1>15 DEF RestoreRemove, RestoreRemoveFails, TypeOK
  <2>2. \A x \in Contents \ Excused : IsLive(x) \/ (IsBinned(x)' <=> IsBinned(x))
    <3>1. \A x \in Contents \ Excused : x = store[rid][cur] => IsLive(x)
      BY <1>15, <2>1 DEF RestoreRemove, RestoreRemoveFails, CopyInv, IsLive
    <3>2. /\ manifest' = manifest /\ Partial \notin Contents /\ None \notin Contents
          /\ \E v \in {None, Partial} : store' = [store EXCEPT ![rid][cur] = v]
      BY <1>15 DEF RestoreRemove, RestoreRemoveFails
    <3>3. \A x \in Contents : x # store[rid][cur] => (IsBinned(x)' <=> IsBinned(x))
      BY <2>1, <3>2 DEF IsBinned, TypeOK
    <3> QED BY <3>1, <3>3
  <2> QED
    BY <1>15, <2>2 DEF Same, RestoreRemove, RestoreRemoveFails, Place, IsLive, IsMoving, Excused
<1>16. ASSUME RestoreDone \/ Cleared PROVE Same
  BY <1>16 DEF Same, RestoreDone, Cleared, Place, IsLive, IsBinned, IsMoving
<1>17. ASSUME NEW r \in Receipts, EmptyTrash(r) PROVE CustodyOfContents!Next
  <2> DEFINE D == {c \in Contents : ~IsLive(c) /\ \E p \in Paths : store[r][p] = c}
  <2>1. Forfeits(D)
    BY <1>17 DEF Forfeits, EmptyTrash, DiskIsBorn, Place, IsLive, IsBinned, IsMoving
  <2> QED BY <2>1, <1>f
<1>18. ASSUME NEW p \in Paths, ClearSlot(p) PROVE Same
  <2>1. \A x \in Contents \ Excused : IsLive(x) \/ (IsBinned(x)' <=> IsBinned(x))
    <3>1. CASE p \in manifest[rid]
      <4>1. \A x \in Contents \ Excused : x = store[rid][p] => IsLive(x)
        BY <1>18, <3>1 DEF ClearSlot, ClearInv
      <4>2. \A x \in Contents : x # store[rid][p] => (IsBinned(x)' <=> IsBinned(x))
        BY <1>18 DEF ClearSlot, IsBinned, TypeOK
      <4> QED BY <4>1, <4>2
    <3>2. CASE p \notin manifest[rid]
      BY <1>18, <3>2 DEF ClearSlot, IsBinned, TypeOK
    <3> QED BY <3>1, <3>2
  <2> QED
    BY <1>18, <2>1 DEF Same, ClearSlot, Place, IsLive, IsMoving, Excused
<1>19. ASSUME ClearManifest PROVE Same
  <2>1. \A x \in Contents \ Excused : IsLive(x) \/ (IsBinned(x)' <=> IsBinned(x))
    BY <1>19 DEF ClearManifest, ClearInv, IsBinned, TypeOK
  <2> QED
    BY <1>19, <2>1 DEF Same, ClearManifest, Place, IsLive, IsMoving, Excused
<1>20. ASSUME Stop PROVE UNCHANGED P \/ CustodyOfContents!Next
  <2>c. PICK c : c = store[rid][cur]
    OBVIOUS
  <2>0. /\ pc' = "idle"
        /\ exposed' = IF pc = "trash.moved" THEN exposed \cup Unlisted({c}) ELSE exposed
        /\ UNCHANGED <<live, store, manifest, born, asked>>
    BY <1>20, <2>c DEF Stop
  <2>1. \A x \in Contents : /\ IsLive(x)' <=> IsLive(x)
                            /\ IsBinned(x)' <=> IsBinned(x)
                            /\ IsMoving(x) <=> pc = "trash.moved" /\ x = c
                            /\ ~IsMoving(x)'
    BY <2>0, <2>c DEF IsLive, IsBinned, IsMoving
  <2>2. CASE pc = "trash.moved" /\ c \in Contents \ Excused /\ ~IsBinned(c)
    <3>1. c \in born
      BY <2>2, <2>c DEF DiskIsBorn, TypeOK
    <3>2. Moves(c, {"live", "moving"}, "exposed")
      BY <2>0, <2>1, <2>2, <3>1 DEF Moves, Place, Excused, Unlisted
    <3> QED BY <3>2, <1>d
  <2>3. CASE ~(pc = "trash.moved" /\ c \in Contents \ Excused /\ ~IsBinned(c))
    <3>1. Same
      BY <2>0, <2>1, <2>3 DEF Same, Place, Excused, Unlisted, NothingLostOutsideWindows, DiskIsBorn
    <3> QED BY <3>1, <1>a
  <2> QED BY <2>2, <2>3
<1>21. ASSUME UNCHANGED vars PROVE Same
  BY <1>21 DEF vars, Same, Place, IsLive, IsBinned, IsMoving
<1>22. RestoreCopyFails => cur \in Paths
  BY DEF RestoreCopyFails, TypeOK
<1> HIDE DEF IInv
<1> QED
  BY <1>22, <1>a, <1>1, <1>2, <1>3, <1>4, <1>5, <1>6, <1>7, <1>8, <1>9, <1>10, <1>12, <1>13,
     <1>14, <1>15, <1>16, <1>17, <1>18, <1>19, <1>20, <1>21 DEF Next

-----------------------------------------------------------------------------

\* The engine starts with nothing written and nothing in the trash.
LEMMA InitInv == Init => IInv
  BY DEF Init, IInv, TypeOK, DiskIsBorn, BatchInv, Trashing, CopyInv,
         RestoreInv, Restoring, ClearInv, NoCopyOnOneDevice,
         NothingLostOutsideWindows, OneHome, AtMostOneOrphan

\* The parts of the invariant carry each other over every step.
LEMMA InvStep == IInv /\ [Next]_vars => IInv'
  BY TypeStep, BornStep, BatchStep, CopyStep, RestoreStep, ClearStep,
     DeviceStep, LostStep, OneHomeStep, OrphanStep DEF IInv

\* trash.rs keeps to its types: an operation that is under way works on a
\* receipt, and the item it is moving is one it still has to move.
THEOREM TypeCorrect == Spec => []TypeOK
<1>1. Init => TypeOK
  BY DEF Init, TypeOK
<1>2. TypeOK /\ [Next]_vars => TypeOK'
  BY TypeStep
<1> QED
  BY <1>1, <1>2, PTL DEF Spec

\* The inductive invariant holds of every reachable state.
THEOREM Invariance == Spec => []IInv
  BY InitInv, InvStep, PTL DEF Spec

\* trash_items, restore_trash and empty_trash lose no data except through the
\* windows that exposed names: what was written is live, listed, or the one item
\* between its move and its entry, until its owner gives it up.
THEOREM NothingLost == Spec => []NothingLostOutsideWindows
<1>1. IInv => NothingLostOutsideWindows
  BY DEF IInv
<1> QED
  BY <1>1, Invariance, PTL

\* On one device a content has one home: no move leaves a copy behind.
THEOREM SingleHome == Spec => []OneHome
<1>1. IInv => OneHome
  BY DEF IInv
<1> QED
  BY <1>1, Invariance, PTL

\* A batch of any length that stops anywhere leaves at most one moved item out
\* of its manifest.
THEOREM OrphanBound == Spec => []AtMostOneOrphan
<1>1. IInv => AtMostOneOrphan
  BY DEF IInv
<1> QED
  BY <1>1, Invariance, PTL

\* The engine implements the custody of contents that Custody specifies.
THEOREM Refinement == Spec => ImplementsCustody
<1>1. Init => CustodyOfContents!Init
  BY DEF Init, CustodyOfContents!Init, Place
<1>2. IInv /\ [Next]_vars => [CustodyOfContents!Next]_P
  BY RefineStep
<1> QED
  BY <1>1, <1>2, Invariance, PTL
     DEF Spec, ImplementsCustody, CustodyOfContents!Spec, P

=============================================================================
