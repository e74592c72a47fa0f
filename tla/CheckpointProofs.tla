--------------------------- MODULE CheckpointProofs ---------------------------
(***************************************************************************)
(* Recovery copies: what the manifest lists is whole, little is left       *)
(* behind, and what a restore replaces is kept, for any number of files,   *)
(* contents and copies, any limit of the manifest and any clock.  Each     *)
(* step relies on what the steps before it established: the inductive      *)
(* invariant IInv says what every value of pc still knows.                 *)
(***************************************************************************)
EXTENDS CheckpointRecovery, FiniteSetTheorems, TLAPS

Making    == {"loading", "loaded", "copying", "copied"}
Replacing == {"saved", "checked", "staged", "verified"}

\* The types of the state, but for the limit of the manifest.
Types ==
  /\ target \in [Targets -> Contents \cup {None}] /\ temp \subseteq Targets
  /\ bin \in [Ids -> Contents \cup {None, Partial}]
  /\ info \in [Ids -> Record \cup {None}]
  /\ manifest \subseteq Used
  /\ pc \in PCs /\ op \in Ops /\ raced \in BOOLEAN
  /\ id \in Used \cup {None} /\ (pc # "idle" => id \in Used)
  /\ retired \subseteq Used /\ skewed \subseteq Used /\ vanished \subseteq Ids
  /\ stopped \in BOOLEAN

WithinLimit == IsFiniteSet(manifest) /\ Cardinality(manifest) <= MaxCopies

\* Which operation is where, and what it holds in its hands.
Working ==
  /\ pc \in {"copying", "copied"} => op = "restore"
  /\ pc = "retiring" => op \in {"restore", "delete"}
  /\ pc \in Replacing => op \in {"restore", "undo"}
  /\ pc # "retiring" => retired = {}
  /\ retired \cap manifest = {} /\ \A i, j \in retired : i = j
  /\ pc = "copying" => bin[id] \in {Partial, None}

\* A new id is not listed before its copy is, and if a listed record is later
\* than its own the clock was set back.
Fresh ==
  pc \in Making /\ op = "restore" =>
    /\ id \notin manifest
    /\ \A j \in manifest : info[id].at < info[j].at => id \in skewed

\* The only stray is the copy being made, or the one being removed.
StraysKnown ==
  /\ pc \in {"idle", "loading"} => \A i, j \in Strays : i = j
  /\ pc \in {"loaded"} \cup Replacing => Strays = {}
  /\ pc \in {"copying", "copied"} => Strays \subseteq {id}
  /\ pc = "retiring" => Strays \subseteq retired

\* As long as nothing was stopped.
Tidy ==
  ~stopped =>
    /\ pc \in {"idle", "loading"} => Strays = {}
    /\ pc \in {"staged", "verified"} => temp \subseteq {File}
    /\ pc \notin {"staged", "verified"} => temp = {}

\* The copy of what is about to be replaced.
CopyKept == id \in manifest /\ bin[id] = info[id].before
Kept ==
  /\ pc = "copied" => id \in vanished \/ bin[id] = info[id].before
  /\ pc \in {"retiring"} \cup Replacing /\ op = "restore" =>
       id \in skewed \cup vanished \/ CopyKept
  /\ pc = "verified" => raced \/ target[File] = Expected

IInv ==
  /\ Types /\ WithinLimit
  /\ RecordedIsWhole /\ Working /\ Fresh
  /\ StraysKnown /\ Tidy /\ Kept

-----------------------------------------------------------------------------

\* A manifest that only lost records is within the limit.
LEMMA FewerRecords ==
  ASSUME Types, WithinLimit, manifest' \subseteq manifest
  PROVE  WithinLimit'
<1>1. IsFiniteSet(manifest)
  BY DEF WithinLimit
<1>2. Cardinality(manifest') <= Cardinality(manifest) /\ IsFiniteSet(manifest')
  BY <1>1, FS_Subset
<1>3. Cardinality(manifest) \in Nat /\ Cardinality(manifest') \in Nat
  BY <1>1, <1>2, FS_CardinalityType
<1> QED
  BY <1>2, <1>3, RecoveryAssumption DEF WithinLimit

\* Saving a manifest with the new record in it keeps the limit, and finds
\* another record to compare with when it retires one.
LEMMA SavedRecords ==
  ASSUME Types, WithinLimit, id \notin manifest, id \in Ids, SaveManifest
  PROVE  /\ WithinLimit'
         /\ Cardinality(manifest \cup {id}) <= MaxCopies \/ manifest # {}
<1> DEFINE records == manifest \cup {id}
<1>1. IsFiniteSet(manifest)
  BY DEF WithinLimit
<1>2. IsFiniteSet(records) /\ Cardinality(records) = Cardinality(manifest) + 1
  BY <1>1, FS_AddElement
<1>3. Cardinality(manifest) \in Nat /\ Cardinality(records) \in Nat
  BY <1>1, <1>2, FS_CardinalityType
<1>4. manifest = {} => Cardinality(records) = 1
  BY <1>2, FS_EmptySet
<1>5. \A v \in records : /\ IsFiniteSet(records \ {v})
                         /\ Cardinality(records \ {v}) = Cardinality(records) - 1
  BY <1>2, FS_RemoveElement
<1>6. \/ Cardinality(records) <= MaxCopies /\ manifest' = records
      \/ \E v \in records : manifest' = records \ {v}
  BY DEF SaveManifest
<1> HIDE DEF records
<1>7. WithinLimit'
  BY <1>2, <1>3, <1>5, <1>6, RecoveryAssumption DEF WithinLimit
<1>8. Cardinality(records) <= MaxCopies \/ manifest # {}
  BY <1>3, <1>4, RecoveryAssumption
<1> QED
  BY <1>7, <1>8 DEF records

-----------------------------------------------------------------------------

\* Nothing is listed, kept or under way at first.
LEMMA InitIInv == Init => IInv
<1> SUFFICES ASSUME Init PROVE IInv
  OBVIOUS
<1>1. raced \in BOOLEAN /\ stopped \in BOOLEAN
  BY Zenon DEF Init
<1>2. IsFiniteSet(manifest) /\ Cardinality(manifest) <= MaxCopies
  BY FS_EmptySet, RecoveryAssumption DEF Init
<1> QED
  BY <1>1, <1>2, RecoveryAssumption
  DEF Init, IInv, Types, WithinLimit, RecordedIsWhole, Working, Fresh, StraysKnown, Tidy, Kept,
      Strays, Used, PCs, Ops, Making, Replacing

\* Every step of the operations, of their failures and of the rest of the world
\* keeps the invariant.
LEMMA NextIInv == IInv /\ [Next]_vars => IInv'
<1> SUFFICES ASSUME IInv, [Next]_vars PROVE IInv'
  OBVIOUS
<1>0. Types /\ WithinLimit /\ RecordedIsWhole /\ Working /\ Fresh /\ StraysKnown /\ Tidy /\ Kept
  BY DEF IInv
<1> USE RecoveryAssumption
    DEF RecordedIsWhole, Working, Fresh, StraysKnown, Tidy, Kept, CopyKept, Strays, Used,
        PCs, Ops, Making, Replacing, Types, Record, Goto, Return, disk, run, File, Expected
<1>1. ASSUME NEW t \in Targets, NEW c \in Contents \cup {None}, CliWrite(t, c)
     PROVE  IInv'
  <2>1. Types'
    BY <1>0, <1>1 DEF CliWrite
  <2>2. WithinLimit'
    BY <1>0, <1>1, FewerRecords DEF CliWrite
  <2>3. RecordedIsWhole' /\ Working' /\ Fresh'
    BY <1>0, <1>1, <2>1 DEF CliWrite
  <2>4. StraysKnown' /\ Tidy' /\ Kept'
    BY <1>0, <1>1, <2>1 DEF CliWrite
  <2> QED
    BY <2>1, <2>2, <2>3, <2>4 DEF IInv
<1>2. ASSUME NEW i \in Ids, Vanish(i)
     PROVE  IInv'
  <2>1. Types'
    BY <1>0, <1>2 DEF Vanish
  <2>2. WithinLimit'
    BY <1>0, <1>2, FewerRecords DEF Vanish
  <2>3. RecordedIsWhole' /\ Working' /\ Fresh'
    BY <1>0, <1>2, <2>1 DEF Vanish
  <2>4. StraysKnown' /\ Tidy' /\ Kept'
    BY <1>0, <1>2, <2>1 DEF Vanish
  <2> QED
    BY <2>1, <2>2, <2>3, <2>4 DEF IInv
<1>3. ASSUME NEW i \in Ids, NEW t \in Targets, NEW c \in Contents,
            NEW now \in 0 .. MaxNow, BeginRestore(i, t, c, now)
     PROVE  IInv'
  <2>1. Types'
    BY <1>0, <1>3 DEF BeginRestore
  <2>2. WithinLimit'
    BY <1>0, <1>3, FewerRecords DEF BeginRestore
  <2>3. RecordedIsWhole' /\ Working' /\ Fresh'
    BY <1>0, <1>3, <2>1 DEF BeginRestore
  <2>4. StraysKnown' /\ Tidy' /\ Kept'
    BY <1>0, <1>3, <2>1 DEF BeginRestore
  <2> QED
    BY <2>1, <2>2, <2>3, <2>4 DEF IInv
<1>4. ASSUME NEW o \in Ops \ {"restore"}, NEW i \in Ids, Begin(o, i)
     PROVE  IInv'
  <2>1. Types'
    BY <1>0, <1>4 DEF Begin
  <2>2. WithinLimit'
    BY <1>0, <1>4, FewerRecords DEF Begin
  <2>3. RecordedIsWhole' /\ Working' /\ Fresh'
    BY <1>0, <1>4, <2>1 DEF Begin
  <2>4. StraysKnown' /\ Tidy' /\ Kept'
    BY <1>0, <1>4, <2>1 DEF Begin
  <2> QED
    BY <2>1, <2>2, <2>3, <2>4 DEF IInv
<1>5. ASSUME NEW i \in Ids, RemoveStray(i)
     PROVE  IInv'
  <2>1. Types'
    BY <1>0, <1>5 DEF RemoveStray
  <2>2. WithinLimit'
    BY <1>0, <1>5, FewerRecords DEF RemoveStray
  <2>3. RecordedIsWhole' /\ Working' /\ Fresh'
    BY <1>0, <1>5, <2>1 DEF RemoveStray
  <2>4. StraysKnown' /\ Tidy' /\ Kept'
    BY <1>0, <1>5, <2>1 DEF RemoveStray
  <2> QED
    BY <2>1, <2>2, <2>3, <2>4 DEF IInv
<1>6. CASE Load
  <2>1. Types'
    BY <1>0, <1>6 DEF Load
  <2>2. WithinLimit'
    BY <1>0, <1>6, FewerRecords DEF Load
  <2>3. RecordedIsWhole' /\ Working' /\ Fresh'
    BY <1>0, <1>6, <2>1 DEF Load
  <2>4. StraysKnown' /\ Tidy' /\ Kept'
    BY <1>0, <1>6, <2>1 DEF Load
  <2> QED
    BY <2>1, <2>2, <2>3, <2>4 DEF IInv
<1>7. CASE Listed
  <2>1. Types'
    BY <1>0, <1>7 DEF Listed
  <2>2. WithinLimit'
    BY <1>0, <1>7, FewerRecords DEF Listed
  <2>3. RecordedIsWhole' /\ Working' /\ Fresh'
    BY <1>0, <1>7, <2>1 DEF Listed
  <2>4. StraysKnown' /\ Tidy' /\ Kept'
    BY <1>0, <1>7, <2>1 DEF Listed
  <2> QED
    BY <2>1, <2>2, <2>3, <2>4 DEF IInv
<1>8. CASE CopyBegins
  <2>1. Types'
    BY <1>0, <1>8 DEF CopyBegins
  <2>2. WithinLimit'
    BY <1>0, <1>8, FewerRecords DEF CopyBegins
  <2>3. RecordedIsWhole' /\ Working' /\ Fresh'
    BY <1>0, <1>8, <2>1 DEF CopyBegins
  <2>4. StraysKnown' /\ Tidy' /\ Kept'
    BY <1>0, <1>8, <2>1 DEF CopyBegins
  <2> QED
    BY <2>1, <2>2, <2>3, <2>4 DEF IInv
<1>9. CASE CopyVerified
  <2>1. Types'
    BY <1>0, <1>9 DEF CopyVerified
  <2>2. WithinLimit'
    BY <1>0, <1>9, FewerRecords DEF CopyVerified
  <2>3. RecordedIsWhole' /\ Working' /\ Fresh'
    BY <1>0, <1>9, <2>1 DEF CopyVerified
  <2>4. StraysKnown' /\ Tidy' /\ Kept'
    BY <1>0, <1>9, <2>1 DEF CopyVerified
  <2> QED
    BY <2>1, <2>2, <2>3, <2>4 DEF IInv
<1>10. CASE SaveManifest
  <2>1. Types'
    BY <1>0, <1>10 DEF SaveManifest
  <2>2. /\ WithinLimit'
        /\ Cardinality(manifest \cup {id}) <= MaxCopies \/ manifest # {}
    BY <1>0, <1>10, SavedRecords DEF SaveManifest
  <2>3. RecordedIsWhole' /\ Working' /\ Fresh'
    BY <1>0, <1>10, <2>1 DEF SaveManifest
  <2>4. StraysKnown' /\ Tidy'
    BY <1>0, <1>10, <2>1 DEF SaveManifest
  <2>5. id \in manifest' \/ id \in skewed
    BY <1>0, <1>10, <2>2 DEF SaveManifest
  <2>6. Kept'
    BY <1>0, <1>10, <2>5 DEF SaveManifest
  <2> QED
    BY <2>1, <2>2, <2>3, <2>4, <2>6 DEF IInv
<1>11. CASE CopyDropped
  <2>1. Types'
    BY <1>0, <1>11 DEF CopyDropped
  <2>2. WithinLimit'
    BY <1>0, <1>11, FewerRecords DEF CopyDropped
  <2>3. RecordedIsWhole' /\ Working' /\ Fresh'
    BY <1>0, <1>11, <2>1 DEF CopyDropped
  <2>4. StraysKnown' /\ Tidy' /\ Kept'
    BY <1>0, <1>11, <2>1 DEF CopyDropped
  <2> QED
    BY <2>1, <2>2, <2>3, <2>4 DEF IInv
<1>12. CASE DeleteRecord
  <2>1. Types'
    BY <1>0, <1>12 DEF DeleteRecord
  <2>2. WithinLimit'
    BY <1>0, <1>12, FewerRecords DEF DeleteRecord
  <2>3. RecordedIsWhole' /\ Working' /\ Fresh'
    BY <1>0, <1>12, <2>1 DEF DeleteRecord
  <2>4. StraysKnown' /\ Tidy' /\ Kept'
    BY <1>0, <1>12, <2>1 DEF DeleteRecord
  <2> QED
    BY <2>1, <2>2, <2>3, <2>4 DEF IInv
<1>13. CASE Retire
  <2>1. Types'
    <3>1. bin' \in [Ids -> Contents \cup {None, Partial}]
      BY <1>0, <1>13 DEF Retire
    <3>2. CASE op = "delete"
      BY <1>0, <1>13, <3>1, <3>2 DEF Retire
    <3>3. CASE op # "delete"
      BY <1>0, <1>13, <3>1, <3>3 DEF Retire
    <3> QED
      BY <3>2, <3>3
  <2>2. WithinLimit'
    BY <1>0, <1>13, FewerRecords DEF Retire
  <2>3. RecordedIsWhole' /\ Working' /\ Fresh'
    BY <1>0, <1>13, <2>1 DEF Retire
  <2>4. StraysKnown' /\ Tidy' /\ Kept'
    BY <1>0, <1>13, <2>1 DEF Retire
  <2> QED
    BY <2>1, <2>2, <2>3, <2>4 DEF IInv
<1>14. CASE UndoVerified
  <2>1. Types'
    BY <1>0, <1>14 DEF UndoVerified
  <2>2. WithinLimit'
    BY <1>0, <1>14, FewerRecords DEF UndoVerified
  <2>3. RecordedIsWhole' /\ Working' /\ Fresh'
    BY <1>0, <1>14, <2>1 DEF UndoVerified
  <2>4. StraysKnown' /\ Tidy' /\ Kept'
    BY <1>0, <1>14, <2>1 DEF UndoVerified
  <2> QED
    BY <2>1, <2>2, <2>3, <2>4 DEF IInv
<1>15. CASE FirstCheck
  <2>1. Types'
    BY <1>0, <1>15 DEF FirstCheck
  <2>2. WithinLimit'
    BY <1>0, <1>15, FewerRecords DEF FirstCheck
  <2>3. RecordedIsWhole' /\ Working' /\ Fresh'
    BY <1>0, <1>15, <2>1 DEF FirstCheck
  <2>4. StraysKnown' /\ Tidy' /\ Kept'
    BY <1>0, <1>15, <2>1 DEF FirstCheck
  <2> QED
    BY <2>1, <2>2, <2>3, <2>4 DEF IInv
<1>16. CASE WriteTemp
  <2>1. Types'
    BY <1>0, <1>16 DEF WriteTemp
  <2>2. WithinLimit'
    BY <1>0, <1>16, FewerRecords DEF WriteTemp
  <2>3. RecordedIsWhole' /\ Working' /\ Fresh'
    BY <1>0, <1>16, <2>1 DEF WriteTemp
  <2>4. StraysKnown' /\ Tidy' /\ Kept'
    BY <1>0, <1>16, <2>1 DEF WriteTemp
  <2> QED
    BY <2>1, <2>2, <2>3, <2>4 DEF IInv
<1>17. CASE FinalCheck
  <2>1. Types'
    BY <1>0, <1>17 DEF FinalCheck
  <2>2. WithinLimit'
    BY <1>0, <1>17, FewerRecords DEF FinalCheck
  <2>3. RecordedIsWhole' /\ Working' /\ Fresh'
    BY <1>0, <1>17, <2>1 DEF FinalCheck
  <2>4. StraysKnown' /\ Tidy' /\ Kept'
    BY <1>0, <1>17, <2>1 DEF FinalCheck
  <2> QED
    BY <2>1, <2>2, <2>3, <2>4 DEF IInv
<1>18. CASE Replace
  <2>0. target' \in [Targets -> Contents \cup {None}] /\ temp' \subseteq Targets
    BY <1>0, <1>18 DEF Replace, Written
  <2>1. Types'
    BY <1>0, <1>18, <2>0 DEF Replace
  <2>2. WithinLimit'
    BY <1>0, <1>18, FewerRecords DEF Replace
  <2>3. RecordedIsWhole' /\ Working' /\ Fresh'
    BY <1>0, <1>18, <2>1 DEF Replace
  <2>4. StraysKnown' /\ Tidy' /\ Kept'
    BY <1>0, <1>18, <2>1 DEF Replace
  <2> QED
    BY <2>1, <2>2, <2>3, <2>4 DEF IInv
<1>19. CASE ReplaceFails
  <2>1. Types'
    BY <1>0, <1>19 DEF ReplaceFails
  <2>2. WithinLimit'
    BY <1>0, <1>19, FewerRecords DEF ReplaceFails
  <2>3. RecordedIsWhole' /\ Working' /\ Fresh'
    BY <1>0, <1>19, <2>1 DEF ReplaceFails
  <2>4. StraysKnown' /\ Tidy' /\ Kept'
    BY <1>0, <1>19, <2>1 DEF ReplaceFails
  <2> QED
    BY <2>1, <2>2, <2>3, <2>4 DEF IInv
<1>20. CASE Stop
  <2>1. Types'
    BY <1>0, <1>20 DEF Stop
  <2>2. WithinLimit'
    BY <1>0, <1>20, FewerRecords DEF Stop
  <2>3. RecordedIsWhole' /\ Working' /\ Fresh'
    BY <1>0, <1>20, <2>1 DEF Stop
  <2>4. StraysKnown' /\ Tidy' /\ Kept'
    BY <1>0, <1>20, <2>1 DEF Stop
  <2> QED
    BY <2>1, <2>2, <2>3, <2>4 DEF IInv
<1>21. CASE UNCHANGED vars
  BY <1>0, <1>21 DEF vars, IInv, WithinLimit
<1> QED
  BY <1>1, <1>2, <1>3, <1>4, <1>5, <1>6, <1>7, <1>8, <1>9, <1>10, <1>11,
     <1>12, <1>13, <1>14, <1>15, <1>16, <1>17, <1>18, <1>19, <1>20, <1>21 DEF Next

\* Hence it holds throughout.
LEMMA RecoveryInvariance == Spec => []IInv
  BY InitIInv, NextIInv, PTL DEF Spec

-----------------------------------------------------------------------------

\* The manifest of recovery copies stays within MAX_RECOVERY_COPIES, and the
\* operation under way always has a record.
THEOREM RecoveryTypeCorrect == Spec => []TypeOK
<1>1. IInv => TypeOK
  BY DEF IInv, Types, WithinLimit, TypeOK
<1> QED
  BY <1>1, RecoveryInvariance, PTL

\* Wherever an operation stops, a copy the manifest lists is whole.
THEOREM ListedCopiesAreWhole == Spec => []RecordedIsWhole
<1>1. IInv => RecordedIsWhole
  BY DEF IInv
<1> QED
  BY <1>1, RecoveryInvariance, PTL

\* However often operations stop, at most one copy is listed nowhere.
THEOREM RecoveryIsTidy == Spec => []LittleLeftBehind
<1>1. IInv => LittleLeftBehind
  BY DEF IInv, LittleLeftBehind, Types, PCs, Replacing, StraysKnown, Working, Tidy
<1> QED
  BY <1>1, RecoveryInvariance, PTL

\* A target is replaced only when what it held is kept: by the copy a restore
\* has just listed, or as the checkpoint that an undo takes back.
THEOREM RestoreDestroysNothing == Spec => ReplacedIsKept
<1> DEFINE A == \A t \in Targets : pc = "verified" /\ pc' = "idle" /\ target'[t] # target[t] =>
       \/ raced
       \/ op = "undo" /\ target[t] = info[id].after
       \/ op = "restore" /\ \/ id \in manifest /\ bin[id] = target[t]
                            \/ id \in skewed \cup vanished
<1>1. IInv /\ [Next]_vars => [A]_vars
  <2> SUFFICES ASSUME IInv, Next, NEW t \in Targets, pc = "verified", pc' = "idle",
                      target'[t] # target[t], ~raced
               PROVE  \/ op = "undo" /\ target[t] = info[id].after
                      \/ op = "restore" /\ \/ id \in manifest /\ bin[id] = target[t]
                                           \/ id \in skewed \cup vanished
    OBVIOUS
  <2>1. Replace
    BY DEF Next, CliWrite, Vanish, BeginRestore, Begin, RemoveStray, Load, Listed,
       CopyBegins, CopyVerified, SaveManifest, CopyDropped, DeleteRecord, Retire,
       UndoVerified, FirstCheck, WriteTemp, FinalCheck, ReplaceFails, Stop, Return, Goto, disk
  <2>2. t = File /\ target[t] = Expected
    BY <2>1 DEF Replace, IInv, Kept, Types
  <2> QED
    BY <2>2 DEF IInv, Working, Kept, CopyKept, Replacing, Expected, File
<1>2. [][A]_vars <=> ReplacedIsKept
  BY DEF ReplacedIsKept
<1> QED
  BY <1>1, <1>2, RecoveryInvariance, PTL DEF Spec
=============================================================================
