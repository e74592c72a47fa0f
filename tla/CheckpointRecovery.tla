------------------------- MODULE CheckpointRecovery -------------------------
(***************************************************************************)
(* Recovery copies, src-tauri/src/files/checkpoint_recovery.rs.  Before a  *)
(* checkpoint is restored over a file of the user, the file is copied into *)
(* a private directory and the copy is listed in a manifest; later the     *)
(* copy can be put back or deleted.  One process-wide lock makes the       *)
(* operations follow one another, but each takes many file-system steps,   *)
(* between which the process may stop, the CLI may write the target and    *)
(* anybody may remove a copy.  Stop is also a call that fails without an   *)
(* effect: the code then returns Err and leaves the rest as it is, except  *)
(* where an action of its own says that it cleans up.                      *)
(*                                                                         *)
(* A checksum stands for the content, so checksums are compared by         *)
(* comparing contents.  The manifest is the set of the ids it lists; what  *)
(* a record says never changes, so it is kept apart, in info.              *)
(***************************************************************************)
EXTENDS FiniteSets, Naturals

CONSTANTS
  Ids,        \* recovery ids (uuids): each is drawn once
  Targets,    \* files of the user that checkpoints are restored over
  Contents,   \* what a file can hold
  None,       \* no file, no record
  Partial,    \* a copy whose write was cut short
  MaxCopies,  \* MAX_RECOVERY_COPIES
  MaxNow      \* bound on the clock

Record == [target : Targets, before : Contents, after : Contents, at : 0 .. MaxNow]

ASSUME RecoveryAssumption ==
  /\ None \notin Contents \cup Ids \cup Record /\ Partial \notin Contents \cup {None}
  /\ MaxCopies \in Nat \ {0} /\ MaxNow \in Nat

VARIABLES
  target,    \* what each target holds
  temp,      \* the targets with a .codex-restore.tmp beside them
  manifest,  \* the ids listed in manifest.json
  bin,       \* what <id>.bin holds
  info,      \* the record of each id drawn so far
  pc, op, id,  \* the operation under way, its kind and its record
  retired,   \* records it has taken off the manifest and not yet removed
  raced,     \* history: the target was written after the last check
  skewed,    \* history: ids created when the clock was behind a record's
  vanished,  \* history: copies somebody else removed
  stopped    \* history: an operation stopped without cleaning up

disk == <<target, temp, manifest, bin>>
run  == <<pc, op, id, retired, raced>>
vars == <<disk, info, run, skewed, vanished, stopped>>

PCs == {"idle", "loading", "loaded", "copying", "copied", "retiring", "saved",
        "checked", "staged", "verified"}
Ops == {"restore", "undo", "delete", "list"}

Return == pc' = "idle" /\ id' = None /\ retired' = {} /\ raced' = FALSE /\ op' = op
Goto(l) == pc' = l /\ UNCHANGED <<op, id, retired, raced>>

Used == {i \in Ids : info[i] # None}

\* Copies no record lists.
Strays == {i \in Ids : bin[i] # None} \ manifest

\* What the operation expects the target to hold, and what it will write.
File     == info[id].target
Expected == IF op = "undo" THEN info[id].after ELSE info[id].before
Written  == IF op = "undo" THEN info[id].before ELSE info[id].after

Init ==
  /\ target \in [Targets -> Contents] /\ temp = {}
  /\ manifest = {} /\ bin = [i \in Ids |-> None]
  /\ info = [i \in Ids |-> None]
  /\ pc = "idle" /\ op = "list" /\ id = None /\ retired = {} /\ raced = FALSE
  /\ skewed = {} /\ vanished = {} /\ stopped = FALSE

-----------------------------------------------------------------------------
(***************************************************************************)
(* Mutants: no behaviour takes these steps.                                *)
(***************************************************************************)

\* delete removes the copy and leaves the record to the next reconciliation.
DeleteBinaryFirst ==
  /\ pc = "loaded" /\ op = "delete" /\ id \in manifest
  /\ bin' = [bin EXCEPT ![id] = None] /\ retired' = {id} /\ pc' = "retiring"
  /\ UNCHANGED <<target, temp, manifest, info, op, id, raced, skewed, vanished, stopped>>

\* load_records does not reconcile.
LoadTrusting ==
  /\ pc = "loading"
  /\ manifest' = {i \in manifest : bin[i] # None}
  /\ Goto("loaded")
  /\ UNCHANGED <<target, temp, bin, info, skewed, vanished, stopped>>

\* The target is not compared again once the temporary file is written.
FinalCheckOnce ==
  /\ pc = "staged"
  /\ Goto("verified")
  /\ UNCHANGED <<disk, info, skewed, vanished, stopped>>

\* The manifest keeps one record too many.
SaveOneTooMany ==
  /\ pc = "copied"
  /\ manifest' = manifest \cup {id} /\ retired' = {} /\ pc' = "retiring"
  /\ UNCHANGED <<target, temp, bin, info, op, id, raced, skewed, vanished, stopped>>

-----------------------------------------------------------------------------
(***************************************************************************)
(* The rest of the world.                                                  *)
(***************************************************************************)

\* The CLI writes, creates or removes a target.
CliWrite(t, c) ==
  /\ target[t] # c
  /\ target' = [target EXCEPT ![t] = c]
  /\ raced' = IF pc = "verified" /\ t = File THEN TRUE ELSE raced
  /\ UNCHANGED <<temp, manifest, bin, info, pc, op, id, retired, skewed, vanished, stopped>>

\* Somebody removes a copy from the directory.
Vanish(i) ==
  /\ bin[i] # None
  /\ bin' = [bin EXCEPT ![i] = None]
  /\ vanished' = vanished \cup {i}
  /\ UNCHANGED <<target, temp, manifest, info, run, skewed, stopped>>

-----------------------------------------------------------------------------
(***************************************************************************)
(* Every operation loads the manifest first, and reconciles it with the    *)
(* directory: copies nobody lists are removed, records without a copy are  *)
(* dropped.                                                                *)
(***************************************************************************)

\* create_locked has read the target before it loads.  Its record is stamped
\* with a clock that may have been set back.
BeginRestore(i, t, c, now) ==
  /\ pc = "idle" /\ info[i] = None /\ target[t] \in Contents
  /\ info' = [info EXCEPT ![i] =
                [target |-> t, before |-> target[t], after |-> c, at |-> now]]
  /\ skewed' = IF \E j \in manifest : now < info[j].at THEN skewed \cup {i} ELSE skewed
  /\ pc' = "loading" /\ op' = "restore" /\ id' = i
  /\ UNCHANGED <<disk, retired, raced, vanished, stopped>>

\* restore and delete of a record, list and get.
Begin(o, i) ==
  /\ pc = "idle" /\ i \in Used
  /\ pc' = "loading" /\ op' = o /\ id' = i
  /\ UNCHANGED <<disk, info, retired, raced, skewed, vanished, stopped>>

RemoveStray(i) ==
  /\ pc = "loading" /\ i \in Strays
  /\ bin' = [bin EXCEPT ![i] = None]
  /\ UNCHANGED <<target, temp, manifest, info, run, skewed, vanished, stopped>>

Load ==
  /\ pc = "loading" /\ Strays = {}
  /\ manifest' = {i \in manifest : bin[i] # None}
  /\ Goto("loaded")
  /\ UNCHANGED <<target, temp, bin, info, skewed, vanished, stopped>>

Listed ==
  /\ pc = "loaded" /\ op = "list"
  /\ Return
  /\ UNCHANGED <<disk, info, skewed, vanished, stopped>>

-----------------------------------------------------------------------------
(***************************************************************************)
(* The copy and its record.                                                *)
(***************************************************************************)

CopyBegins ==
  /\ pc = "loaded" /\ op = "restore"
  /\ bin' = [bin EXCEPT ![id] = Partial]
  /\ Goto("copying")
  /\ UNCHANGED <<target, temp, manifest, info, skewed, vanished, stopped>>

\* The copy is synced, read back and compared.
CopyVerified ==
  /\ pc = "copying" /\ bin[id] = Partial
  /\ bin' = [bin EXCEPT ![id] = info[id].before]
  /\ Goto("copied")
  /\ UNCHANGED <<target, temp, manifest, info, skewed, vanished, stopped>>

\* The records are sorted by their time and the first is retired if there are
\* too many: the new one only if all the others are later.
SaveManifest ==
  /\ pc = "copied"
  /\ LET records == manifest \cup {id} IN
       IF Cardinality(records) <= MaxCopies
       THEN manifest' = records /\ retired' = {}
       ELSE \E v \in records :
              /\ \A i \in records \ {v} :
                   IF v = id THEN info[v].at < info[i].at ELSE info[v].at <= info[i].at
              /\ manifest' = records \ {v} /\ retired' = {v}
  /\ pc' = "retiring"
  /\ UNCHANGED <<target, temp, bin, info, op, id, raced, skewed, vanished, stopped>>

\* The copy read back differs, or the manifest cannot be written: the new copy
\* is removed.
CopyDropped ==
  /\ pc \in {"copying", "copied"}
  /\ bin' = [bin EXCEPT ![id] = None]
  /\ Return
  /\ UNCHANGED <<target, temp, manifest, info, skewed, vanished, stopped>>

\* delete takes the record off the manifest first.
DeleteRecord ==
  /\ pc = "loaded" /\ op = "delete" /\ id \in manifest
  /\ manifest' = manifest \ {id} /\ retired' = {id} /\ pc' = "retiring"
  /\ UNCHANGED <<target, temp, bin, info, op, id, raced, skewed, vanished, stopped>>

Retire ==
  /\ pc = "retiring"
  /\ bin' = [i \in Ids |-> IF i \in retired THEN None ELSE bin[i]]
  /\ IF op = "delete" THEN Return
     ELSE pc' = "saved" /\ retired' = {} /\ UNCHANGED <<op, id, raced>>
  /\ UNCHANGED <<target, temp, manifest, info, skewed, vanished, stopped>>

-----------------------------------------------------------------------------
(***************************************************************************)
(* The target is replaced.                                                 *)
(***************************************************************************)

\* restore: the record is listed and its copy has the recorded checksum.
UndoVerified ==
  /\ pc = "loaded" /\ op = "undo" /\ id \in manifest /\ bin[id] = info[id].before
  /\ Goto("saved")
  /\ UNCHANGED <<disk, info, skewed, vanished, stopped>>

FirstCheck ==
  /\ pc = "saved" /\ target[File] = Expected
  /\ Goto("checked")
  /\ UNCHANGED <<disk, info, skewed, vanished, stopped>>

WriteTemp ==
  /\ pc = "checked"
  /\ temp' = temp \cup {File}
  /\ Goto("staged")
  /\ UNCHANGED <<target, manifest, bin, info, skewed, vanished, stopped>>

FinalCheck ==
  /\ pc = "staged" /\ target[File] = Expected
  /\ Goto("verified")
  /\ UNCHANGED <<disk, info, skewed, vanished, stopped>>

Replace ==
  /\ pc = "verified"
  /\ target' = [target EXCEPT ![File] = Written]
  /\ temp' = temp \ {File}
  /\ Return
  /\ UNCHANGED <<manifest, bin, info, skewed, vanished, stopped>>

\* The temporary file cannot be written or renamed, or the final check finds
\* another content: the temporary file is removed.
ReplaceFails ==
  /\ pc \in {"staged", "verified"}
  /\ temp' = temp \ {File}
  /\ Return
  /\ UNCHANGED <<target, manifest, bin, info, skewed, vanished, stopped>>

\* Err, or the end of the process, wherever it is: nothing is cleaned up.
Stop ==
  /\ pc # "idle"
  /\ stopped' = TRUE
  /\ Return
  /\ UNCHANGED <<disk, info, skewed, vanished>>

-----------------------------------------------------------------------------

Next ==
  \/ \E t \in Targets, c \in Contents \cup {None} : CliWrite(t, c)
  \/ \E i \in Ids : Vanish(i)
  \/ \E i \in Ids, t \in Targets, c \in Contents, now \in 0 .. MaxNow :
       BeginRestore(i, t, c, now)
  \/ \E o \in Ops \ {"restore"}, i \in Ids : Begin(o, i)
  \/ \E i \in Ids : RemoveStray(i)
  \/ Load
  \/ Listed
  \/ CopyBegins
  \/ CopyVerified
  \/ SaveManifest
  \/ CopyDropped
  \/ DeleteRecord
  \/ Retire
  \/ UndoVerified
  \/ FirstCheck
  \/ WriteTemp
  \/ FinalCheck
  \/ Replace
  \/ ReplaceFails
  \/ Stop

Spec == Init /\ [][Next]_vars

-----------------------------------------------------------------------------

\* The manifest never lists more than MAX_RECOVERY_COPIES.
TypeOK ==
  /\ target \in [Targets -> Contents \cup {None}] /\ temp \subseteq Targets
  /\ bin \in [Ids -> Contents \cup {None, Partial}]
  /\ info \in [Ids -> Record \cup {None}]
  /\ manifest \subseteq Used
  /\ Cardinality(manifest) <= MaxCopies
  /\ pc \in PCs /\ op \in Ops /\ raced \in BOOLEAN
  /\ id \in Used \cup {None} /\ (pc # "idle" => id \in Used)
  /\ retired \subseteq Used /\ skewed \subseteq Used /\ vanished \subseteq Ids
  /\ stopped \in BOOLEAN

\* Whatever stops or fails, a record in the manifest has its copy, whole: what
\* list shows can be restored.  The copy is written before its record and
\* removed after it, on every path.
RecordedIsWhole == \A i \in manifest \ vanished : bin[i] = info[i].before

\* Operations that end without being stopped leave no copy that nobody lists and
\* no temporary file beside a target; and any number of stops leaves at most one
\* such copy, because the next operation removes it before it can make another.
LittleLeftBehind ==
  /\ pc = "idle" /\ ~stopped => Strays = {} /\ temp = {}
  /\ \A i, j \in Strays : i = j

\* Restoring a checkpoint destroys nothing: at the moment a target is replaced,
\* what it held is in a copy the manifest lists, unless the target was written
\* after the final check, the copy vanished, or the clock was set back so that
\* the new copy was itself the one to retire.  Putting a copy back replaces
\* nothing but the checkpoint that was restored over it.
ReplacedIsKept ==
  [][\A t \in Targets : pc = "verified" /\ pc' = "idle" /\ target'[t] # target[t] =>
       \/ raced
       \/ op = "undo" /\ target[t] = info[id].after
       \/ op = "restore" /\ \/ id \in manifest /\ bin[id] = target[t]
                            \/ id \in skewed \cup vanished]_vars
=============================================================================
