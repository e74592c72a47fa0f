------------------------------- MODULE Trash -------------------------------
(***************************************************************************)
(* The safe-delete engine, src-tauri/src/maintenance/trash.rs: trash_items,*)
(* restore_trash and empty_trash over a file system that other programs    *)
(* (the Claude CLI, the user) write to at any moment.                      *)
(*                                                                         *)
(* Every file-system call that changes something is a step of its own, so  *)
(* the process may stop between any two of them: Stop stands both for the  *)
(* process dying and for a call that fails without an effect, after which  *)
(* the code returns Err at once and undoes nothing.  The commands hold one *)
(* mutex (module MaintenanceService), so at most one operation is under    *)
(* way.                                                                    *)
(*                                                                         *)
(* A path is a leaf below one of the roots; what it holds is a content (a  *)
(* file, a symbolic link or a subtree; its bytes do not matter), None, or  *)
(* Partial: what an interrupted copy or an interrupted removal leaves.     *)
(* rel_store is injective, so a receipt has one slot per path.  Manifests  *)
(* are sets: the order of their entries is the order of an arbitrary input *)
(* list.  A manifest always has an entry, so {} stands for no manifest.    *)
(***************************************************************************)
EXTENDS FiniteSets, Naturals

CONSTANTS
  Paths,        \* leaves that can be trashed
  Receipts,     \* receipt ids (uuids): each is given out once
  Contents,     \* what a leaf can hold; a write always makes a new one
  None,         \* nothing there
  Partial,      \* a torn file or subtree
  CrossDevice   \* the paths on another device than the app-data directory

ASSUME TrashAssumption ==
  /\ None \notin Contents \cup Paths \cup Receipts
  /\ Partial \notin Contents \cup {None}
  /\ CrossDevice \subseteq Paths

VARIABLES
  live,      \* what each path holds
  store,     \* what each slot of each receipt directory holds
  manifest,  \* the entries of each receipt's manifest.json
  used,      \* the receipt ids already drawn
  pc,        \* where the running operation is, "idle" if there is none
  rid,       \* the receipt it works on
  todo,      \* the items it still has to move
  cur,       \* the item being moved
  items,     \* trash_items: receipt.items in memory
  born,      \* history: every content ever written
  asked,     \* history: contents the user overwrote, unlinked or emptied
  exposed,   \* history: contents caught in a window the code leaves open
  emptied    \* history: the receipts the user asked to empty

disk == <<live, store, manifest, used>>
op   == <<pc, rid, todo, cur, items>>
hist == <<born, asked, exposed, emptied>>
vars == <<disk, op, hist>>

Slot == Contents \cup {None, Partial}

PCs == {"idle", "trash.next", "trash.copying", "trash.copied", "trash.moved",
        "restore.next", "restore.copying", "restore.copied", "clearing"}

Restoring == pc \in {"restore.next", "restore.copying", "restore.copied"}

\* The operation returns: its locals are gone.
Return == pc' = "idle" /\ rid' = None /\ todo' = {} /\ cur' = None /\ items' = {}

Init ==
  /\ live = [p \in Paths |-> None]
  /\ store = [r \in Receipts |-> [p \in Paths |-> None]]
  /\ manifest = [r \in Receipts |-> {}]
  /\ used = {}
  /\ pc = "idle" /\ rid = None /\ todo = {} /\ cur = None /\ items = {}
  /\ born = {} /\ asked = {} /\ exposed = {} /\ emptied = {}

IsLive(c)   == \E p \in Paths : live[p] = c
IsBinned(c) == \E r \in Receipts : \E p \in manifest[r] : store[r][p] = c

\* The members of S that no receipt lists.
Unlisted(S) == {c \in S \cap Contents : ~IsBinned(c)}

(***************************************************************************)
(* Mutants: what five of the steps below would be after a plausible slip.   *)
(* No behaviour takes them; each shows that a property can fail.           *)
(***************************************************************************)

\* The item is ticked off before its entry is written.
TrashRenameTicksOff(p) ==
  /\ pc = "trash.next" /\ p \in todo /\ live[p] # None /\ p \notin CrossDevice
  /\ store' = [store EXCEPT ![rid][p] = live[p]]
  /\ live' = [live EXCEPT ![p] = None]
  /\ pc' = "trash.moved" /\ cur' = p /\ todo' = todo \ {p}
  /\ UNCHANGED <<manifest, used, rid, items, hist>>

\* The original is removed while the copy is being made.
TrashCopyRemovesFirst(p) ==
  /\ pc = "trash.next" /\ p \in todo /\ live[p] # None /\ p \in CrossDevice
  /\ store' = [store EXCEPT ![rid][p] = live[p]]
  /\ live' = [live EXCEPT ![p] = None]
  /\ pc' = "trash.copying" /\ cur' = p
  /\ UNCHANGED <<manifest, used, rid, todo, items, hist>>

\* The manifest is written once, at the end of the batch.
WriteManifestAtEnd ==
  /\ pc = "trash.moved"
  /\ \/ /\ todo = {cur}
        /\ manifest' = [manifest EXCEPT ![rid] = items \cup {cur}]
        /\ Return
     \/ /\ todo # {cur}
        /\ pc' = "trash.next" /\ rid' = rid /\ cur' = None
        /\ items' = items \cup {cur} /\ todo' = todo \ {cur}
        /\ UNCHANGED manifest
  /\ UNCHANGED <<live, store, used, hist>>

\* The conflict check is gone.
RestoreTrashUnchecked(r) ==
  /\ pc = "idle" /\ manifest[r] # {}
  /\ pc' = "restore.next" /\ rid' = r /\ todo' = manifest[r]
  /\ cur' = None /\ items' = {}
  /\ UNCHANGED <<disk, hist>>

\* The item is copied back and left in the receipt.
RestoreRenameKeepsSource(p) ==
  /\ pc = "restore.next" /\ p \in todo /\ store[rid][p] # None /\ p \notin CrossDevice
  /\ live' = [live EXCEPT ![p] = store[rid][p]]
  /\ todo' = todo \ {p}
  /\ UNCHANGED <<store, manifest, used, pc, rid, cur, items, hist>>

(***************************************************************************)
(* The rest of the world.                                                  *)
(***************************************************************************)

\* A content written over p now would be destroyed by the running operation:
\* restore_trash has already checked that p was free, or trash_items has
\* already copied p and is about to remove it.
InWindow(p) ==
  \/ Restoring /\ p \in todo /\ ~(pc = "restore.copied" /\ p = cur)
  \/ pc = "trash.copied" /\ p = cur

\* The CLI creates p or replaces what it holds.
CliWrite(p, c) ==
  /\ c \notin born
  /\ live' = [live EXCEPT ![p] = c]
  /\ born' = born \cup {c}
  /\ asked' = asked \cup ({live[p]} \cap Contents)
  /\ exposed' = IF InWindow(p) THEN exposed \cup {c} ELSE exposed
  /\ UNCHANGED <<store, manifest, used, op, emptied>>

\* The CLI removes p.
CliUnlink(p) ==
  /\ live[p] # None
  /\ live' = [live EXCEPT ![p] = None]
  /\ asked' = asked \cup ({live[p]} \cap Contents)
  /\ UNCHANGED <<store, manifest, used, op, born, exposed, emptied>>

(***************************************************************************)
(* trash_items.                                                            *)
(***************************************************************************)

\* validate_leaves sees every input; then the receipt directory is made.
TrashItems(r, S) ==
  /\ pc = "idle" /\ r \notin used
  /\ S # {} /\ \A p \in S : live[p] # None
  /\ used' = used \cup {r}
  /\ pc' = "trash.next" /\ rid' = r /\ todo' = S /\ cur' = None /\ items' = {}
  /\ UNCHANGED <<live, store, manifest, hist>>

\* move_item of one item: one rename on the same device ...
TrashRename(p) ==
  /\ pc = "trash.next" /\ p \in todo /\ live[p] # None /\ p \notin CrossDevice
  /\ store' = [store EXCEPT ![rid][p] = live[p]]
  /\ live' = [live EXCEPT ![p] = None]
  /\ pc' = "trash.moved" /\ cur' = p
  /\ UNCHANGED <<manifest, used, rid, todo, items, hist>>

\* ... and EXDEV across devices, where a copy is begun,
TrashCopy(p) ==
  /\ pc = "trash.next" /\ p \in todo /\ live[p] # None /\ p \in CrossDevice
  /\ store' = [store EXCEPT ![rid][p] = Partial]
  /\ pc' = "trash.copying" /\ cur' = p
  /\ UNCHANGED <<live, manifest, used, rid, todo, items, hist>>

\* finished (it reads p as p is then),
TrashCopied ==
  /\ pc = "trash.copying" /\ live[cur] # None
  /\ store' = [store EXCEPT ![rid][cur] = live[cur]]
  /\ pc' = "trash.copied"
  /\ UNCHANGED <<live, manifest, used, rid, todo, cur, items, hist>>

\* or abandoned: the partial copy is removed and the batch fails,
TrashCopyFails ==
  /\ pc = "trash.copying"
  /\ store' = [store EXCEPT ![rid][cur] = None]
  /\ Return
  /\ UNCHANGED <<live, manifest, used, hist>>

\* and the original is removed,
TrashRemove ==
  /\ pc = "trash.copied"
  /\ live' = [live EXCEPT ![cur] = None]
  /\ pc' = "trash.moved"
  /\ UNCHANGED <<store, manifest, used, rid, todo, cur, items, hist>>

\* or only a part of it: move_item fails and the copy is in no manifest.
TrashRemoveFails ==
  /\ pc = "trash.copied" /\ live[cur] # None
  /\ live' = [live EXCEPT ![cur] = Partial]
  /\ Return
  /\ exposed' = exposed \cup Unlisted({live[cur], store[rid][cur]})
  /\ UNCHANGED <<store, manifest, used, born, asked, emptied>>

\* The manifest is rewritten (temporary file and rename) after every move.
WriteManifest ==
  /\ pc = "trash.moved"
  /\ manifest' = [manifest EXCEPT ![rid] = items \cup {cur}]
  /\ \/ /\ todo = {cur}
        /\ Return
     \/ /\ todo # {cur}
        /\ pc' = "trash.next" /\ rid' = rid /\ cur' = None
        /\ items' = items \cup {cur} /\ todo' = todo \ {cur}
  /\ UNCHANGED <<live, store, used, hist>>

(***************************************************************************)
(* restore_trash.                                                          *)
(***************************************************************************)

\* Every entry is validated before the first move: nothing at its path.
RestoreTrash(r) ==
  /\ pc = "idle" /\ manifest[r] # {}
  /\ \A p \in manifest[r] : live[p] = None
  /\ pc' = "restore.next" /\ rid' = r /\ todo' = manifest[r]
  /\ cur' = None /\ items' = {}
  /\ UNCHANGED <<disk, hist>>

\* rename(2) replaces whatever is at the path by now.
RestoreRename(p) ==
  /\ pc = "restore.next" /\ p \in todo /\ store[rid][p] # None /\ p \notin CrossDevice
  /\ live' = [live EXCEPT ![p] = store[rid][p]]
  /\ store' = [store EXCEPT ![rid][p] = None]
  /\ todo' = todo \ {p}
  /\ UNCHANGED <<manifest, used, pc, rid, cur, items, hist>>

\* copy_file truncates whatever is at the path by now.
RestoreCopy(p) ==
  /\ pc = "restore.next" /\ p \in todo /\ store[rid][p] # None /\ p \in CrossDevice
  /\ live' = [live EXCEPT ![p] = Partial]
  /\ pc' = "restore.copying" /\ cur' = p
  /\ UNCHANGED <<store, manifest, used, rid, todo, items, hist>>

RestoreCopied ==
  /\ pc = "restore.copying"
  /\ live' = [live EXCEPT ![cur] = store[rid][cur]]
  /\ pc' = "restore.copied"
  /\ UNCHANGED <<store, manifest, used, rid, todo, cur, items, hist>>

RestoreCopyFails ==
  /\ pc = "restore.copying"
  /\ live' = [live EXCEPT ![cur] = None]
  /\ Return
  /\ UNCHANGED <<store, manifest, used, hist>>

RestoreRemove ==
  /\ pc = "restore.copied"
  /\ store' = [store EXCEPT ![rid][cur] = None]
  /\ pc' = "restore.next" /\ todo' = todo \ {cur} /\ cur' = None
  /\ UNCHANGED <<live, manifest, used, rid, items, hist>>

RestoreRemoveFails ==
  /\ pc = "restore.copied"
  /\ store' = [store EXCEPT ![rid][cur] = Partial]
  /\ Return
  /\ UNCHANGED <<live, manifest, used, hist>>

\* Every item is back: remove_all of the receipt directory begins.
RestoreDone ==
  /\ pc = "restore.next" /\ todo = {}
  /\ pc' = "clearing"
  /\ UNCHANGED <<disk, rid, todo, cur, items, hist>>

(***************************************************************************)
(* empty_trash, one receipt of the batch, and remove_all of a receipt.     *)
(***************************************************************************)

EmptyTrash(r) ==
  /\ pc = "idle" /\ r \in used
  /\ pc' = "clearing" /\ rid' = r /\ todo' = {} /\ cur' = None /\ items' = {}
  /\ asked' = asked \cup {c \in Contents :
                            ~IsLive(c) /\ \E p \in Paths : store[r][p] = c}
  /\ emptied' = emptied \cup {r}
  /\ UNCHANGED <<disk, born, exposed>>

\* remove_dir_all removes the entries in no particular order.
ClearSlot(p) ==
  /\ pc = "clearing" /\ store[rid][p] # None
  /\ store' = [store EXCEPT ![rid][p] = None]
  /\ UNCHANGED <<live, manifest, used, op, hist>>

ClearManifest ==
  /\ pc = "clearing" /\ manifest[rid] # {}
  /\ manifest' = [manifest EXCEPT ![rid] = {}]
  /\ UNCHANGED <<live, store, used, op, hist>>

Cleared ==
  /\ pc = "clearing" /\ manifest[rid] = {}
  /\ \A p \in Paths : store[rid][p] = None
  /\ Return
  /\ UNCHANGED <<disk, hist>>

\* The operation ends here, with Err or with the process.  A moved item whose
\* entry was not written yet stays in the receipt directory, in no manifest.
Stop ==
  /\ pc # "idle"
  /\ Return
  /\ exposed' = IF pc = "trash.moved"
                THEN exposed \cup Unlisted({store[rid][cur]})
                ELSE exposed
  /\ UNCHANGED <<disk, born, asked, emptied>>

-----------------------------------------------------------------------------

Next ==
  \/ \E p \in Paths, c \in Contents : CliWrite(p, c)
  \/ \E p \in Paths : CliUnlink(p)
  \/ \E r \in Receipts, S \in SUBSET Paths : TrashItems(r, S)
  \/ \E p \in Paths : TrashRename(p)
  \/ \E p \in Paths : TrashCopy(p)
  \/ TrashCopied
  \/ TrashCopyFails
  \/ TrashRemove
  \/ TrashRemoveFails
  \/ WriteManifest
  \/ \E r \in Receipts : RestoreTrash(r)
  \/ \E p \in Paths : RestoreRename(p)
  \/ \E p \in Paths : RestoreCopy(p)
  \/ RestoreCopied
  \/ RestoreCopyFails
  \/ RestoreRemove
  \/ RestoreRemoveFails
  \/ RestoreDone
  \/ \E r \in Receipts : EmptyTrash(r)
  \/ \E p \in Paths : ClearSlot(p)
  \/ ClearManifest
  \/ Cleared
  \/ Stop

Spec == Init /\ [][Next]_vars

-----------------------------------------------------------------------------

TypeOK ==
  /\ live \in [Paths -> Slot]
  /\ store \in [Receipts -> [Paths -> Slot]]
  /\ manifest \in [Receipts -> SUBSET Paths]
  /\ used \subseteq Receipts
  /\ pc \in PCs
  /\ rid \in Receipts \cup {None} /\ (pc # "idle" => rid \in Receipts)
  /\ todo \subseteq Paths /\ items \subseteq Paths
  /\ cur \in Paths \cup {None}
  /\ pc \in {"trash.copying", "trash.copied", "trash.moved",
             "restore.copying", "restore.copied"} => cur \in todo
  /\ born \subseteq Contents /\ asked \subseteq Contents /\ exposed \subseteq Contents
  /\ emptied \subseteq Receipts

IsMoving(c) == pc = "trash.moved" /\ store[rid][cur] = c

\* Whatever was ever written is still whole at its path, or whole in a receipt
\* that lists it (so restore_trash can bring it back), or is the one item
\* between its move and its manifest entry; unless the user overwrote,
\* unlinked or emptied it, or it was caught in one of the windows that
\* exposed names.  Whatever stops, and whatever other programs write, those
\* windows are the only ways trash_items, restore_trash and empty_trash lose
\* data.
NothingLostOutsideWindows ==
  \A c \in born \ (asked \cup exposed) : IsLive(c) \/ IsBinned(c) \/ IsMoving(c)

\* On the device of the app-data directory nothing is ever duplicated: a
\* content is at its path or in one slot of one receipt, so no restore can
\* bring back a second copy of something the user still has or has restored
\* from another receipt.
OneHome ==
  \A p \in Paths \ CrossDevice, q \in Paths : \A r, s \in Receipts :
    /\ live[p] \in Contents =>
         (live[p] = live[q] => p = q) /\ live[p] # store[r][q]
    /\ store[r][p] \in Contents =>
         store[r][p] # live[q] /\ (store[r][p] = store[s][q] => r = s /\ p = q)

\* The manifest is rewritten after each move, so a batch that stops leaves at
\* most one moved item out of it, however many it had moved; restoring and
\* trashing again never adds to that.
AtMostOneOrphan ==
  \A r \in Receipts \ emptied : \A p, q \in Paths \ manifest[r] :
    store[r][p] # None /\ store[r][q] # None => p = q

Place(c) ==
  IF c \notin born THEN "unborn"
  ELSE IF c \in asked THEN "forfeit"
  ELSE IF c \in exposed THEN "exposed"
  ELSE IF IsLive(c) THEN "live"
  ELSE IF IsBinned(c) THEN "binned"
  ELSE IF IsMoving(c) THEN "moving" ELSE "nowhere"

\* Seen through Place, every step of the engine and of the other programs is a
\* step of Custody: contents change hands one at a time, and never vanish.
CustodyOfContents == INSTANCE Custody WITH place <- [c \in Contents |-> Place(c)]
ImplementsCustody == CustodyOfContents!Spec

\* What trash.rs says of the same window ("a crash mid-batch must never leave a
\* moved file with no manifest entry"): when nothing runs, every slot in use
\* of a receipt nobody emptied is listed.  The code does not do that.
NoOrphan ==
  pc = "idle" =>
    \A r \in Receipts \ emptied, p \in Paths :
      store[r][p] # None => p \in manifest[r]

-----------------------------------------------------------------------------
(***************************************************************************)
(* The inductive invariant: what holds between the steps of an operation.  *)
(***************************************************************************)

Excused == asked \cup exposed

Trashing == pc \in {"trash.next", "trash.copying", "trash.copied", "trash.moved"}

\* Whatever is on disk has been written; a receipt id not drawn has no files.
DiskIsBorn ==
  /\ \A p \in Paths : live[p] \in Contents => live[p] \in born
  /\ \A r \in Receipts, p \in Paths : store[r][p] \in Contents => store[r][p] \in born
  /\ asked \cup exposed \subseteq born
  /\ \A r \in Receipts \ used :
       manifest[r] = {} /\ \A p \in Paths : store[r][p] = None

\* A batch has filled the slots its manifest lists, and at most the current one.
BatchInv ==
  Trashing =>
    /\ rid \in used /\ manifest[rid] = items /\ items \cap todo = {}
    /\ \A p \in Paths : store[rid][p] # None =>
         p \in items \/ (pc # "trash.next" /\ p = cur)

\* Between a copy and the removal of its source, the two are the same content.
CopyInv ==
  /\ pc = "trash.copied" /\ live[cur] \in Contents \ Excused
       => store[rid][cur] = live[cur]
  /\ pc \in {"trash.copied", "restore.copied"}
       /\ store[rid][cur] \in Contents \ Excused
       => live[cur] = store[rid][cur]

\* A restore has emptied the slots it is done with, and whatever has appeared
\* at a path it has still to fill is exposed.
RestoreInv ==
  Restoring =>
    /\ todo \subseteq manifest[rid]
    /\ \A p \in manifest[rid] \ todo : store[rid][p] = None
    /\ \A p \in todo : InWindow(p) /\ live[p] \in Contents => live[p] \in Excused

\* What is being removed from the disk is excused, or live.
ClearInv ==
  pc = "clearing" => \A p \in manifest[rid] :
    /\ store[rid][p] \in Contents \ Excused => IsLive(store[rid][p])
    /\ rid \notin emptied => store[rid][p] = None

NoCopyOnOneDevice ==
  pc \in {"trash.copying", "trash.copied", "restore.copying", "restore.copied"}
    => cur \in CrossDevice

IInv ==
  /\ TypeOK
  /\ DiskIsBorn
  /\ BatchInv
  /\ CopyInv
  /\ RestoreInv
  /\ ClearInv
  /\ NoCopyOnOneDevice
  /\ NothingLostOutsideWindows
  /\ OneHome
  /\ AtMostOneOrphan

=============================================================================
