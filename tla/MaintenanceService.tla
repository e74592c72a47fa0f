------------------------- MODULE MaintenanceService -------------------------
(***************************************************************************)
(* The concurrency of the maintenance commands,                            *)
(* src-tauri/src/commands/maintenance: the op mutex, the run slot with its *)
(* cancel flag, the SSH gate, the mute events to the watcher, the          *)
(* retention-policy pass and the scheduler that runs it unattended.        *)
(*                                                                         *)
(* Three kinds of thread meet here.  Synchronous commands run one at a     *)
(* time on the main thread, which is also the event loop; the scheduler    *)
(* has a thread of its own; asynchronous commands (export_backup,          *)
(* ssh_connect) run on workers.  What the commands do to the disk is in    *)
(* module Trash and its kind; here a mutation is one step that may fail.   *)
(*                                                                         *)
(* Commands by what they take:                                             *)
(*   scan     scan_claude_dir               slot                           *)
(*   preview  preview_simple_cleanup        slot, op                       *)
(*   simple   run_simple_cleanup            slot, op, gate, mute           *)
(*   policy   run_policy_clean              slot, gate, mute; op and gate  *)
(*                                          again for each category        *)
(*   dry      preview_policy_clean          nothing, but polls cancel      *)
(*   trash    trash_items, prune_history,   op, gate, mute                 *)
(*            rollback_binary, clear_files,                                *)
(*            delete_*, apply_import, ...                                  *)
(*   quiet    restore_trash, empty_trash,   op, gate                       *)
(*            every gated write                                            *)
(*   export   export_backup                 op, gate, a native dialog      *)
(***************************************************************************)
EXTENDS FiniteSets, Naturals

CONSTANTS
  Main,         \* the main thread
  Scheduler,    \* the scheduler thread
  Workers,      \* the worker threads that run export_backup
  None,         \* no thread
  Categories,   \* how many categories a policy lists
  MaxCommands   \* bound: how many commands, ticks and connections happen

ASSUME ServiceAssumption ==
  /\ Main # Scheduler /\ None \notin {Main, Scheduler} \cup Workers
  /\ {Main, Scheduler} \cap Workers = {}
  /\ Categories \in Nat /\ MaxCommands \in Nat

Threads == {Main, Scheduler} \cup Workers

VARIABLES
  op,       \* the thread that holds MaintenanceState.op
  running,  \* MaintenanceState.running: the run slot is taken
  cancel,   \* MaintenanceState.cancel
  ssh,      \* an SSH session is connected
  muted,    \* what the front end was last told by maintenance:mute-watcher
  due,      \* is_schedule_due: last_cleanup_ms is older than the interval
  pc,       \* where each thread is in its command, "idle" if it has none
  cmd,      \* the command it runs
  left,     \* the categories, and the expiry, a pass still has to do
  ok,       \* no step of the command has failed
  guards,   \* the threads that hold a MuteGuard
  hit,      \* history: the threads whose pass was in flight at the last cancel
  since,    \* history: mutations begun since the SSH session was connected
  budget    \* commands still to come

shared == <<op, running, cancel, ssh, muted, due>>
local  == <<pc, cmd, left, ok, guards>>
vars   == <<shared, local, hit, since, budget>>

PCs == {"idle", "reset", "scanning", "upfront", "loop", "lock", "gate",
        "work", "drop", "unlock", "clear", "free"}
Cmds == {"none", "scan", "preview", "simple", "policy", "dry", "trash",
         "quiet", "export"}
Claiming == {"scan", "preview", "simple", "policy"}
Muting   == {"simple", "trash"}

Init ==
  /\ op = None /\ running = FALSE /\ cancel = FALSE
  /\ ssh = FALSE /\ muted = FALSE /\ due = TRUE
  /\ pc = [t \in Threads |-> "idle"] /\ cmd = [t \in Threads |-> "none"]
  /\ left = [t \in Threads |-> 0] /\ ok = [t \in Threads |-> TRUE]
  /\ guards = {} /\ hit = {} /\ since = 0 /\ budget = MaxCommands

Goto(t, l) == pc' = [pc EXCEPT ![t] = l]
Spend == budget > 0 /\ budget' = budget - 1

\* t begins command c at l; a pass has its categories and the expiry to do.
Begin(t, c, l) ==
  /\ Goto(t, l)
  /\ cmd' = [cmd EXCEPT ![t] = c]
  /\ ok' = [ok EXCEPT ![t] = TRUE]
  /\ left' = [left EXCEPT ![t] = IF c \in {"policy", "dry"} THEN Categories + 1
                                                            ELSE 0]
  /\ hit' = hit \ {t}

InSlot(t) == cmd[t] \in Claiming /\ pc[t] # "idle"

\* t is inside a command that cancel_scan means: past the reset of the flag.
InFlight(t) ==
  \/ InSlot(t) /\ pc[t] \notin {"reset", "clear", "free"}
  \/ cmd[t] = "dry" /\ pc[t] = "loop"

-----------------------------------------------------------------------------
(***************************************************************************)
(* Mutants: what some of the steps below would be after a plausible slip.  *)
(* No behaviour takes them; each shows that a property can fail.           *)
(***************************************************************************)

\* claim_run builds the guard before it looks at the exchange: the guard of a
\* refused command frees the slot of the command that has it.
ClaimGuardFirst(t, c) ==
  /\ pc[t] = "idle" /\ c \in Claiming /\ t # Scheduler
  /\ Spend
  /\ IF running
     THEN /\ running' = FALSE /\ cancel' = FALSE
          /\ UNCHANGED <<local, hit>>
     ELSE /\ running' = TRUE
          /\ Begin(t, c, "reset")
          /\ UNCHANGED <<cancel, guards>>
  /\ UNCHANGED <<op, ssh, muted, due, since>>

\* claim_run resets the flag before it tries the slot.
ClaimResetsFirst(t, c) ==
  /\ pc[t] = "idle" /\ c \in Claiming /\ t # Scheduler
  /\ Spend
  /\ cancel' = FALSE
  /\ IF running THEN UNCHANGED <<running, local, hit>>
     ELSE running' = TRUE /\ Begin(t, c, "reset") /\ UNCHANGED guards
  /\ UNCHANGED <<op, ssh, muted, due, since>>

\* claim_run leaves the flag as it finds it.
ResetCancelNot(t) ==
  /\ pc[t] = "reset"
  /\ Goto(t, CASE cmd[t] = "scan" -> "scanning"
               [] cmd[t] = "policy" -> "upfront"
               [] OTHER -> "lock")
  /\ UNCHANGED <<shared, cmd, left, ok, guards, hit, since, budget>>

\* The closures of a pass trust the gate it passed up front.
GateOnce(t) ==
  /\ pc[t] = "gate"
  /\ IF cmd[t] \in {"preview", "policy"} \/ ~ssh
     THEN Goto(t, "work") /\ UNCHANGED ok
     ELSE Goto(t, "unlock") /\ ok' = [ok EXCEPT ![t] = FALSE]
  /\ IF cmd[t] \in Muting /\ ~ssh
     THEN guards' = guards \cup {t} /\ muted' = TRUE
     ELSE UNCHANGED <<guards, muted>>
  /\ UNCHANGED <<op, running, cancel, ssh, due, cmd, left, hit, since, budget>>

\* The up-front refusal forgets the slot.
UpfrontLeaksSlot(t) ==
  /\ pc[t] = "upfront"
  /\ IF ssh
     THEN /\ Goto(t, "idle") /\ ok' = [ok EXCEPT ![t] = FALSE]
          /\ UNCHANGED <<guards, muted>>
     ELSE /\ Goto(t, "loop")
          /\ guards' = guards \cup {t} /\ muted' = TRUE
          /\ UNCHANGED ok
  /\ UNCHANGED <<op, running, cancel, ssh, due, cmd, left, hit, since, budget>>

\* last_cleanup_ms is stamped whatever the pass returned.
LoopCancelledStamps(t) ==
  /\ pc[t] = "loop" /\ left[t] > 0 /\ cancel
  /\ ok' = [ok EXCEPT ![t] = FALSE]
  /\ Goto(t, IF cmd[t] = "policy" THEN "drop" ELSE "idle")
  /\ due' = IF cmd[t] = "policy" THEN FALSE ELSE due
  /\ UNCHANGED <<op, running, cancel, ssh, muted, cmd, left, guards, hit,
                 since, budget>>

\* The pass goes once more round its categories than there are.
LoopSkipsOnceMore(t) ==
  /\ pc[t] = "loop" /\ ~cancel
  /\ left' = [left EXCEPT ![t] = @ - 1]
  /\ UNCHANGED <<shared, pc, cmd, ok, guards, hit, since, budget>>

(***************************************************************************)
(* Commands arrive.                                                        *)
(***************************************************************************)

\* A command that takes the run slot: one compare-and-exchange, refused if the
\* slot is taken.  The reset of cancel is a store of its own, after it.
Claim(t, c) ==
  /\ pc[t] = "idle" /\ c \in Claiming /\ t # Scheduler
  /\ Spend
  /\ IF running THEN UNCHANGED <<running, local, hit>>
     ELSE running' = TRUE /\ Begin(t, c, "reset") /\ UNCHANGED guards
  /\ UNCHANGED <<op, cancel, ssh, muted, due, since>>

\* A command that takes op and no slot.
Lockers(t) == IF t \in Workers THEN {"export"} ELSE {"trash", "quiet"}
Enter(t, c) ==
  /\ pc[t] = "idle" /\ t # Scheduler /\ c \in Lockers(t)
  /\ Spend
  /\ Begin(t, c, "lock")
  /\ UNCHANGED <<shared, guards, since>>

\* preview_policy_clean runs the same pass and claims nothing.
Preview ==
  /\ pc[Main] = "idle"
  /\ Spend
  /\ Begin(Main, "dry", "loop")
  /\ UNCHANGED <<shared, guards, since>>

\* cancel_scan and cancel_policy_clean store the flag, whatever runs.
Cancel ==
  /\ pc[Main] = "idle"
  /\ Spend
  /\ cancel' = TRUE
  /\ hit' = {t \in Threads : InFlight(t)}
  /\ UNCHANGED <<op, running, ssh, muted, due, local, since>>

\* maybe_run_scheduled, if due, with the policy of that moment: its auto-approved
\* part through the executor (refused if the slot is taken, and then nothing more
\* happens) or, when nothing is auto-approved, straight to the report of the rest.
Tick ==
  /\ pc[Scheduler] = "idle" /\ due
  /\ Spend
  /\ \/ running /\ UNCHANGED <<running, local, hit>>
     \/ ~running /\ running' = TRUE
          /\ Begin(Scheduler, "policy", "reset") /\ UNCHANGED guards
     \/ Begin(Scheduler, "dry", "loop") /\ UNCHANGED <<running, guards>>
  /\ UNCHANGED <<op, cancel, ssh, muted, due, since>>

\* The schedule interval elapses.
Elapse ==
  /\ ~due /\ due' = TRUE
  /\ Spend
  /\ UNCHANGED <<op, running, cancel, ssh, muted, local, hit, since>>

\* ssh_connect ends on its worker and stores the connection; it takes no lock
\* of this module.
Connect ==
  /\ ~ssh /\ ssh' = TRUE /\ since' = 0
  /\ Spend
  /\ UNCHANGED <<op, running, cancel, muted, due, local, hit>>

\* ssh_disconnect, and the clear_conn with which ssh_connect begins.
Disconnect ==
  /\ ssh /\ ssh' = FALSE
  /\ UNCHANGED <<op, running, cancel, muted, due, local, hit, since, budget>>

(***************************************************************************)
(* The steps of a command.                                                 *)
(***************************************************************************)

\* claim_run, second half.
ResetCancel(t) ==
  /\ pc[t] = "reset"
  /\ cancel' = FALSE
  /\ Goto(t, CASE cmd[t] = "scan" -> "scanning"
               [] cmd[t] = "policy" -> "upfront"
               [] OTHER -> "lock")
  /\ UNCHANGED <<op, running, ssh, muted, due, cmd, left, ok, guards, hit,
                 since, budget>>

\* scan_claude_dir walks the tree; it never looks at cancel.
Scanned(t) ==
  /\ pc[t] = "scanning"
  /\ Goto(t, "clear")
  /\ UNCHANGED <<shared, cmd, left, ok, guards, hit, since, budget>>

\* run_policy_clean_with: the gate, without op, and then one MuteGuard for the
\* whole pass.
Upfront(t) ==
  /\ pc[t] = "upfront"
  /\ IF ssh
     THEN /\ Goto(t, "clear") /\ ok' = [ok EXCEPT ![t] = FALSE]
          /\ UNCHANGED <<guards, muted>>
     ELSE /\ Goto(t, "loop")
          /\ guards' = guards \cup {t} /\ muted' = TRUE
          /\ UNCHANGED ok
  /\ UNCHANGED <<op, running, cancel, ssh, due, cmd, left, hit, since, budget>>

\* run_policy polls cancel before each category and before the expiry.
LoopCancelled(t) ==
  /\ pc[t] = "loop" /\ left[t] > 0 /\ cancel
  /\ ok' = [ok EXCEPT ![t] = FALSE]
  /\ Goto(t, IF cmd[t] = "policy" THEN "drop" ELSE "idle")
  /\ UNCHANGED <<shared, cmd, left, guards, hit, since, budget>>

\* A category (or the expiry) with nothing to move, or that a dry run counts.
LoopSkips(t) ==
  /\ pc[t] = "loop" /\ left[t] > 0 /\ ~cancel
  /\ left' = [left EXCEPT ![t] = @ - 1]
  /\ UNCHANGED <<shared, pc, cmd, ok, guards, hit, since, budget>>

\* A category with something to move: its closure takes op.
LoopMoves(t) ==
  /\ pc[t] = "loop" /\ left[t] > 0 /\ ~cancel /\ cmd[t] = "policy"
  /\ left' = [left EXCEPT ![t] = @ - 1]
  /\ Goto(t, "lock")
  /\ UNCHANGED <<shared, cmd, ok, guards, hit, since, budget>>

\* A scan of a category fails, and the pass with it.
LoopFails(t) ==
  /\ pc[t] = "loop" /\ left[t] > 0 /\ ~cancel
  /\ ok' = [ok EXCEPT ![t] = FALSE]
  /\ Goto(t, IF cmd[t] = "policy" THEN "drop" ELSE "idle")
  /\ UNCHANGED <<shared, cmd, left, guards, hit, since, budget>>

\* The pass is done: an executed one stamps last_cleanup_ms.
LoopEnds(t) ==
  /\ pc[t] = "loop" /\ left[t] = 0
  /\ due' = IF cmd[t] = "policy" THEN FALSE ELSE due
  /\ Goto(t, IF cmd[t] = "policy" THEN "drop" ELSE "idle")
  /\ UNCHANGED <<op, running, cancel, ssh, muted, cmd, left, ok, guards, hit,
                 since, budget>>

Lock(t) ==
  /\ pc[t] = "lock" /\ op = None
  /\ op' = t
  /\ Goto(t, "gate")
  /\ UNCHANGED <<running, cancel, ssh, muted, due, cmd, left, ok, guards, hit,
                 since, budget>>

\* ssh_gate under op; preview_simple_cleanup only reads, and has none.
Gate(t) ==
  /\ pc[t] = "gate"
  /\ IF cmd[t] = "preview" \/ ~ssh
     THEN Goto(t, "work") /\ UNCHANGED ok
     ELSE Goto(t, "unlock") /\ ok' = [ok EXCEPT ![t] = FALSE]
  /\ IF cmd[t] \in Muting /\ ~ssh
     THEN guards' = guards \cup {t} /\ muted' = TRUE
     ELSE UNCHANGED <<guards, muted>>
  /\ UNCHANGED <<op, running, cancel, ssh, due, cmd, left, hit, since, budget>>

\* The mutation, which may fail.  A save dialog is answered by the event loop,
\* so only while the main thread is in no command.
Work(t) ==
  /\ pc[t] = "work"
  /\ cmd[t] = "export" => pc[Main] = "idle"
  /\ \E r \in BOOLEAN : ok' = [ok EXCEPT ![t] = @ /\ r]
  /\ since' = IF ssh /\ cmd[t] # "preview" /\ since < 2 THEN since + 1 ELSE since
  /\ Goto(t, IF cmd[t] \in Muting THEN "drop" ELSE "unlock")
  /\ UNCHANGED <<shared, cmd, left, guards, hit, budget>>

\* A MuteGuard is dropped, before op or, at the end of a pass, before the slot.
DropMute(t) ==
  /\ pc[t] = "drop"
  /\ guards' = guards \ {t} /\ muted' = FALSE
  /\ Goto(t, IF cmd[t] = "policy" THEN "clear" ELSE "unlock")
  /\ UNCHANGED <<op, running, cancel, ssh, due, cmd, left, ok, hit, since, budget>>

Unlock(t) ==
  /\ pc[t] = "unlock"
  /\ op' = None
  /\ Goto(t, CASE cmd[t] = "policy" -> (IF ok[t] THEN "loop" ELSE "drop")
               [] cmd[t] \in {"preview", "simple"} -> "clear"
               [] OTHER -> "idle")
  /\ UNCHANGED <<running, cancel, ssh, muted, due, cmd, left, ok, guards, hit,
                 since, budget>>

\* RunGuard is dropped: two stores.
ClearCancel(t) ==
  /\ pc[t] = "clear"
  /\ cancel' = FALSE
  /\ Goto(t, "free")
  /\ UNCHANGED <<op, running, ssh, muted, due, cmd, left, ok, guards, hit,
                 since, budget>>

\* After a pass that succeeded, the scheduler sizes the report of the
\* categories that are not auto-approved, if there are any, with a dry run.
Free(t) ==
  /\ pc[t] = "free"
  /\ running' = FALSE
  /\ \/ Goto(t, "idle") /\ UNCHANGED <<cmd, left, ok, hit>>
     \/ t = Scheduler /\ ok[t] /\ Begin(t, "dry", "loop")
  /\ UNCHANGED <<op, cancel, ssh, muted, due, guards, since, budget>>

Step(t) ==
  \/ ResetCancel(t) \/ Scanned(t) \/ Upfront(t)
  \/ LoopCancelled(t) \/ LoopSkips(t) \/ LoopMoves(t) \/ LoopFails(t) \/ LoopEnds(t)
  \/ Lock(t) \/ Gate(t) \/ Work(t) \/ DropMute(t) \/ Unlock(t)
  \/ ClearCancel(t) \/ Free(t)

Next ==
  \/ \E c \in Cmds : Claim(Main, c)
  \/ \E t \in Threads, c \in Cmds : Enter(t, c)
  \/ Preview
  \/ Cancel
  \/ Tick
  \/ Elapse
  \/ Connect
  \/ Disconnect
  \/ \E t \in Threads : Step(t)

\* A thread that can go on does: std::sync::Mutex promises no more, and need
\* not, since commands come from a user and a clock and do not come for ever.
Fairness == \A t \in Threads : WF_vars(Step(t))

Spec     == Init /\ [][Next]_vars
FairSpec == Spec /\ Fairness

-----------------------------------------------------------------------------

TypeOK ==
  /\ op \in Threads \cup {None}
  /\ running \in BOOLEAN /\ cancel \in BOOLEAN /\ ssh \in BOOLEAN
  /\ muted \in BOOLEAN /\ due \in BOOLEAN
  /\ pc \in [Threads -> PCs] /\ cmd \in [Threads -> Cmds]
  /\ left \in [Threads -> 0 .. Categories + 1] /\ ok \in [Threads -> BOOLEAN]
  /\ guards \subseteq Threads /\ hit \subseteq Threads
  /\ since \in 0 .. 2 /\ budget \in 0 .. MaxCommands

HoldsOp(t) ==
  \/ pc[t] \in {"gate", "work", "unlock"}
  \/ pc[t] = "drop" /\ cmd[t] # "policy"

\* The gate check and the mutation of a command are never interleaved with
\* those of another: between lock_op and the end of the guard a thread is
\* alone, whichever way each command got there.
MutationsExclude ==
  \A t, u \in Threads : HoldsOp(t) /\ HoldsOp(u) => t = u

\* The run slot has one owner, and it is taken exactly while somebody owns it:
\* no refusal, failure or cancel frees another's slot or leaks its own.
SlotHasOneOwner ==
  /\ running <=> \E t \in Threads : InSlot(t)
  /\ \A t, u \in Threads : InSlot(t) /\ InSlot(u) => t = u

\* A watcher is never left muted: when no MuteGuard is alive the front end was
\* told so, whichever guards overlapped.
UnmutedAtRest == guards = {} => ~muted

\* Mutex, slot and mute are each what the guards alive say they are, on every
\* early return of every command: commands in flight exclude each other, and
\* none frees what another holds or leaves its own behind.
GuardsAgree == MutationsExclude /\ SlotHasOneOwner /\ UnmutedAtRest

\* A cancel that reached a pass in the slot stands until the pass is over:
\* nobody else's refusal, dry run or reset wipes it, so the pass stops at the
\* next category.
CancelStands ==
  \A t \in hit : InSlot(t) /\ InFlight(t) => cancel

\* claim_run resets the flag "so a stale cancel from a prior run can't abort
\* the new one": a pass that holds the slot is cancelled only by a cancel that
\* came while it was in flight.
CancelledPassWasHit ==
  [][\A t \in Threads :
       LoopCancelled(t) /\ cmd[t] = "policy" => t \in hit]_vars

\* The gate is checked again under op for every category, so once an SSH
\* session is connected at most the one mutation that had already passed the
\* gate is still made, whatever is in flight.
AtMostOneAfterConnect == since <= 1

\* A scheduled clean stays due until a pass has gone through every category and
\* the expiry: a refused, failed or cancelled pass is made again.
DueUntilDone ==
  [][due /\ ~due' => \E t \in Threads : /\ cmd[t] = "policy" /\ pc[t] = "loop"
                                        /\ left[t] = 0 /\ ok[t]]_vars

\* export_backup holds op while its dialog is up, and the main thread, which
\* would have to answer the dialog, waits for op in a synchronous command.
DialogDeadlock ==
  /\ pc[Main] = "lock"
  /\ \E t \in Threads : op = t /\ pc[t] = "work" /\ cmd[t] = "export"

\* Every command returns in the end, and leaves no lock, slot or mute behind:
\* nobody waits for op for ever on any path through the guards, except where
\* the save dialog and the main thread wait for each other.
ComesToRest ==
  <>[](\/ /\ \A t \in Threads : pc[t] = "idle"
         /\ op = None /\ ~running /\ ~muted
      \/ DialogDeadlock)
=============================================================================
