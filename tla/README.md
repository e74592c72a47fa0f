# claude-devtools: a verification development

This directory holds TLA+ models of claude-devtools, the TLC configurations that
check them and the TLAPS proofs about them. Paths are relative to the
repository; `R` stands for `src/src-tauri/src` (the Rust backend) and `F` for
`src/frontend/src/renderer` (the React front end).

1. [The system](#1-the-system)
2. [Inventory](#2-inventory)
3. [The modules and the code](#3-the-modules-and-the-code)
4. [The runs](#4-the-runs)
5. [The proofs](#5-the-proofs)
6. [Where the code and its documents disagree](#6-where-the-code-and-its-documents-disagree)
7. [What is not modelled](#7-what-is-not-modelled)
8. [Plan](#8-plan)

## 1. The system

claude-devtools is a desktop program (Tauri 2) that reads, and on request
cleans and edits, the files Claude Code and Codex leave in a home directory.
The backend is a set of synchronous and asynchronous commands over the file
system; the front end keeps one Zustand store and calls them. Other programs,
the Claude and Codex CLIs above all, write the same files while it runs.

Four facts shape every model here.

- **Nothing is locked against the CLIs.** Whatever the backend checks of a file
  can be false a moment later. Every file-system call that changes something is
  a step of its own, and the CLI's writes come between any two of them.
- **The process may stop anywhere**, and a call may fail: the commands return
  `Err` with `?` and undo little. The `Stop` actions stand for both.
- **Threads.** A synchronous Tauri command runs on the main thread, which is
  also the event loop; an `async` command runs on a worker; the scheduler of the
  retention policy has a thread of its own. They meet in `MaintenanceState`.
- **The front end is single-threaded but asynchronous.** A store action runs to
  its next `await` without interruption; answers come late, out of order, with
  an error, or after the tab that asked for them has gone.

Who calls whom: the store's slices call backend commands over IPC and get
answers; the backend emits events (file changes, `maintenance:mute-watcher`,
connection state) that listeners in `F/store/listeners` hand to the slices. The
safe-delete engine is called by every maintenance command under one mutex, and
by the history prune for the tail it removes.

At this commit nothing in the front end calls `start_watching` (the note at
`src/src-tauri/src/main.rs:264-272` says who should), so file-change events
do not flow in the packaged program. SessionDetail models the listener and what
it calls as they are, with events arriving as the watcher would send them.

## 2. Inventory

State, operations and hazards of each part, and what makes it correct.
`PROJECT.json` has the same list with the files, and one entry per hazard with
its line.

### Modelled

| Part | State | Operations | What is hard | What makes it correct |
|---|---|---|---|---|
| Safe-delete engine, `R/maintenance/trash.rs` | live paths; receipt directories, each with a manifest | `trash_items`, `restore_trash`, `empty_trash` | a stop between a move and its manifest entry; EXDEV copy and removal; a path created after the conflict check | no content is lost but through named windows; none is duplicated on one device; at most one orphan per batch |
| Maintenance commands, `R/commands/maintenance` | op mutex, run slot, cancel flag, SSH gate, mute, schedule | every command, the policy pass, the scheduler, the save dialog | three kinds of thread; a pass that locks again for each category; flags that are plain atomics | exclusion, slot ownership, a cancel stands, at most one mutation after an SSH connection, unmuted at rest, every command returns |
| History prune, `R/maintenance/history.rs` | `history.jsonl`, head, tail, trash | `prune_history` with one retry | the CLI appends between the last check and the rename; four writes that may fail halfway | a prompt is lost only in that window, never both kept and trashed without a fault |
| Recovery copies, `R/files/checkpoint_recovery.rs` | copies, manifest, targets | restore a checkpoint, put a copy back, delete, list | stops between copy and manifest; retirement by the wall clock; the CLI writing the target | a listed copy is whole; what a restore replaces is kept |
| Panes and tabs, `F/store/slices/paneSlice.ts`, `tabSlice.ts` | layout, its copy in the root of the store | open, split, move, reorder, select, focus, close in five ways | long sequences; two copies of one state; panes that vanish with their last tab | tabs neither lost nor doubled, the copy agrees, one tab per session |
| Session detail, `sessionDetailFetch.ts`, `sessionDetailRefresh.ts`, `tabSessionSync.ts` | data per tab and in the root, one generation counter, refreshes in flight and queued | open, activate, replace, close, fetch, retry, file event, refresh | answers that are late, superseded, unviewed, or for a tab that closed | a tab shows its own session, a loading tab waits for somebody, no noticed change is lost |
| File editors, `R/files/*_write.rs`, `R/files/claudejson.rs` | the files of Claude Code and Codex; their `.bak` copies or accumulating backups; what a panel loaded | add, put, remove, toggle and move entries; save a whole text; restore a copy; the Codex writers with a revision | a CLI that takes no lock and writes between read, copy, compare and rename; two files edited one after another; fingerprints that are not unique | a CLI write is lost only where a command no longer looks, what is replaced has a copy, an entry vanishes only when asked for |
| Session lists and marks, `F/store/slices/sessionSlice`, `projectSlice.ts`, `R/discovery/session_lister.rs`, marks of `R/config/state/manager.rs` | list, cursor, spinners, selected project and worktree, pins or hidden sessions; one generation per project | select, further page, refresh, reload; pin, hide, in ones or many; loads after a selection | answers in any order and for a project no longer selected; marks changed before the backend agrees; files written between two pages | pages add up, refreshes never go back, marks agree with the configuration at rest |

### Not modelled

The backend's session cache (`R/cache.rs`), file watcher (`R/watcher`),
notifications (`R/notifications`), the rest of the configuration state
(`R/config/state`), configuration backup (`R/configbackup`), simple cleanup,
rollback and plain delete, the SSH connection (`R/ssh`) and the incremental
reader of the parser; in the front end the lists of projects and repositories,
the context switch, the notification list, and the smaller request-and-answer
slices. Section 7 gives the reason for each, section 8 what is worth doing next.

## 3. The modules and the code

`map` in `PROJECT.json` gives the lines of each definition. In all modules a
variable commented `history:` is not in the code: it records what a property
needs to name.

**Trash, Custody, MCTrash, TrashProofs.** One action per file-system call of
`trash_items`, `restore_trash` and `empty_trash`; `CliWrite` and `CliUnlink` are
the other programs. A path holds a content (a file, a link or a subtree), nothing,
or `Partial`. `CrossDevice` is the set of paths on another device, where a move
is a copy and a removal. Path confinement and identifier checks are left out:
they refuse inputs and change nothing. `exposed` collects contents caught in a
window that the code leaves open: moved but not yet in the manifest when the
operation stops; written over a path after the conflict check of a restore;
written after the copy and before the removal of an EXDEV move; left in pieces by
a removal that fails. Custody is the abstract promise about one content: it
passes from live to binned and back and leaves only by its owner's will
(`forfeit`) or through a window (`exposed`). Trash implements it under the
refinement mapping `Place`.

**MaintenanceService, MCMaintenance, MaintenanceProofs.** Threads with a program
counter; commands in classes by the guards they take (the table at the head of
the module). `lock_op`, `ssh_gate`, `claim_run`, `RunGuard` and `MuteGuard` are
actions of their own, in the order of the code; the drop of a guard is a step.
A mutation is one step that may fail: what it does to the disk is in Trash. A
save dialog is answered by the event loop, so `Work` of `export` waits for an
idle main thread.

**HistoryPrune, MCHistory, HistoryProofs.** Lines are numbers; the split keeps
only on which side of the cutoff a line falls (`Undated` lines are kept). The
CLI opens the file and appends later, so it may write into a file that was
replaced in the meantime.

**CheckpointRecovery, MCCheckpoint, CheckpointProofs.** Each operation loads and
reconciles the manifest (`RemoveStray`, `Load`), then goes on: copy, verify, save
the manifest, retire; or check, write a temporary file, check again, rename. A
checksum stands for the content, as the code uses it. `Vanish` is somebody else
removing a copy, and the time of a record comes from a clock that may go back.

**PaneLayout, Panes, MCPanes, PanesProofs.** PaneLayout has the pure functions of
`paneHelpers.ts` and what the slices compute from a layout; Panes has the
operations. Each is one step because it is synchronous. Widths, labels, scroll
positions and persistence are left out.

**SessionDetail, MCSessionDetail, SessionDetailProofs.** What the layout does to
the data of tabs, the fetch with its generation counter, and the refresh. A
store action is one step up to its `await`; reading the file and the arrival of
the answer are further steps. The content of a file is two counters: the shape,
which the test for "nothing new" looks at, and the text of the last chunk, which it
does not. `Heard` is what the listener asks before it schedules a refresh:
the watcher is not muted (`MuteWatcher`, the message of the maintenance commands), a
project is selected, and the session is selected or visible. An event it drops does
not come again: `missed`.

**EditedFile, Editors, MCEditors, EditorsProofs.** EditedFile has what the editors
do to one content: a bag of entries and the number of the last CLI write it
contains, which stands for everything the editors pass through untouched. Editors
has the steps. `way` says which of six families the file belongs to (`Ways`), and
with it what is compared, kept and renamed, in which order (`Following`). Every
command starts with a plan of one or two edits; `Read`, `Backup`, `Recheck`,
`Replace`, and for `config.toml` `Inspect` and `Rollback`, are the steps of each
edit, `Stop` an error or the end of the process in any of them, and `RestoreUnread`
a restore of `~/.claude.json` that cannot read the file it replaces and makes no
copy of it. `CliWrite` replaces a file in one step; `~/.claude.json` is rewritten in
place, torn between `CliBegin` and `CliEnd`. `history:` variables are `last` (the
last CLI write to each file), `exposed` (those made where the command no longer
looks: `Blind` says where that is, for each way) and, in `op`, `kind`, `before` and
`touched`. Left out: names, formats, permissions, and the guards that refuse a path
or a name.

**SessionLists, MCSessionLists, SessionListsProofs.** A store action runs to its
`await` and leaves a call; `Serve` is the backend (a page of files by time, the
marks in the configuration), and one answer action per kind of call is the code
after the `await`. A call that fails (`Fails`) has done nothing and does what the
`catch` does. Pins and hidden sessions are the same code twice: a behaviour follows
one of them (`list`), with the one difference that pins outside the list are asked
for by id. Rows are a count per session, since the sidebar sorts. The number in a
call tells equal calls apart, and only a refresh's is in the code
(`projectRefreshGeneration`). A file bears any time, and a write brings any: the
list is sorted by time alone, and files of one time stay in the order the directory
gives them, which is taken to be the same at every read (`Before`). A cursor names a
session and its time; when that file was written or removed the page begins at the
first older one (`From`), and the sessions that share the time are passed over
(`Lost`). History: `wrote` (which write of the CLI was the last of a file), `listOf`
and `refreshed` (before which of them what is shown was read), `mixed` (a page was
appended to a list it was not asked for), `skipped` and the `lost` of a call (the
sessions a cursor passed over), `marksOf` and `raced` (whose marks are shown, and
whether changes of marks overlapped). Left out are subprojects, which filter a list,
and a repository without a worktree.

How they fit together: MaintenanceService says that at most one operation of
Trash or HistoryPrune is under way, which is why those modules have one `pc`.
HistoryPrune's `TrashTail` is one step for what Trash splits further: its failure
between move and manifest is in `TrashTailFails`. SessionDetail takes from Panes
which tab becomes active when tabs close: it allows every neighbour. The
refreshes that SessionDetail's listener starts for the sidebar are those of
SessionLists (`RefreshSessionsInPlace`), which takes them as actions of the user.

## 4. The runs

| Run | Module | What it asks |
|---|---|---|
| `trash` | MCTrash | Is anything lost, doubled or orphaned outside the named windows? Does the engine implement Custody? |
| `trash_orphan` (violation) | MCTrash | Does a moved file always have a manifest entry? |
| `maintenance` | MCMaintenance | Do locks, slot, cancel, gate, mute and schedule agree, and does everything come to rest? |
| `history_prune` | MCHistory | Which prompts can be lost or doubled, and what is left behind? |
| `history_append` (violation) | MCHistory | Does a concurrent append always survive? |
| `recovery` | MCCheckpoint | Is every listed copy whole, are strays bounded, is what a restore replaces kept? |
| `panes_layout` | MCPanes | Do long sequences keep tabs, the focus with the root's copy, and one tab per session? |
| `panes_drag` (violation) | MCPanes | Does dropping a tab on an edge create a pane? |
| `detail` | MCSessionDetail | Does a tab show its own session, and does a loader wait for somebody? |
| `detail_live` | MCSessionDetail | Is every noticed change read, does a queued refresh begin, does loading end? |
| `editors` | MCEditors | Is a CLI write lost, a content replaced without a copy, or an entry gone that nobody removed? |
| `session_lists` | MCSessionLists | Do pages add up, do refreshes go forward, do the marks agree at rest, does a spinner stop? |

Bounds, and why they suffice for what is asked:

- `trash`: two paths (one on each device), two receipts, three contents. A loss
  needs one item caught and one written over it; a double needs two receipts; an
  orphan next to a listed item needs two paths. Contents are written once, so
  three allow a write before, during and after an operation. Receipts are drawn
  once, so the system may stop: deadlock is not checked.
- `maintenance`: main thread, scheduler, one worker, two categories, four
  commands, ticks, cancels or connections. A disagreement needs two threads and
  one interference; four allow a command, a second one, a cancel and a connection
  in any order. Two categories and the expiry make a pass lock three times.
  `MaxCommands` ends behaviours, so deadlock is not checked; `ComesToRest` says
  instead where they end.
- `history_prune`: two lines at first, five in all, one undated, two faults: three
  appends race both attempts and the final window. `history_append` has no fault.
- `recovery`: one target, three copies of which two are kept, two contents, two
  clock readings: retirement of an old and of the new copy, a stray after each
  of two stops.
- `panes_*`: three tabs, at most three panes (the code's limit is `MAX_PANES`),
  four pane ids so that a new one always exists, two sessions.
- `detail`: two tabs in two panes, two sessions, two fetches, one refresh that may
  be repeated; file contents do not change. `detail_live`: one session in one tab
  beside an empty pane, one fetch, a file that changes twice in shape (once while a
  refresh waits behind another), the watcher muted and the project given up at any
  time; a second tab of the session would only make it viewed more often.
- `editors`: the six ways; two entries with one fingerprint, one of them in the
  sections that a save replaces; three commands or CLI writes in all, one fault.
  Two commands and a write between their steps lose what can be lost; three
  let a restore undo what a command did around a write. 1.3 million states.
- `session_lists`: three sessions of one project, one of them marked, all with one
  time, and a project without sessions; pages of one; three actions, one file
  removed or written with an older or a newer time, one failing call, each call
  served and answered at any time. Three actions are a selection, a further page and
  a refresh or a toggle that overtakes it, or a selection and two further pages with
  the write between them. 3.1 million states. What happens after more of them, and
  with larger pages, is left to the proofs. Actions and writes are used up in the
  end, so deadlock is not checked in these two runs.
- Symmetry is used for model values that no property or action tells apart, and
  only in runs without liveness properties.

Fairness. `MaintenanceService!FairSpec` has weak fairness for the steps of each
thread, since a thread that can run does, and none for the arrival of
commands. It does not assume that `std::sync::Mutex` is fair: the number of
commands is bounded, so nobody can overtake for ever. `SessionDetail!FairSpec`
assumes that the backend answers each call (an IPC call of Tauri is answered or
fails) and that timers and events of the JavaScript runtime are served. Users and
files are under no fairness.

Each property of a passing run has a mutant in `PROJECT.json`: a definition as it
would be after a plausible slip, standing under the comment "Mutants" before the
definition it replaces, with which TLC finds the property violated.

## 5. The proofs

TLAPS proves the following for every value of the constants that satisfies the
named assumption of the module (`TrashAssumption`, `ServiceAssumption`,
`HistoryAssumption`, `RecoveryAssumption`, `PanesAssumption`, `DetailAssumption`,
`EntriesAssumption` and `EditorsAssumption`, `ListsAssumption` and `NoCursorIsNone`): `None` and other markers
are not data, bounds are natural numbers, sessions are numbered in the order
their directory gives the files, and no more, save where a theorem states a hypothesis.

| Module | Theorems |
|---|---|
| TrashProofs | `TypeCorrect`, `Invariance`, `NothingLost`, `SingleHome`, `OrphanBound`, `Refinement` (Trash implements Custody) |
| MaintenanceProofs | `MaintenanceTypeCorrect`, `GuardsHold`, `GateHolds`, `CancelReachesPass`, `NoStaleCancel`, `StaysDueUntilDone`, `SomebodyGoesOn`, `StepsRunOut`, `RestIsClean` |
| HistoryProofs | `PruneTypeCorrect`, `PruneLosesNothing`, `PruneSingleHome`, `PruneStrays`, `PruneGivesUp` |
| CheckpointProofs | `RecoveryTypeCorrect`, `ListedCopiesAreWhole`, `RecoveryIsTidy`, `RestoreDestroysNothing` |
| PanesProofs | `PanesInvariance`, `PanesTypeCorrect`, `PanesConserveTabs`, `PanesAgreeOnFocus`, `PanesOneTabPerSession` |
| SessionDetailProofs | `Typing`, `OwnSession`, `LoadingIsAwaited`, `DataIsOfOpenTabs`, `ChangesAreRead`, `QueuedIsAwaited`, `QueuedIsTakenUp` |
| EditorsProofs | `EditorsTypeCorrect`, `EditorsKeepLastWrite`, `EditorsReplacedCanBeHadBack`, `EditorsKeepEntries`, `EditorsMoveHooks` |
| SessionListsProofs | `ListsTypeCorrect`, `ListsRefreshesGoForward`, `ListsMarksAgree`, `ListsPagesAddUp` |

`GuardsHold` is about `GuardsAgree`, which has three parts: mutations exclude each
other, the run slot has one owner, and the watcher is not muted at rest.
Besides the `Invariance` of Trash (its inductive invariant), six theorems state
nothing a run checks: `PruneGivesUp` (a prune gives up only after
two raced attempts), and `SomebodyGoesOn`, `StepsRunOut`, `RestIsClean`,
`QueuedIsAwaited` and `QueuedIsTakenUp`, which are the safety halves of liveness
properties (below).

Every invariant and action property of the passing runs is stated by one of these
theorems; only the three liveness properties are not. Hardly one is inductive as it
stands. Where a command takes several steps, the inductive invariant adds the same
kind of fact: what the operation under way has already established.

- *Trash.* The invariant (in Trash itself, below its properties) says what a batch
  has moved and listed (`BatchInv`), that between a copy and the removal of its
  source both are the same content (`CopyInv`), that what appeared at a path a
  restore has still to fill is exposed (`RestoreInv`), and that what is being
  removed is excused or live (`ClearInv`). Refinement then needs only which
  contents each step moves in the sight of `Place`.
- *MaintenanceService.* Which commands are found at which step (`Placed`), that
  `op` names its holder (`OpOwned`), that nothing is past the gate once the one
  mutation is made (`Gated`), and that flag and cancelled passes agree both ways
  (`CancelsReach`). Progress is proved as far as safety goes. While a command is
  under way somebody can take a step, but where the dialog of `export_backup` and
  the main thread wait for each other (`SomebodyGoesOn`; `Ready` spells out when a
  thread can). Each step uses up a command to come, the SSH session, or one of the
  steps its own thread has left (`Rank`, at most five to a category), and gives none
  to another (`StepsRunOut`). At rest nothing is held (`RestIsClean`). All that
  needs is that only workers export and that who holds a `MuteGuard` is where it
  is dropped (`Guarding`).
- *HistoryPrune.* What head, tail and snapshot know of the file at each step
  (`Knows`), where lines are (`Placed`), and which attempts were raced
  (`Attempts`).
- *CheckpointRecovery.* A new id is not listed before its copy is (`Fresh`), the
  only stray is the copy being made or removed (`StraysKnown`), and the copy of
  what is about to be replaced is listed (`Kept`).
- *Panes.* The operations are atomic, so the invariant is about layouts alone: a
  well-formed one (`WellFormed`) has distinct panes, no tab twice, an active and
  selected tabs that are of their pane; and the open tabs are those opened that were
  not closed or dropped, the root's copy follows, and no session is in two tabs unless
  that was forced. The work is in what the operations compute. It goes up in three
  layers: what the operators on sequences return (`InsertAt`, `RemoveAt`, a filter,
  the least index with a property), for every sequence; what each operation of
  PaneLayout makes of any well-formed layout, mostly as an equation for its open
  tabs (`OpenIn(new) = OpenIn(old) \ ids`); then one lemma per action. Induction on
  the length of a sequence is done with a set of numbers, from the well-foundedness
  of `<` on them (`Induction`), and the filter is for that reason a recursive
  function (`Without`): nothing is known to the provers of `SelectSeq`.
- *SessionDetail.* Whoever's fetch is the last, its tab still shows the session
  it was started for, or has closed (`AnswersOfTabs`): the answer is written
  without another look at the tab. `OwnSession` alone assumes that no two sessions
  have the same id (`UniqueIds`), because the refresh looks at ids only; see 6.
  `ChangesAreRead` needs nothing of tabs and fetches: only the steps of the
  refreshes and of the files touch what it speaks of, each for one session. The same
  holds of `QueuedIsAwaited` and `QueuedIsTakenUp`: a queued refresh has one in
  flight to wait for, whose end, an answer or a failure, takes it up.
- *Editors.* `EditorsKeepLastWrite` is about the writes of the CLI, not about the
  app's own edit. Which edits are made to which file and at which steps (`Planned`);
  what the command is about to put in place contains the last CLI write, or that
  one is exposed (`PutFits`), or, before the compare that decides it, contains the
  write that was in what was read (`Prepared`; both are parts of `Sees`).
  `Rewriting`, `Bases` and `OpBases` say the same of a file that is torn and of files
  the CLI has not written yet. `EditorsReplacedCanBeHadBack` adds what has been
  copied by each step (`Copied`). The last two theorems are about commands the CLI did
  not write into, and rest on `Tracked`: which kinds of command make which edits
  (`KindFits`), that what is to be put in place was made of what was read (`PutIs`), that
  this is what is still there, and that the second edit of a move or of a toggle
  begins with the first one's entry in the other file (`Untouched`). What an edit
  can then take the last of follows from what `Edited` makes of a content (`Removes`).
- *SessionLists.* One invariant per result, each of what the calls under way
  carry. `Refreshes`: of the refreshes of a project the latest is a single call,
  and was read after all that were answered. `Marks`: what is shown is what the
  configuration will hold when the calls that change it are over, all of them
  marking or all of them unmarking (`Outcome`), unless changes overlapped; a call
  made alone is still alone, and what it would put back is what the configuration
  holds. `Pages`: a page has all of its part of the files but what it leaves to its
  next cursor and what a cursor passed over (`PageRead`). Files of one time need no
  assumption: the next cursor is the first session left, the one with the fewest
  before it (`Newest`), and what is not before it in the list is due with it (`Due`).

Only model-checked: liveness (`ComesToRest`, `QueuedRefreshBegins`,
`RootLoadingEnds`), since TLAPS has no fairness or ENABLED reasoning here, and the
properties of the violation runs, which are false. What their arguments rest on is
proved: for `ComesToRest`, that somebody can always go on and that the steps run
out; for `QueuedRefreshBegins`, that a queued refresh is behind one in flight and
begins when that one ends; for `RootLoadingEnds`, that the root loads only with a
fetch under way (`LoadingIsAwaited`). That weak fairness makes the step happen is the
inference that stays with TLC.

## 6. Where the code and its documents disagree

Three have a run that shows them (findings in `PROJECT.json`):

- `trash_orphan`: a stop between the move of an item and the manifest write leaves
  a moved file in no manifest; the comment in `trash.rs` says a crash must never do
  that.
- `history_append`: a line appended between the last check and the rename is lost;
  the comment and the message in `history.rs` say that nothing is.
- `panes_drag`: dragging the only tab of a pane to an edge of that pane, while
  another pane is open, loses the tab and leaves the focus on no pane.

Others were met while reading; the models do what the code does, and the
properties excuse them by name:

- A restore that succeeds removes the whole receipt directory
  (`trash.rs:355`, "Every item moved out"), an orphan in it included.
- `restore_trash` replaces a file created after its conflict check
  (`trash.rs:350`), which `restore_trash_conflict_no_overwrite`
  (`trash_tests.rs:291`) tests without a race: `InWindow` in Trash.
- The mute is a boolean in the front end: a command that ends during a policy pass
  unmutes the watcher for the rest of the pass, which `state.rs:316` says stays
  muted "across a batch". `GuardsAgree` therefore only speaks of the mute at rest.
- `cancel_scan` is "No-op otherwise" (`service.rs:370`), but when nothing runs it
  sets the flag that the next preview of a policy polls.
- `export_backup` holds the op mutex while its native dialog is up, and the main
  thread, which must answer the dialog, may be waiting for the mutex
  (`configbackup.rs:97`): `DialogDeadlock` in MaintenanceService.
- `refreshSessionInPlace` takes a last chunk that only grew for nothing new
  (`sessionDetailRefresh.ts:58`): `SameShape`. It finds the tabs of a session by id
  without looking at the project (`sessionDetailRefresh.ts:33`).
- A tab whose fetch is superseded by another tab's keeps its loading flag until it
  is fetched again: `stranded`. closeOtherTabs, closeTabsToRight and closePane
  keep the data of the closed tabs: `leaked`.
- A change of a session on screen is not read when its event comes while a maintenance
  command has muted the watcher (`fileChange.ts:47`, meant, says `maintenance.ts:7-8`,
  for the refreshes of the list) or while no project is selected (`fileChange.ts:91`);
  only the next change, the user's own refresh or a new fetch of the tab reads it:
  `missed`.
- When the clock was set back and 128 copies are kept, the recovery copy just made
  is the one retired and the target is replaced without one: `skewed`.
- `R/configbackup/types.rs:22-24` promises that one undo fully reverts an import;
  with no disabled-hooks file before the import, the groups it appended stay.

Of the editors:

- `disable_hook` and `enable_hook` pop the first group with the fingerprint, which is
  the matcher and the commands only: with a twin in the file that differs in
  anything else, it may be the twin that goes, though the comments
  (`hooks_write.rs:181-183`, `:201-203`) promise "never a lost hook". `Asked` excuses it.
- `move_permission_rule` with the same scope and list adds the rule and then removes
  it (`permissions_write.rs:173-176`: "never a lost rule"); the panel offers the
  source as a target. `Asked` excuses it as `kind = "stay"`.
- `settings_write.rs:1-6` "never trusts a frontend snapshot", but
  `update_global_settings` replaces the environment and the lists of rules by what
  the panel had loaded: the edit `section`.
- When the exchange of `config.toml` displaced a CLI write, it is put back, and with
  it a second CLI write made since the exchange is lost: `Blind` at `inspect` and
  `rollback`. In `~/.claude.json` and in every other file, a write between the last
  look and the rename is lost without a word: `Blind` at `replace`.
- `restore_claude_json_app_backup` says "The current file is backed up first"; when that
  file cannot be read (`claudejson_write.rs:1051`) it is replaced without a backup:
  `Unread`.
- `apply_at` of `codex_settings_write.rs` reports the identity of its snapshot as
  `config.toml.bak` even when the snapshot has another name.
- The `save` of `useFileBackedEditor.ts` loads the file again when it is done, and
  overwrites what was typed in the meantime (not in the model: no keystrokes).

Of the lists:

- `fetchSessionsInitial` shows and caches its answer under whatever project is
  selected by then, not the one it asked for: `InitialAnswer`.
- A further page that was asked for before a refresh or a selection is appended to
  the list that came since, and its cursor replaces that list's: `mixed`.
- Sessions whose files have the same time as the one a cursor names are not shown when
  that file was written or removed before the further page is asked for
  (`session_lister.rs:97`, `:620-632`): `Lost` and `skipped`.
- `selectProject` has "background refresh when cached" (`projectSlice.ts:79`), but the
  fetch empties the list at once, so what was cached is never shown.
- `syncSidebarForSessionTab` selects a project without fetching its list when it is
  in neither list, or when `selectedWorktreeId` is stale.
- Pinning or hiding from the menu of a tab is done in the selected project, which
  need not be the tab's: `ToggleSession` takes any session.
- `loadPinnedSessions` empties the pins when only the sessions of pins outside the
  list could not be read; `pinMultipleSessions` takes all pins back when one call
  of several failed; a load answered after a toggle it was served before shows the
  old marks: `Fails` and `raced`.
- `load_config_from_disk` falls back to defaults when the file cannot be read, and
  the next save overwrites it: a hazard without a property.

## 7. What is not modelled

- **Nothing starts it**: the watcher (`main.rs:264-272`); its events are in
  SessionDetail. `switchContext` cannot be reached: `api.context` lists the local
  context only, and its switch and its event are stubs
  (`src/frontend/src/renderer/api/tauri/domain/system.ts:92-97`, `:121-124`).
- **One mutex, each operation atomic**: the session cache (whose estimate of bytes
  is not reduced when an insertion or a smaller capacity evicts, and so drifts
  upwards: a sequential slip that a unit test reaches), the back end's notifications,
  and the configuration state apart from its marks.
- **Same shape as SessionLists, with fewer actions**: the notification list and the
  other request-and-answer slices of the store.
- **Worth a module, see 8**: configuration backup, simple cleanup, rollback and plain
  delete, the SSH connection.
- **Nothing left to model but text**: Codex maintenance and extensions read, and
  write only through the writers in Editors and CheckpointRecovery.
- **Stateless**: readers, parsing (but for its incremental reader), analysis,
  discovery, insights and scans map files or messages to a value; nothing
  survives the call. The rules that link tool calls to results are the part worth
  checking as operators over bounded inputs.
- **Arithmetic on floating-point numbers**: analytics and forecasts.
- **Presentation and glue**: React components, hooks, command registration, IPC
  wrappers, build scripts. Handlers that change the store are modelled with the
  slice they call.

Left out of the modelled parts: path confinement and validation of identifiers,
file modes, symbolic links as such, sizes of files, pane widths and the persistence
of the layout, the text of errors. A hazard in `PROJECT.json` without a property has
a note that says why; most of them are about data that a model here leaves out.

Coverage: the map names the code that keeps state. Most lines of the repository
are something else (a bundled build of the front end in `src/dist-standalone`,
components, readers, parsers), and no definition claims them.

## 8. Plan

Done, in this order: Trash, MaintenanceService, HistoryPrune, Panes, SessionDetail,
CheckpointRecovery, Editors, SessionLists; theorems for the safety of all of them.

What would add most, in this order:

1. **Rollback** and **ConfigBackup** over the file system of Trash: five steps that
   put a backup in the place of the active file; a snapshot that undoes an import.
2. **SimpleCleanup**: the preview's token with its time to live and the second look
   at the files before they are moved, in place of one class of commands of
   MaintenanceService.
3. **SshConnection** in place of `Connect` and `Disconnect` of MaintenanceService:
   retries, and a disconnect while it is dialling.
4. The composition of SessionLists with SessionDetail through the file-change
   listener, once the watcher is started by the program.

Abstract specifications worth adding: the run slot and op mutex as one resource
(implemented by MaintenanceService), and "latest request wins" (implemented by
SessionDetail and by the refreshes of SessionLists).

Theorems worth adding: those of the abstract specifications above, once they are
written.
