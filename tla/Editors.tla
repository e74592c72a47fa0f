------------------------------ MODULE Editors --------------------------------
(***************************************************************************)
(* The editors of files that Claude Code and Codex write too.              *)
(*                                                                         *)
(* The app does one command at a time (they run on the main thread, under  *)
(* one mutex per file), but a CLI takes no lock of the app: its writes     *)
(* fall between any two steps of a command.  Every command reads the file, *)
(* keeps a copy, and renames a new file over it; the files differ in what  *)
(* is looked at again before the rename, and `way' says which of them Main *)
(* is.  A command that moves an entry edits two files, one after another.  *)
(*                                                                         *)
(* Names of the files, formats, permissions and the confinement of paths   *)
(* are left out, and so is the memory folder's .consolidate-lock, which is *)
(* looked at once, before the read: a locked folder is a command not taken.*)
(***************************************************************************)
EXTENDS EditedFile, Sequences

CONSTANTS MaxTurns, MaxFaults   \* commands and writes of the CLI; faults

ASSUME EditorsAssumption == {MaxTurns, MaxFaults} \subseteq Nat

\* "hooks": settings.json and hooks-disabled.json.  "rules": settings.json and
\* settings.local.json (the other commands on settings.json are with the
\* hooks).  "text": an instruction, memory or agent file.
\* "claudejson": ~/.claude.json.  "codextext", "codexconfig": files of Codex.
Ways == {"hooks", "rules", "text", "claudejson", "codextext", "codexconfig"}
Main == "main"
Other == "other"
Docs == {Main, Other}

VARIABLES
  way,
  file,        \* what is at each path
  copies,      \* the .bak of each file, or its backups where they accumulate
  view,        \* what the panel of the app loaded last
  rewriting,   \* what the CLI is writing in place of a torn ~/.claude.json
  op,          \* the command under way
  last,        \* the last write of the CLI to each file
  writes,      \* how many there were
  exposed,     \* those made where the command no longer looks
  ops, faults

vars == <<way, file, copies, view, rewriting, op, last, writes, exposed, ops, faults>>

NoOp == [step |-> "none"]
Edit(doc, how, entry) == [doc |-> doc, how |-> how, entry |-> entry]
Now == Head(op.plan)
Restoring == Now.how = "restore"
Codex == way \in {"codextext", "codexconfig"}
InPlaceBackup == way \in {"hooks", "rules"}
Accumulates == way \in {"claudejson", "codexconfig"}

Init ==
  /\ way \in Ways
  /\ file \in [Docs -> {Missing} \cup {[Missing EXCEPT !.state = "text", !.bag = [x \in Entries |-> IF x \in in THEN 1 ELSE 0]] : in \in SUBSET Entries}]
  /\ way \notin {"hooks", "rules"} => file[Other] = Missing
  /\ copies = [d \in Docs |-> {}]
  /\ view = file
  /\ rewriting = Missing
  /\ op = NoOp
  /\ last = [d \in Docs |-> 0] /\ writes = 0 /\ exposed = {}
  /\ ops = 0 /\ faults = 0
-----------------------------------------------------------------------------
(***************************************************************************)
(* The steps of a command on the file of its current edit.                 *)
(***************************************************************************)
\* Read, copy, rename.  ~/.claude.json is compared after the copy, config.toml
\* before it; a restore compares nothing.
Following(step) ==
  CASE step = "read"    -> IF way = "codexconfig" THEN "recheck" ELSE "backup"
    [] step = "backup"  -> IF way = "claudejson" /\ ~Restoring THEN "recheck" ELSE "replace"
    [] step = "recheck" -> IF way = "codexconfig" THEN "backup" ELSE "replace"

At(step) == op # NoOp /\ op.step = step
GoOn == op' = [op EXCEPT !.step = Following(op.step)]
End == op' = NoOp
\* Mutants: no behaviour takes these steps.
NextEditAlways == op' = [op EXCEPT !.step = "read", !.plan = Tail(@)]

\* The next edit of the plan, or the end.
EditDone ==
  IF Len(op.plan) = 1 THEN End
  ELSE op' = [op EXCEPT !.step = "read", !.plan = Tail(@)]

\* What the command no longer sees of a write of the CLI to d.
Blind(d) ==
  /\ op # NoOp /\ Now.doc = d
  /\ CASE Restoring                        -> TRUE
       [] way = "text" /\ Now.how = "whole" -> TRUE
       [] ~Restoring /\ way = "claudejson" -> op.step = "replace"
       [] ~Restoring /\ way = "codexconfig" ->
            op.step = "rollback" \/ (op.step = "inspect" /\ op.aside # op.snap)
       [] OTHER                            -> op.step \in {"backup", "replace"}

Expose(ns) == exposed' = exposed \cup (ns \ {0})
CliKeeps == UNCHANGED <<last, writes>>
Idle == UNCHANGED <<way, view, ops>>

\* For ~/.claude.json after one more try, which is a later Read.
Unreadable(c) == ~Restoring /\ (c = Torn \/ (way = "claudejson" /\ c = Missing))

\* The file is read; the new content follows from what was read.  A revision
\* that is not the panel's is a conflict.
Read ==
  /\ At("read")
  /\ \/ /\ ~Unreadable(file[Now.doc])
        /\ Codex => file[Now.doc] = op.snap
        /\ \E put \in Edited(file[Now.doc], Now.how, Now.entry, op.snap) :
             op' = [op EXCEPT !.step = Following("read"), !.seen = file[Now.doc], !.put = put]
     \/ /\ \/ Unreadable(file[Now.doc])
           \/ Codex /\ file[Now.doc] # op.snap
           \/ Edited(file[Now.doc], Now.how, Now.entry, op.snap) = {}
        /\ End
  /\ UNCHANGED <<file, copies, rewriting, exposed, faults>> /\ CliKeeps /\ Idle

\* A restore of ~/.claude.json that cannot read the file goes on without it.
RestoreUnread ==
  /\ At("read") /\ Restoring /\ way = "claudejson"
  /\ faults < MaxFaults
  /\ faults' = faults + 1
  /\ op' = [op EXCEPT !.step = Following("read"), !.seen = Missing, !.put = op.snap]
  /\ UNCHANGED <<file, copies, rewriting, exposed>> /\ CliKeeps /\ Idle

\* Mutants: no behaviour takes these steps.
BackupOfTheNew ==
  /\ At("backup")
  /\ copies' = [copies EXCEPT ![Now.doc] = {op.put}]
  /\ GoOn
  /\ UNCHANGED <<file, rewriting, exposed, faults>> /\ CliKeeps /\ Idle

\* A copy of what was read, or (codex_text_write) of what is there by now.
Backup ==
  /\ At("backup")
  /\ LET kept == IF way = "codextext" THEN file[Now.doc] ELSE op.seen
     IN copies' = [copies EXCEPT ![Now.doc] =
          CASE kept = Missing -> @
            [] kept # Missing /\ Accumulates -> @ \cup {kept}
            [] OTHER -> {kept}]
  /\ GoOn
  /\ UNCHANGED <<file, rewriting, exposed, faults>> /\ CliKeeps /\ Idle

\* settings.json.bak and its like are written in place.
BackupTorn ==
  /\ At("backup") /\ InPlaceBackup /\ op.seen # Missing
  /\ faults < MaxFaults
  /\ faults' = faults + 1
  /\ copies' = [copies EXCEPT ![Now.doc] = {}]
  /\ End
  /\ UNCHANGED <<file, rewriting, exposed>> /\ CliKeeps /\ Idle

\* The compare before the rename: the bytes (~/.claude.json: a conflict is
\* tried once more from a fresh read) or the revision (config.toml).
Recheck ==
  /\ At("recheck")
  /\ \/ file[Now.doc] = op.seen /\ GoOn
     \/ /\ file[Now.doc] # op.seen
        /\ IF way = "claudejson" /\ ~op.retried
           THEN op' = [op EXCEPT !.step = "read", !.retried = TRUE]
           ELSE End
  /\ UNCHANGED <<file, copies, rewriting, exposed, faults>> /\ CliKeeps /\ Idle

\* The rename.  config.toml is exchanged, or linked where there was none.
Replace ==
  /\ At("replace")
  /\ \/ /\ way # "codexconfig"
        /\ file' = [file EXCEPT ![Now.doc] = op.put]
        /\ EditDone
     \/ /\ way = "codexconfig" /\ op.seen = Missing
        /\ file' = IF file[Main] = Missing THEN [file EXCEPT ![Main] = op.put] ELSE file
        /\ End
     \/ /\ way = "codexconfig" /\ op.seen # Missing
        /\ file' = [file EXCEPT ![Main] = op.put]
        /\ op' = [op EXCEPT !.step = "inspect", !.aside = file[Main]]
  /\ UNCHANGED <<copies, rewriting, exposed, faults>> /\ CliKeeps /\ Idle

\* Mutants: no behaviour takes these steps.
InspectNothing ==
  /\ At("inspect")
  /\ EditDone
  /\ UNCHANGED <<file, copies, rewriting, exposed, faults>> /\ CliKeeps /\ Idle

\* What the exchange put aside is what the panel had seen, or goes back.
Inspect ==
  /\ At("inspect")
  /\ IF op.aside = op.snap THEN EditDone ELSE op' = [op EXCEPT !.step = "rollback"]
  /\ UNCHANGED <<file, copies, rewriting, exposed, faults>> /\ CliKeeps /\ Idle

\* The displaced file cannot be read: the exchange is undone all the same.
InspectFails ==
  /\ At("inspect")
  /\ faults < MaxFaults
  /\ faults' = faults + 1
  /\ op' = [op EXCEPT !.step = "rollback"]
  /\ Expose({n \in {last[Main]} : file[Main] # op.put})
  /\ UNCHANGED <<file, copies, rewriting>> /\ CliKeeps /\ Idle

Rollback ==
  /\ At("rollback")
  /\ file' = [file EXCEPT ![Main] = op.aside]
  /\ End
  /\ UNCHANGED <<copies, rewriting, exposed, faults>> /\ CliKeeps /\ Idle

\* An error or the end of the process.  What an exchange put aside is then in a
\* private temporary file, which an error removes and the end of the process
\* leaves behind; the app looks for it in neither case.
Stop ==
  /\ op # NoOp
  /\ faults < MaxFaults
  /\ faults' = faults + 1
  /\ End
  /\ IF op.step \in {"inspect", "rollback"} /\ op.aside # op.snap
     THEN Expose({last[Main]}) ELSE Expose({})
  /\ UNCHANGED <<file, copies, rewriting>> /\ CliKeeps /\ Idle

-----------------------------------------------------------------------------
(***************************************************************************)
(* The commands.                                                           *)
(***************************************************************************)
\* A save of a whole text and a restore of a copy put back what they contain:
\* the writes of the CLI that is without are given up when they start.
Start(kind, snap, plan) ==
  /\ op = NoOp
  /\ ops + writes < MaxTurns
  /\ ops' = ops + 1
  /\ op' = [step |-> "read", kind |-> kind, snap |-> snap, plan |-> plan, before |-> IF Len(plan) = 2 THEN file ELSE [d \in Docs |-> Missing],
            seen |-> Missing, put |-> Missing, aside |-> Missing, retried |-> FALSE, touched |-> FALSE]
  /\ Expose(IF Head(plan).how = "restore" \/ (way = "text" /\ Head(plan).how = "whole")
            THEN {last[Main]} \cup {rewriting.base} ELSE {})
  /\ UNCHANGED <<way, file, copies, view, rewriting, faults>> /\ CliKeeps

\* A command that does not look at what the panel had loaded.
StartOn(kind, how) == \E e \in Entries : Start(kind, Missing, <<Edit(Main, how, e)>>)
\* One that sends it, or its revision.
StartFromView(kind, how) == \E e \in Entries : Start(kind, view[Main], <<Edit(Main, how, e)>>)

\* The rules, environment and plugins of settings.json.
UpdateGlobalSettings == way = "hooks" /\ \E e \in Listed : Start("save", view[Main], <<Edit(Main, "section", e)>>)
\* write_status_line, set_plugin_enabled, dedupe_plugin.
WriteStatusLine == way = "hooks" /\ (StartOn("put", "put") \/ StartOn("remove", "drop"))
AddPermissionRule ==
  way = "rules" /\ \E d \in Docs, e \in Listed : Start("put", Missing, <<Edit(d, "add", e)>>)
RemovePermissionRule ==
  way = "rules" /\ \E d \in Docs, e \in Listed : Start("remove", Missing, <<Edit(d, "drop", e)>>)
\* Added to the target first; the panel offers the source as a target too.
MovePermissionRule ==
  /\ way = "rules"
  /\ \E from, to \in Docs, e \in Listed :
       Start(IF from = to THEN "stay" ELSE "move", Missing, <<Edit(to, "add", e), Edit(from, "drop", e)>>)

\* The group is looked up again (group_at) and appended first, then popped.
GroupAt(d, e) == file[d].bag[e] > 0 /\ \E x \in Entries : SameFingerprint(x, e) /\ view[d].bag[x] > 0
\* Mutants: no behaviour takes these steps.
PopBeforeAppend ==
  /\ way = "hooks"
  /\ \E e \in Entries : /\ GroupAt(Main, e)
                        /\ Start("toggle", Missing, <<Edit(Main, "take", e), Edit(Other, "add", e)>>)

DisableHook ==
  /\ way = "hooks"
  /\ \E e \in Entries : /\ GroupAt(Main, e)
                        /\ Start("toggle", Missing, <<Edit(Other, "add", e), Edit(Main, "take", e)>>)
EnableHook ==
  /\ way = "hooks"
  /\ \E e \in Entries : /\ GroupAt(Other, e)
                        /\ Start("toggle", Missing, <<Edit(Main, "add", e), Edit(Other, "take", e)>>)

\* The groups of an imported configuration.
AddDisabledHookGroups == way = "hooks" /\ \E e \in Entries : Start("put", Missing, <<Edit(Other, "merge", e)>>)

\* Instructions, memory, agents; write_skill_doc and write_memory_file save like write_text_file.
WriteTextFile == way = "text" /\ StartFromView("save", "whole")
PatchText == way = "text" /\ file[Main] # Missing /\ StartOn("put", "put")
ApplyMemoryIndexFix == way = "text" /\ (StartOn("put", "new") \/ StartOn("remove", "gone"))
CreateAgent == way = "text" /\ StartOn("put", "create")

\* ~/.claude.json: purge of projects, and the servers.
\* remove_global_mcp_server does as the purge does.
PurgeClaudeJsonProjects == way = "claudejson" /\ StartOn("remove", "gone")
AddGlobalMcpServer == way = "claudejson" /\ StartOn("put", "new")
UpdateGlobalMcpServer == way = "claudejson" /\ StartOn("put", "change")

\* The copy is read before the lock is taken; it must be JSON.
RestoreCopy ==
  /\ way \in {"hooks", "claudejson"}
  /\ \E c \in copies[Main] : c # Torn /\ Start("save", c, <<Edit(Main, "restore", CHOOSE e \in Entries : TRUE)>>)

CodexTextApply == way = "codextext" /\ view[Main] # Missing /\ StartFromView("save", "whole")
CodexTransform == way = "codextext" /\ view[Main] # Missing /\ StartFromView("put", "put")
CodexSettingsApply == way = "codexconfig" /\ StartFromView("put", "put")

\* A panel loads its file.
Load ==
  /\ op = NoOp
  /\ way # "claudejson"    \* whose commands send names only
  /\ view' = file
  /\ UNCHANGED <<way, file, copies, rewriting, op, last, writes, exposed, ops, faults>>
-----------------------------------------------------------------------------
(***************************************************************************)
(* The CLI.                                                                *)
(***************************************************************************)
CliContents(c) == {[c EXCEPT !.state = "text", !.base = writes + 1]} \cup
                  {[Toggled(c, e) EXCEPT !.base = writes + 1] : e \in Entries}

CliWrote(d) ==
  /\ ops + writes < MaxTurns
  /\ writes' = writes + 1
  /\ Expose({n \in {writes + 1} : Blind(d)})
  /\ op' = IF op = NoOp THEN op ELSE [op EXCEPT !.touched = TRUE]
  /\ UNCHANGED <<way, copies, view, ops, faults>>

\* hooks-disabled.json is the app's own.
CliWrite(d) ==
  /\ d = Other => way = "rules"
  /\ rewriting = Missing
  /\ CliWrote(d)
  /\ \E c \in CliContents(file[d]) : file' = [file EXCEPT ![d] = c]
  /\ last' = [last EXCEPT ![d] = writes + 1]
  /\ UNCHANGED rewriting

\* ~/.claude.json is written in place: it is torn meanwhile, and what the app
\* renames over it by then is not what the CLI goes on writing.
CliBegin ==
  /\ way = "claudejson" /\ rewriting = Missing
  /\ CliWrote(Main)
  /\ \E c \in CliContents(file[Main]) : rewriting' = c
  /\ file' = [file EXCEPT ![Main] = Torn]
  /\ UNCHANGED last

CliEnd ==
  /\ rewriting # Missing
  /\ file' = IF file[Main] = Torn THEN [file EXCEPT ![Main] = rewriting] ELSE file
  /\ last' = [last EXCEPT ![Main] = rewriting.base]
  /\ rewriting' = Missing
  /\ UNCHANGED <<way, copies, view, op, writes, exposed, ops, faults>>
-----------------------------------------------------------------------------
Command ==
  \/ UpdateGlobalSettings \/ WriteStatusLine \/ AddPermissionRule \/ RemovePermissionRule \/ MovePermissionRule
  \/ DisableHook \/ EnableHook \/ AddDisabledHookGroups
  \/ WriteTextFile \/ PatchText \/ ApplyMemoryIndexFix \/ CreateAgent
  \/ PurgeClaudeJsonProjects \/ AddGlobalMcpServer \/ UpdateGlobalMcpServer \/ RestoreCopy
  \/ CodexTextApply \/ CodexTransform \/ CodexSettingsApply

Step == Read \/ RestoreUnread \/ Backup \/ BackupTorn \/ Recheck \/ Replace \/ Inspect \/ InspectFails \/ Rollback \/ Stop

Next == Command \/ Step \/ Load \/ (\E d \in Docs : CliWrite(d)) \/ CliBegin \/ CliEnd

Spec == Init /\ [][Next]_vars
-----------------------------------------------------------------------------
\* Types; a command under way has one or two edits left to make.
TypeOK ==
  /\ way \in Ways
  /\ file \in [Docs -> Content] /\ view \in [Docs -> Content]
  /\ copies \in [Docs -> SUBSET Content]
  /\ rewriting \in Content
  /\ last \in [Docs -> 0..MaxTurns] /\ writes \in 0..MaxTurns /\ exposed \subseteq 0..MaxTurns
  /\ ops \in 0..MaxTurns /\ faults \in 0..MaxFaults
  /\ op # NoOp => /\ op.step \in {"read", "backup", "recheck", "replace", "inspect", "rollback"}
                  /\ Len(op.plan) \in 1..2
                  /\ {op.snap, op.seen, op.put, op.aside} \subseteq Content

\* The file of d, and what an exchange holds aside until it has looked at it.
Exchanged == op # NoOp /\ op.step \in {"inspect", "rollback"}
Held(d) == {file[d]} \cup (IF d = Main /\ Exchanged THEN {op.aside} ELSE {})

\* The last write of the CLI to a file is still in it after any number of
\* commands of the app, unless it was made where a command no longer looked.
LastWriteStands ==
  \A d \in Docs : \/ file[d] = Torn
                  \/ last[d] \in exposed
                  \/ \E c \in Held(d) : c.base = last[d]

AppStep == op # op' /\ writes' = writes

\* A restore is about to replace a file it could not read, or that was not there.
Unread == op # NoOp /\ Restoring /\ op.seen = Missing

\* What the app replaces can be had back: it is in a copy (or aside, being
\* looked at), unless it is the app's own write undone, one made unseen, or what
\* a restore could not read.
ReplacedCanBeHadBack ==
  [][AppStep => \A d \in Docs : file'[d] = file[d] \/ file[d] = Missing
       \/ file[d] \in copies'[d] \/ file[d] = op.put \/ {file[d].base, rewriting.base} \cap exposed # {}
       \/ (op' # NoOp /\ op'.aside = file[d]) \/ Unread]_vars

Present(e, f) == \E d \in Docs : f[d].bag[e] > 0
\* An entry goes from both files only when that was asked for.
Asked(e) ==
  \/ op.kind = "remove" /\ Now.entry = e
  \/ Now.how \in {"section", "whole", "restore"} /\ op.put.bag[e] = 0
  \* a twin is popped in place of the group that was moved
  \/ Now.how = "take" /\ Now.entry # e /\ SameFingerprint(e, Now.entry)
  \* a rule moved to where it is
  \/ op.kind = "stay" /\ Now.entry = e
  \* the command's own write undone
  \/ op.step = "rollback" /\ op.seen.bag[e] = 0
  \* the CLI removed it from the target, or wrote it where no one looked
  \/ op.touched

VanishesOnlyWhenAsked ==
  [][AppStep => \A e \in Entries : Present(e, file) /\ ~Present(e, file') => Asked(e)]_vars

\* A hook toggled with nobody else writing has moved: one group more in the
\* one file, one with its fingerprint less in the other, and nothing else.
ToggleMoves ==
  [][(op # NoOp /\ op' = NoOp /\ file' # file /\ op.kind = "toggle" /\ ~op.touched) =>
       \E x \in Entries : /\ SameFingerprint(x, Now.entry)
                          /\ file'[Now.doc].bag = [op.before[Now.doc].bag EXCEPT ![x] = @ - 1]
                          /\ \A d \in Docs \ {Now.doc} : file'[d].bag = [op.before[d].bag EXCEPT ![Now.entry] = @ + 1]]_vars
=============================================================================
