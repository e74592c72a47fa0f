---------------------------- MODULE HistoryPrune ----------------------------
(***************************************************************************)
(* prune_history, src-tauri/src/maintenance/history.rs: the prompts older  *)
(* than a cutoff are split off history.jsonl, put into the trash, and the  *)
(* file is replaced by the rest, while the Claude CLI goes on appending.   *)
(*                                                                         *)
(* A line is the number it was appended under, so a file is a set of lines *)
(* and its order goes without saying.  Timestamps grow with the numbers; a *)
(* line in Undated has none that parses.  The command runs under the op    *)
(* mutex (module MaintenanceService), so there is one at a time; it stops  *)
(* anywhere when the program does.  The move of the tail into the trash is *)
(* module Trash; here it is one step.                                      *)
(***************************************************************************)
EXTENDS FiniteSets, Naturals

CONSTANTS
  Undated,     \* lines whose timestamp is missing or does not parse
  FirstLines,  \* how many lines the file has when the program starts
  MaxLines,    \* bound: how many lines are ever appended
  MaxFaults    \* bound: how many steps fail, and how often the program stops

ASSUME HistoryAssumption ==
  /\ Undated \subseteq Nat
  /\ FirstLines \in Nat /\ MaxLines \in Nat /\ FirstLines <= MaxLines
  /\ MaxFaults \in Nat

VARIABLES
  \* the disk
  last,     \* how many lines the CLI has appended so far
  file,     \* the lines of history.jsonl
  tmp,      \* history.jsonl.tmp is there
  tailed,   \* the tail file of this attempt is there
  strays,   \* files nobody will look at again: tail files, orphans in the trash
  trashed,  \* the lines in receipts of the trash
  \* the CLI
  fd,       \* "none", or the CLI is about to append: to "cur", the file of that
            \* name, or to "old", one that has been replaced since
  \* the command
  pc,
  attempt,
  cutoff,   \* dated lines up to this one are older than the cutoff
  snap,     \* the snapshot: size and time of last change tell which lines it had
  tail,
  head,
  \* history variables
  exposed,  \* lines appended when the last check was already over
  doubled,  \* lines of a tail that was trashed and whose file was not replaced
  raced,    \* the attempts of this command during which a line was appended
  faults    \* steps that failed, and stops, so far

disk    == <<last, file, tmp, tailed, strays, trashed, fd>>
command == <<pc, attempt, cutoff, snap, tail, head>>
history == <<exposed, doubled, raced, faults>>
vars    == <<disk, command, history>>

PCs == {"idle", "snap", "split", "tail", "head", "check", "trash", "rename"}

Init ==
  /\ last = FirstLines /\ file = 1 .. FirstLines
  /\ tmp = FALSE /\ tailed = FALSE /\ strays = 0 /\ trashed = {}
  /\ fd = "none"
  /\ pc = "idle" /\ attempt = 0 /\ cutoff = 0
  /\ snap = {} /\ tail = {} /\ head = {}
  /\ exposed = {} /\ doubled = {} /\ raced = {} /\ faults = 0

Goto(l) == pc' = l

Fault == faults < MaxFaults /\ faults' = faults + 1

-----------------------------------------------------------------------------
(***************************************************************************)
(* Mutants: no behaviour takes these steps.                                *)
(***************************************************************************)

\* A missing timestamp is read as 0, which is older than any cutoff.
PrunableAnyway(i) == i <= cutoff

\* The file is not looked at again before it is replaced.
CheckNot ==
  /\ pc = "check"
  /\ Goto("trash")
  /\ UNCHANGED <<disk, attempt, cutoff, snap, tail, head, history>>

\* A failed attempt leaves its tail file.
CheckLeavesTail ==
  /\ pc = "check"
  /\ IF file = snap THEN Goto("trash") /\ UNCHANGED <<disk, attempt>>
     ELSE /\ tailed' = FALSE /\ tmp' = FALSE /\ attempt' = attempt + 1
          /\ strays' = strays + 1
          /\ Goto(IF attempt = 1 THEN "idle" ELSE "snap")
          /\ UNCHANGED <<last, file, trashed, fd>>
  /\ UNCHANGED <<cutoff, snap, tail, head, history>>

\* One attempt too many.
CheckThrice ==
  /\ pc = "check"
  /\ IF file = snap THEN Goto("trash") /\ UNCHANGED <<disk, attempt>>
     ELSE /\ tailed' = FALSE /\ tmp' = FALSE /\ attempt' = attempt + 1
          /\ Goto(IF attempt = 2 THEN "idle" ELSE "snap")
          /\ UNCHANGED <<last, file, strays, trashed, fd>>
  /\ UNCHANGED <<cutoff, snap, tail, head, history>>

\* history_line_time and the comparison with the cutoff
Prunable(i) == i \notin Undated /\ i <= cutoff

(***************************************************************************)
(* The CLI: an append opens the file and writes a line to what it opened.  *)
(***************************************************************************)

CliOpen ==
  /\ fd = "none" /\ last < MaxLines
  /\ fd' = "cur"
  /\ UNCHANGED <<last, file, tmp, tailed, strays, trashed, command, history>>

CliWrite ==
  /\ fd # "none"
  /\ last' = last + 1
  /\ file' = IF fd = "cur" THEN file \cup {last'} ELSE file
  /\ exposed' = IF fd = "old" \/ pc \in {"trash", "rename"}
                THEN exposed \cup {last'} ELSE exposed
  /\ raced' = IF pc = "idle" THEN raced ELSE raced \cup {attempt}
  /\ fd' = "none"
  /\ UNCHANGED <<tmp, tailed, strays, trashed, command, doubled, faults>>

(***************************************************************************)
(* The command.                                                            *)
(***************************************************************************)

\* The lines of this moment are on one side of the cutoff or the other; the
\* CLI stamps those to come later than any cutoff.
PruneHistory ==
  /\ pc = "idle"
  /\ cutoff' \in 0 .. last
  /\ attempt' = 0 /\ raced' = {}
  /\ snap' = {} /\ tail' = {} /\ head' = {}
  /\ Goto("snap")
  /\ UNCHANGED <<disk, exposed, doubled, faults>>

StatSnapshot ==
  /\ pc = "snap"
  /\ snap' = file
  /\ Goto("split")
  /\ UNCHANGED <<disk, attempt, cutoff, tail, head, history>>

\* An over-long line aborts the prune, as does a tail with nothing in it.
SplitHistory ==
  /\ pc = "split"
  /\ tail' = {i \in file : Prunable(i)}
  /\ head' = file \ tail'
  /\ Goto(IF tail' = {} THEN "idle" ELSE "tail")
  /\ UNCHANGED <<disk, attempt, cutoff, snap, history>>

SplitFails ==
  /\ pc = "split"
  /\ Fault
  /\ Goto("idle")
  /\ UNCHANGED <<disk, attempt, cutoff, snap, tail, head, exposed, doubled, raced>>

WriteTail ==
  /\ pc = "tail"
  /\ tailed' = TRUE
  /\ Goto("head")
  /\ UNCHANGED <<last, file, tmp, strays, trashed, fd, attempt, cutoff, snap,
                 tail, head, history>>

\* What was written of the tail file stays behind.
WriteTailFails ==
  /\ pc = "tail"
  /\ Fault
  /\ strays' = strays + 1
  /\ Goto("idle")
  /\ UNCHANGED <<last, file, tmp, tailed, trashed, fd, attempt, cutoff, snap,
                 tail, head, exposed, doubled, raced>>

WriteHead ==
  /\ pc = "head"
  /\ tmp' = TRUE
  /\ Goto("check")
  /\ UNCHANGED <<last, file, tailed, strays, trashed, fd, attempt, cutoff, snap,
                 tail, head, history>>

WriteHeadFails ==
  /\ pc = "head"
  /\ Fault
  /\ tailed' = FALSE /\ tmp' = FALSE
  /\ Goto("idle")
  /\ UNCHANGED <<last, file, strays, trashed, fd, attempt, cutoff, snap, tail,
                 head, exposed, doubled, raced>>

\* The final check; the second attempt to fail gives up.
Check ==
  /\ pc = "check"
  /\ IF file = snap THEN Goto("trash") /\ UNCHANGED <<disk, attempt>>
     ELSE /\ tailed' = FALSE /\ tmp' = FALSE /\ attempt' = attempt + 1
          /\ Goto(IF attempt = 1 THEN "idle" ELSE "snap")
          /\ UNCHANGED <<last, file, strays, trashed, fd>>
  /\ UNCHANGED <<cutoff, snap, tail, head, history>>

TrashTail ==
  /\ pc = "trash"
  /\ trashed' = trashed \cup tail
  /\ tailed' = FALSE
  /\ Goto("rename")
  /\ UNCHANGED <<last, file, tmp, strays, fd, attempt, cutoff, snap, tail, head,
                 history>>

\* The trash fails before the move of the tail file, or after it.
TrashTailFails ==
  /\ pc = "trash"
  /\ Fault
  /\ strays' \in {strays, strays + 1}
  /\ tailed' = FALSE /\ tmp' = FALSE
  /\ Goto("idle")
  /\ UNCHANGED <<last, file, trashed, fd, attempt, cutoff, snap, tail, head,
                 exposed, doubled, raced>>

\* history.jsonl.tmp takes the name; who had opened the file has an old one.
RenameHead ==
  /\ pc = "rename"
  /\ file' = head /\ tmp' = FALSE
  /\ fd' = IF fd = "cur" THEN "old" ELSE fd
  /\ Goto("idle")
  /\ UNCHANGED <<last, tailed, strays, trashed, attempt, cutoff, snap, tail, head,
                 history>>

RenameHeadFails ==
  /\ pc = "rename"
  /\ Fault
  /\ tmp' = FALSE
  /\ doubled' = doubled \cup tail
  /\ Goto("idle")
  /\ UNCHANGED <<last, file, tailed, strays, trashed, fd, attempt, cutoff, snap,
                 tail, head, exposed, raced>>

\* The program stops, in the middle of the command.
Stop ==
  /\ pc # "idle"
  /\ Fault
  /\ tailed' = FALSE
  /\ strays' = IF tailed THEN strays + 1 ELSE strays
  /\ doubled' = IF pc = "rename" THEN doubled \cup tail ELSE doubled
  /\ Goto("idle")
  /\ UNCHANGED <<last, file, tmp, trashed, fd, attempt, cutoff, snap, tail, head,
                 exposed, raced>>

Next ==
  \/ CliOpen \/ CliWrite
  \/ PruneHistory \/ StatSnapshot \/ SplitHistory \/ SplitFails
  \/ WriteTail \/ WriteTailFails \/ WriteHead \/ WriteHeadFails
  \/ Check \/ TrashTail \/ TrashTailFails \/ RenameHead \/ RenameHeadFails
  \/ Stop

Spec == Init /\ [][Next]_vars

-----------------------------------------------------------------------------

TypeOK ==
  /\ last \in Nat /\ strays \in Nat /\ faults \in Nat /\ cutoff \in Nat
  /\ file \subseteq 1 .. last /\ trashed \subseteq 1 .. last
  /\ tmp \in BOOLEAN /\ tailed \in BOOLEAN
  /\ fd \in {"none", "cur", "old"} /\ pc \in PCs /\ attempt \in 0 .. 2
  /\ snap \subseteq 1 .. last /\ tail \subseteq 1 .. last /\ head \subseteq 1 .. last
  /\ exposed \subseteq 1 .. last /\ doubled \subseteq 1 .. last
  /\ raced \subseteq 0 .. 1

\* Every prompt ever typed is in history.jsonl or in the trash, except those
\* appended after the last look at the file and before its replacement: no
\* failure, no stop, no append at any other time loses one.
NothingLost == 1 .. last \subseteq file \cup trashed \cup exposed

\* A prompt is in one place: a line is in the file and in the trash only if a
\* prune came to grief between the two, and a line without a timestamp that
\* parses is never pruned.
SingleHome ==
  /\ pc # "rename" => file \cap trashed \subseteq doubled
  /\ trashed \cap Undated = {}

\* A tail file is left behind only by a step that failed or a stop: a retry and
\* a prune that gives up clean up after themselves.
StraysAccounted == strays <= faults

\* What history.rs says: "a concurrent append aborts and retries once", and its
\* message "history.jsonl kept changing; prune aborted (no data lost)".
NoAppendLost == 1 .. last \subseteq file \cup trashed
=============================================================================
