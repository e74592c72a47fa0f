---------------------------- MODULE SessionLists ----------------------------
(***************************************************************************)
(* The sidebar's list of sessions and the marks on them (pinned or hidden) *)
(* in the store, with the backend that lists the files and keeps the marks *)
(* in its configuration, and the CLI that writes the files.                *)
(*                                                                         *)
(* A store action runs to its await.  The call is then served, and its     *)
(* answer arrives, some time later: the webview sends every call as a      *)
(* request of its own, in no promised order.                               *)
(*                                                                         *)
(* A list is taken as how often each session is in it: the sidebar sorts   *)
(* what it shows.  A page has a next cursor exactly when it has more.      *)
(* Counts, error texts and the selected session's detail are left out, and *)
(* so are clearSelection and resetSessionsPagination, which nobody calls.  *)
(***************************************************************************)
EXTENDS Naturals, FiniteSets

CONSTANTS
  Projects, Sessions, ProjectOf, PageSize,
  Marked,      \* the sessions that are pinned or hidden at first
  FirstTimes, Times,   \* what files were written when, at first; the times a write may bring
  Milli,               \* how many of them are in a millisecond
  MaxOps, MaxWrites, MaxFaults,   \* actions of the user, writes of the CLI, calls that fail
  None

\* Sessions are numbered in the order in which their directory gives the files,
\* the same at every read.  A file may bring any time, and so may a write: it
\* copies a file, moves it back from an archive, or falls into a clock tick.
ASSUME ListsAssumption ==
  /\ Sessions = 1..Cardinality(Sessions) /\ IsFiniteSet(Sessions)
  /\ ProjectOf \in [Sessions -> Projects]
  /\ Marked \subseteq Sessions
  /\ {PageSize, Milli} \subseteq Nat \ {0}
  /\ FirstTimes \subseteq [Sessions -> Nat \ {0}] /\ Times \subseteq Nat \ {0}
  /\ {MaxOps, MaxWrites, MaxFaults} \subseteq Nat
  /\ None \notin Projects
ASSUME NoCursorIsNone == None \notin [ts : Nat, id : Sessions]

VARIABLES
  \* the backend and the disk
  mtime,         \* the time the file of a session bears, 0 if it is gone
  marks,         \* pinned_sessions or hidden_sessions of the configuration
  \* the store
  list,          \* which of the two `marked' is: behaviours follow one of them
  selected, worktree, rows, cursor, loading, loadingMore, marked,
  cached,        \* the projects _sessionCache has an entry for
  latest,        \* projectRefreshGeneration
  calls,         \* those under way
  \* history, in numbers of writes: which of them was the last of a file, before
  \* which the list was read, and what came between
  wrote, listOf, mixed, skipped, refreshed, marksOf, raced,
  ops, writes, faults

disk == <<mtime, wrote, marks>>
view == <<selected, worktree, cached>>
page == <<rows, cursor, loading, loadingMore>>
marking == <<marked, marksOf, raced>>
history == <<listOf, mixed, skipped, refreshed>>
counts == <<ops, writes, faults>>
vars == <<disk, list, view, page, marking, history, latest, calls, counts>>

NoRows == [s \in Sessions |-> 0]
Rows(ss) == [s \in Sessions |-> IF s \in ss THEN 1 ELSE 0]
InList == {s \in Sessions : rows[s] > 0}

Init ==
  /\ mtime \in FirstTimes /\ wrote = [s \in Sessions |-> 0]
  /\ marks = [p \in Projects |-> {s \in Marked : ProjectOf[s] = p}]
  /\ list \in {"pinned", "hidden"}
  /\ selected = None /\ worktree = None /\ cached = {}
  /\ rows = NoRows /\ cursor = None /\ loading = FALSE /\ loadingMore = FALSE
  /\ marked = {} /\ marksOf = None /\ raced = FALSE
  /\ listOf = None /\ mixed = FALSE /\ skipped = {} /\ refreshed = [p \in Projects |-> 0]
  /\ latest = [p \in Projects |-> 0]
  /\ calls = {}
  /\ ops = 0 /\ writes = 0 /\ faults = 0
-----------------------------------------------------------------------------
(***************************************************************************)
(* The backend: session_lister.rs and the marks of manager.rs.             *)
(***************************************************************************)
Files(p) == {s \in Sessions : ProjectOf[s] = p /\ mtime[s] > 0}

\* The list is sorted by time alone: of equal times the directory decides.
Before(r, s) == mtime[r] > mtime[s] \/ (mtime[r] = mtime[s] /\ r < s)
Newer(s, ss) == {r \in ss : Before(r, s)}

Close(a, b) == a < b + Milli /\ b < a + Milli

\* Mutants: no behaviour takes these steps.
FromAfter(p, c) == IF c = None THEN Files(p) ELSE {s \in Files(p) : mtime[s] < c.ts}

\* parse_cursor: from the session the cursor names if it is still within a
\* millisecond of the cursor's time, or else from the first that is older.
From(p, c) ==
  IF c = None THEN Files(p)
  ELSE {s \in Files(p) : \/ mtime[s] < c.ts
                         \/ c.id \in Files(p) /\ Close(mtime[c.id], c.ts) /\ ~Before(s, c.id)}

\* What only the session that a cursor names leads to: those of the same time.
\* They are passed over once it was removed or written.
Lost(p, c) ==
  IF c = None \/ (c.id \in Files(p) /\ mtime[c.id] = c.ts) THEN {}
  ELSE {s \in Files(p) : mtime[s] = c.ts}

PageOf(p, c) == {s \in From(p, c) : Cardinality(Newer(s, From(p, c))) < PageSize}

\* The cursor is the first session that is not on the page.
NextCursor(p, c) ==
  LET left == From(p, c) \ PageOf(p, c)
  IN IF left = {} THEN None
     ELSE LET s == CHOOSE s \in left : Newer(s, left) = {} IN [ts |-> mtime[s], id |-> s]

\* The answer to a change of marks changes nothing: that call ends here.
Serve(c) ==
  /\ c \in calls /\ ~c.served
  /\ calls' = (calls \ {c}) \cup
       CASE c.what \in {"initial", "more", "refresh"} ->
              {[c EXCEPT !.served = TRUE, !.ids = PageOf(c.project, c.after),
                         !.next = NextCursor(c.project, c.after),
                         !.at = writes, !.lost = Lost(c.project, c.after)]}
         [] c.what = "all"    -> {[c EXCEPT !.served = TRUE, !.ids = Files(c.project), !.at = writes]}
         [] c.what = "byids"  -> {[c EXCEPT !.served = TRUE, !.ids = @ \cap Files(c.project)]}
         [] c.what = "config" -> {[c EXCEPT !.served = TRUE, !.ids = marks[c.project]]}
         [] OTHER             -> {}
  /\ marks' = CASE c.what = "mark"   -> [marks EXCEPT ![c.project] = @ \cup c.ids]
                [] c.what = "unmark" -> [marks EXCEPT ![c.project] = @ \ c.ids]
                [] OTHER             -> marks
  /\ UNCHANGED <<mtime, wrote, list, view, page, marking, history, latest, counts>>

Touch(s, time) ==
  /\ writes < MaxWrites
  /\ writes' = writes + 1
  /\ mtime' = [mtime EXCEPT ![s] = time] /\ wrote' = [wrote EXCEPT ![s] = writes']
  /\ UNCHANGED <<marks, list, view, page, marking, history, latest, calls, ops, faults>>

\* The CLI writes the file of a session, a new one perhaps.
CliWrite(s) == \E time \in Times : Touch(s, time)

\* The file is removed, by a cleanup for instance.
Vanish(s) == mtime[s] > 0 /\ Touch(s, 0)
-----------------------------------------------------------------------------
(***************************************************************************)
(* Calls.  A call on the marks is clean when none that changes them was    *)
(* under way together with it.                                             *)
(***************************************************************************)
\* A refresh carries its generation; the number tells other equal calls apart.
Numbers(what, p) == {i \in 1..(Cardinality(calls) + 1) : \A c \in calls : ~(c.what = what /\ c.project = p /\ c.n = i)}
NumberFor(what, p) ==
  IF what = "refresh" THEN latest[p] + 1
  ELSE CHOOSE i \in Numbers(what, p) : TRUE

Call(what, p, after, ids, before, clean) ==
  [n |-> NumberFor(what, p), what |-> what, project |-> p, after |-> after, ids |-> ids, before |-> before,
   clean |-> clean, served |-> FALSE, next |-> None, at |-> 0, lost |-> {}]

Marking == {c \in calls : c.what \in {"mark", "unmark"}}
OnMarks == {c \in calls : c.what \in {"mark", "unmark", "config"}}

Turn == ops < MaxOps /\ ops' = ops + 1 /\ UNCHANGED <<writes, faults>>

\* fetchSessionsInitial up to its await: the list is emptied at once.
FetchSessionsInitial(p) ==
  /\ rows' = NoRows /\ cursor' = None /\ loading' = TRUE
  /\ listOf' = None /\ mixed' = FALSE /\ skipped' = {}
  /\ calls' = calls \cup {Call("initial", p, None, {}, {}, TRUE)}

NothingRequested == UNCHANGED <<page, listOf, mixed, skipped, calls>>
Elsewhere == UNCHANGED <<disk, list, marking, refreshed, latest>>

\* What the cache has is shown for no time at all: the fetch empties the list.
SelectProject(p) ==
  /\ Turn
  /\ selected' = p
  /\ loadingMore' = (p \in cached /\ loadingMore)
  /\ FetchSessionsInitial(p)
  /\ UNCHANGED <<worktree, cached>> /\ Elsewhere

\* selectRepository does the same with a worktree of the repository, which has one.
SelectWorktree(p) ==
  /\ Turn
  /\ selected' = p /\ worktree' = p
  /\ loadingMore' = FALSE
  /\ FetchSessionsInitial(p)
  /\ UNCHANGED cached /\ Elsewhere

SetViewMode ==
  /\ Turn
  /\ selected' = None /\ worktree' = None
  /\ rows' = NoRows /\ cursor' = None /\ loadingMore' = FALSE
  /\ listOf' = None /\ mixed' = FALSE /\ skipped' = {}
  /\ UNCHANGED <<cached, loading, calls>> /\ Elsewhere

\* The list stays, without a project.
ClearActiveProject ==
  /\ Turn
  /\ selected' = None /\ worktree' = None
  /\ NothingRequested /\ UNCHANGED cached /\ Elsewhere

\* A tab selects its project.  Whether that is found among the groups or the
\* projects depends on what was loaded so far: it may be in neither, and then
\* the list of the other project stays.
SyncSidebarForSessionTab(p) ==
  /\ Turn
  /\ selected' = p
  /\ \/ /\ worktree' = p
        /\ IF worktree # p THEN FetchSessionsInitial(p) /\ UNCHANGED loadingMore ELSE NothingRequested
     \/ /\ UNCHANGED worktree
        /\ IF selected # p THEN FetchSessionsInitial(p) /\ UNCHANGED loadingMore ELSE NothingRequested
     \/ UNCHANGED worktree /\ NothingRequested
  /\ UNCHANGED cached /\ Elsewhere

\* The sidebar asks for more only when it is not loading.
FetchSessionsMore ==
  /\ Turn
  /\ selected # None /\ cursor # None /\ ~loadingMore /\ ~loading
  /\ loadingMore' = TRUE
  /\ calls' = calls \cup {Call("more", selected, cursor, {}, {}, TRUE)}
  /\ UNCHANGED <<view, rows, cursor, loading, listOf, mixed, skipped>> /\ Elsewhere

RefreshSessionsInPlace ==
  /\ Turn
  /\ selected # None
  /\ latest' = [latest EXCEPT ![selected] = @ + 1]
  /\ calls' = calls \cup {Call("refresh", selected, None, {}, {}, TRUE)}
  /\ UNCHANGED <<disk, list, view, page, marking, history>>

\* The refresh button of a tab, whose project need not be the selected one.
FetchSessions(p) ==
  /\ Turn
  /\ loading' = TRUE
  /\ calls' = calls \cup {Call("all", p, None, {}, {}, TRUE)}
  /\ UNCHANGED <<view, rows, cursor, loadingMore, listOf, mixed, skipped>> /\ Elsewhere
-----------------------------------------------------------------------------
(***************************************************************************)
(* Marks: changed at once, put back when the call fails.                   *)
(***************************************************************************)
Mark(what, sets, to) ==
  /\ Turn
  /\ marked' = to
  /\ LET alone == OnMarks = {}
     IN /\ calls' = {IF c \in OnMarks THEN [c EXCEPT !.clean = FALSE] ELSE c : c \in calls} \cup
                    {Call(what, selected, None, ss, marked, alone /\ Cardinality(sets) = 1) : ss \in sets}
        /\ raced' = (raced \/ ~alone \/ marksOf # selected)
  /\ UNCHANGED <<disk, list, view, page, history, latest, marksOf>>

\* togglePinSession and toggleHideSession, also from the menu of a tab: the
\* project is the selected one, whatever the session's is.
ToggleSession(s) ==
  /\ selected # None
  /\ IF s \in marked THEN Mark("unmark", {{s}}, marked \ {s}) ELSE Mark("mark", {{s}}, marked \cup {s})

\* pinMultipleSessions makes a call for each, hideMultipleSessions one for all.
MarkMultiple(ss) ==
  /\ selected # None /\ ss # {}
  /\ Mark("mark", IF list = "pinned" THEN {{s} : s \in ss \ marked} ELSE {ss}, marked \cup ss)

UnhideMultiple(ss) ==
  /\ selected # None /\ ss # {} /\ list = "hidden"
  /\ Mark("unmark", {ss}, marked \ ss)
-----------------------------------------------------------------------------
(***************************************************************************)
(* Answers.                                                                *)
(***************************************************************************)
Answered(c, what) == c \in calls /\ c.served /\ c.what = what
Rest(c) == calls \ {c}

\* loadPinnedSessions or loadHiddenSessions, for what is selected by now.
LoadMarks(others) ==
  IF selected = None
  THEN marked' = {} /\ marksOf' = None /\ raced' = FALSE /\ calls' = others
  ELSE /\ calls' = others \cup {Call("config", selected, None, {}, {}, Marking = {})}
       /\ UNCHANGED marking

InitialAnswer(c) ==
  /\ Answered(c, "initial")
  /\ rows' = Rows(c.ids) /\ cursor' = c.next /\ loading' = FALSE
  /\ cached' = cached \cup ({selected} \ {None})
  /\ listOf' = [project |-> c.project, at |-> c.at] /\ mixed' = FALSE /\ skipped' = {}
  /\ LoadMarks(Rest(c))
  /\ UNCHANGED <<disk, list, selected, worktree, loadingMore, refreshed, latest, counts>>

\* Those in the list already are left out.
Appended(ss) == [s \in Sessions |-> IF s \in ss \ InList THEN rows[s] + 1 ELSE rows[s]]

MoreAnswer(c) ==
  /\ Answered(c, "more")
  /\ rows' = Appended(c.ids) /\ cursor' = c.next /\ loadingMore' = FALSE
  /\ mixed' = (mixed \/ listOf = None \/ c.after # cursor \/ c.project # listOf.project)
  /\ skipped' = skipped \cup c.lost
  /\ listOf' = IF listOf # None /\ c.at < listOf.at THEN [listOf EXCEPT !.at = c.at] ELSE listOf
  /\ calls' = Rest(c)
  /\ UNCHANGED <<disk, list, view, loading, marking, refreshed, latest, counts>>

\* Mutants: no behaviour takes these steps.
NotAfterLatest(c) == c.n <= latest[c.project]

IsLatest(c) == c.n = latest[c.project]

RefreshAnswer(c) ==
  /\ Answered(c, "refresh")
  /\ calls' = Rest(c)
  /\ \/ /\ IsLatest(c)
        /\ rows' = Rows(c.ids) /\ cursor' = c.next
        /\ cached' = cached \cup {c.project}
        /\ listOf' = [project |-> c.project, at |-> c.at] /\ mixed' = FALSE /\ skipped' = {}
        /\ refreshed' = [refreshed EXCEPT ![c.project] = c.at]
     \/ ~IsLatest(c) /\ UNCHANGED <<rows, cursor, cached, history>>
  /\ UNCHANGED <<disk, list, selected, worktree, loading, loadingMore, marking, latest, counts>>

AllAnswer(c) ==
  /\ Answered(c, "all")
  /\ rows' = Rows(c.ids) /\ loading' = FALSE
  /\ listOf' = [project |-> c.project, at |-> c.at] /\ mixed' = FALSE /\ skipped' = {}
  /\ calls' = Rest(c)
  /\ UNCHANGED <<disk, list, view, cursor, loadingMore, marking, refreshed, latest, counts>>

\* Pinned sessions that are not in the list are asked for.
ConfigAnswer(c) ==
  /\ Answered(c, "config")
  /\ marked' = c.ids /\ marksOf' = c.project /\ raced' = ~c.clean
  /\ IF list = "pinned" /\ c.ids \ InList # {}
     THEN /\ calls' = Rest(c) \cup {Call("byids", c.project, None, c.ids \ InList, {}, TRUE)}
     ELSE calls' = Rest(c)
  /\ UNCHANGED <<disk, list, view, page, history, latest, counts>>

ByIdsAnswer(c) ==
  /\ Answered(c, "byids")
  /\ rows' = Appended(c.ids)
  /\ calls' = Rest(c)
  /\ UNCHANGED <<disk, list, view, cursor, loading, loadingMore, marking, history, latest, counts>>

\* Mutants: no behaviour takes these steps.
SpinnersOfPages(c) ==
  /\ loading' = (loading /\ c.what # "initial")
  /\ loadingMore' = (loadingMore /\ c.what # "more")
MarkedAsShown(c) == marked

SpinnersWithout(c) ==
  /\ loading' = (loading /\ c.what \notin {"initial", "all"})
  /\ loadingMore' = (loadingMore /\ c.what # "more")
MarkedBefore(c) == c.before

\* A call that fails has done nothing.  When the sessions of the pins cannot be
\* read the pins go too.
Fails(c) ==
  /\ c \in calls /\ ~c.served
  /\ faults < MaxFaults
  /\ faults' = faults + 1
  /\ calls' = Rest(c)
  /\ SpinnersWithout(c)
  /\ CASE c.what \in {"config", "byids"} -> marked' = {} /\ marksOf' = None /\ UNCHANGED raced
       [] c.what \in {"mark", "unmark"} -> /\ marked' = MarkedBefore(c)
                                           /\ raced' = (raced \/ ~c.clean \/ c.project # selected)
                                           /\ UNCHANGED marksOf
       [] OTHER -> UNCHANGED marking
  /\ UNCHANGED <<disk, list, view, rows, cursor, history, latest, ops, writes>>
-----------------------------------------------------------------------------
User ==
  \/ \E p \in Projects : SelectProject(p) \/ SelectWorktree(p) \/ SyncSidebarForSessionTab(p) \/ FetchSessions(p)
  \/ SetViewMode \/ ClearActiveProject \/ FetchSessionsMore \/ RefreshSessionsInPlace
  \/ \E s \in Sessions : ToggleSession(s)
  \/ \E ss \in SUBSET InList : MarkMultiple(ss) \/ UnhideMultiple(ss)

Answer(c) ==
  \/ InitialAnswer(c) \/ MoreAnswer(c) \/ RefreshAnswer(c) \/ AllAnswer(c)
  \/ ConfigAnswer(c) \/ ByIdsAnswer(c) \/ Fails(c)

Next ==
  \/ User
  \/ \E c \in calls : Serve(c) \/ Answer(c)
  \/ \E s \in Sessions : CliWrite(s) \/ Vanish(s)

Spec == Init /\ [][Next]_vars
-----------------------------------------------------------------------------
Whats == {"initial", "more", "refresh", "all", "config", "byids", "mark", "unmark"}
Cursors == [ts : Nat, id : Sessions] \cup {None}
Reads == [project : Projects, at : Nat] \cup {None}

\* Types, and a spinner of the list turns only for a call under way: every way
\* a call can end, a failure among them, turns it off.
TypeOK ==
  /\ mtime \in [Sessions -> Nat] /\ wrote \in [Sessions -> 0..writes] /\ marks \in [Projects -> SUBSET Sessions]
  /\ list \in {"pinned", "hidden"}
  /\ {selected, worktree, marksOf} \subseteq Projects \cup {None}
  /\ rows \in [Sessions -> Nat] /\ cursor \in Cursors
  /\ {loading, loadingMore, mixed, raced} \subseteq BOOLEAN
  /\ loading => \E c \in calls : c.what \in {"initial", "all"}
  /\ loadingMore => \E c \in calls : c.what = "more"
  /\ {marked, skipped} \subseteq SUBSET Sessions /\ cached \subseteq Projects
  /\ latest \in [Projects -> Nat] /\ refreshed \in [Projects -> 0..writes]
  /\ listOf \in Reads
  /\ ops \in 0..MaxOps /\ writes \in 0..MaxWrites /\ faults \in 0..MaxFaults
  /\ \A c \in calls : /\ c.n \in Nat /\ c.what \in Whats /\ c.project \in Projects
                      /\ {c.after, c.next} \subseteq Cursors /\ c.ids \subseteq Sessions
                      /\ {c.before, c.lost} \subseteq SUBSET Sessions /\ c.at \in 0..writes

\* Pages add up: no session is in the list twice, and one whose file was not
\* written since its pages were read is in the list or still to come, even when
\* the file a cursor names is written or removed and when pins or all sessions
\* were put into the list between two pages.  Two things break the second part:
\* a page put into a list it was not asked for, and, of a cursor whose file was
\* written or removed, a time that other sessions share.
PagesAddUp ==
  /\ \A s \in Sessions : rows[s] <= 1
  /\ listOf # None /\ ~mixed =>
       \A s \in Files(listOf.project) \ skipped : wrote[s] <= listOf.at =>
         \/ s \in InList
         \/ cursor # None /\ s \in From(listOf.project, cursor) \cup Lost(listOf.project, cursor)

\* Refreshes of a project never go back: what a refresh shows was not read
\* before what an earlier one showed, in whatever order they are answered.
RefreshNeverGoesBack == [][\A p \in Projects : refreshed'[p] >= refreshed[p]]_vars

\* At rest the marks shown are those in the configuration, if they were loaded
\* for the selected project and since then no change of marks overlapped another
\* or a load, and none was made with another project's marks on screen.
MarksAgree ==
  OnMarks = {} /\ selected # None /\ marksOf = selected /\ ~raced => marked = marks[selected]
=============================================================================
