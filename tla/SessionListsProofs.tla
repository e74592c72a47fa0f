------------------------- MODULE SessionListsProofs --------------------------
(***************************************************************************)
(* Proofs about SessionLists: types; refreshes never go back; the marks    *)
(* agree at rest; pages add up.                                            *)
(*                                                                         *)
(* Each rests on what a call under way carries: Types for all of them, and *)
(* then one invariant per result, which says what its answer will do.      *)
(***************************************************************************)
EXTENDS SessionLists, FiniteSetTheorems, WellFoundedInduction, TLAPS

Calls == [n : Nat, what : Whats, project : Projects, after : Cursors, ids : SUBSET Sessions,
          before : SUBSET Sessions, clean : BOOLEAN, served : BOOLEAN, next : Cursors,
          at : Nat, lost : SUBSET Sessions]

Types ==
  /\ TypeOK
  /\ calls \subseteq Calls /\ IsFiniteSet(calls)

\* Of a project's refreshes the latest is one call, and was read after every
\* one that was answered.
Refreshes ==
  \A c \in calls : c.what = "refresh" =>
    /\ c.n <= latest[c.project]
    /\ c.served /\ IsLatest(c) => c.at >= refreshed[c.project]
    /\ \A d \in calls : d.what = "refresh" /\ d.project = c.project /\ d.n = c.n => d = c

\* What the marks will be when the calls that change them are over.
Touched(some) == UNION {c.ids : c \in some}
Outcome ==
  \/ /\ \A c \in Marking : c.what = "mark"
     /\ marked = marks[marksOf] \cup Touched(Marking)
  \/ /\ \A c \in Marking : c.what = "unmark"
     /\ marked = marks[marksOf] \ Touched(Marking)
Marks ==
  /\ marksOf # None /\ ~raced =>
       /\ \A c \in Marking : c.project = marksOf
       /\ Outcome
       /\ \A c \in Marking : c.clean => c.before = marks[marksOf]
  /\ \A c \in Marking : c.clean => Marking = {c}
  /\ \A c \in calls : c.what = "config" /\ c.clean =>
       /\ Marking = {}
       /\ c.served => c.ids = marks[c.project]

\* What a cursor leaves to come, wherever the file it names is by now; a page has
\* all of its part of the files but that and what it passed over.
Due(s, cur) == mtime[s] < cur.ts \/ (mtime[s] = cur.ts /\ s >= cur.id)
PageRead(c) ==
  /\ (c.what # "more" => c.after = None) /\ (c.after = None => c.lost = {})
  /\ c.served /\ c.what \in {"initial", "more", "refresh", "all"} =>
       \A s \in Files(c.project) \ c.lost :
         wrote[s] <= c.at /\ (c.after = None \/ Due(s, c.after)) =>
           s \in c.ids \/ (c.what # "all" /\ c.next # None /\ Due(s, c.next))
ListRead ==
  listOf # None /\ ~mixed =>
    \A s \in Files(listOf.project) \ skipped :
      wrote[s] <= listOf.at => s \in InList \/ (cursor # None /\ Due(s, cursor))
Pages ==
  /\ \A s \in Sessions : rows[s] <= 1
  /\ listOf # None => listOf.at <= writes
  /\ \A c \in calls : PageRead(c)
  /\ ListRead
-----------------------------------------------------------------------------
USE ListsAssumption

LEMMA Bounds ==
  /\ MaxOps \in Nat /\ MaxWrites \in Nat /\ MaxFaults \in Nat /\ PageSize \in Nat
  /\ Cardinality(Sessions) \in Nat
  BY FS_CardinalityType

LEMMA Numbered == Sessions \subseteq Nat \ {0}
<1>1. PICK n : n = Cardinality(Sessions) /\ n \in Nat
  BY Bounds
<1>2. Sessions = 1..n
  BY <1>1
<1> QED
  BY <1>1, <1>2

LEMMA WritesType == ASSUME Types PROVE writes \in Nat
  BY Bounds DEF Types, TypeOK

\* There is always a number left for a call.
LEMMA NumberType ==
  ASSUME Types, NEW what \in Whats, NEW p \in Projects
  PROVE  NumberFor(what, p) \in Nat
<1>1. CASE what = "refresh"
  BY <1>1 DEF NumberFor, Types, TypeOK
<1>2. CASE what # "refresh"
  <2> DEFINE k == Cardinality(calls)
             Used(i) == \E c \in calls : c.what = what /\ c.project = p /\ c.n = i
  <2>1. k \in Nat /\ IsFiniteSet(calls)
    BY FS_CardinalityType DEF Types
  <2>2. \E i \in 1..(k + 1) : ~Used(i)
    <3> SUFFICES ASSUME \A i \in 1..(k + 1) : Used(i) PROVE FALSE
      OBVIOUS
    <3> DEFINE f == [i \in 1..(k + 1) |-> CHOOSE c \in calls : c.what = what /\ c.project = p /\ c.n = i]
    <3>1. \A i \in 1..(k + 1) : f[i] \in calls /\ f[i].n = i
      OBVIOUS
    <3>2. f \in [1..(k + 1) -> calls]
      BY <3>1
    <3>3. IsFiniteSet(1..(k + 1)) /\ Cardinality(1..(k + 1)) = k + 1
      <4>1. 1 \in Int /\ k + 1 \in Int /\ ~(1 > k + 1) /\ (k + 1) - 1 + 1 = k + 1
        BY <2>1
      <4> HIDE DEF k
      <4> QED
        BY <4>1, FS_Interval
    <3>4. Cardinality(calls) < Cardinality(1..(k + 1))
      BY <2>1, <3>3
    <3> HIDE DEF f, k
    <3>5. \E x, y \in 1..(k + 1) : x # y /\ f[x] = f[y]
      BY <2>1, <3>2, <3>3, <3>4, FS_PigeonHole
    <3> QED
      BY <3>1, <3>5
  <2>3. Numbers(what, p) # {} /\ Numbers(what, p) \subseteq Nat
    BY <2>1, <2>2 DEF Numbers
  <2> QED
    BY <1>2, <2>3 DEF NumberFor
<1> QED
  BY <1>1, <1>2

LEMMA CallType ==
  ASSUME Types, NEW what \in Whats, NEW p \in Projects, NEW after \in Cursors,
         NEW ids \in SUBSET Sessions, NEW before \in SUBSET Sessions, NEW clean \in BOOLEAN,
         NEW c, c = Call(what, p, after, ids, before, clean)
  PROVE  /\ c \in Calls /\ c.n = NumberFor(what, p) /\ c.what = what /\ c.project = p /\ c.after = after
         /\ c.ids = ids /\ c.before = before /\ c.clean = clean /\ ~c.served /\ c.next = None /\ c.at = 0 /\ c.lost = {}
  BY NumberType DEF Call, Calls, Cursors

\* Of a set of sessions one is before all others: that with the fewest before it.
LEMMA Newest ==
  ASSUME Types, NEW ss \in SUBSET Sessions, ss # {}
  PROVE  \E s \in ss : Newer(s, ss) = {}
<1> DEFINE rank(s) == Cardinality(Newer(s, ss))
           ranks == {rank(s) : s \in ss}
<1>1. \A s \in ss : s \in Nat /\ mtime[s] \in Nat
  BY Numbered DEF Types, TypeOK
<1>2. \A s \in ss : IsFiniteSet(Newer(s, ss)) /\ rank(s) \in Nat
  <2> SUFFICES ASSUME NEW s \in ss PROVE IsFiniteSet(Newer(s, ss)) /\ rank(s) \in Nat
    OBVIOUS
  <2>1. Newer(s, ss) \subseteq Sessions /\ IsFiniteSet(Sessions)
    BY DEF Newer
  <2>2. IsFiniteSet(Newer(s, ss))
    BY <2>1, FS_Subset
  <2> QED
    BY <2>2, FS_CardinalityType
<1>3. ranks \subseteq Nat /\ ranks # {}
  BY <1>2
<1>4. \E x \in ranks : \A y \in ranks : ~(<<y, x>> \in OpToRel(<, Nat))
  <2> HIDE DEF ranks
  <2> QED
    BY <1>3, NatLessThanWellFounded, WFMin, Zenon
<1>5. PICK s \in ss : \A y \in ranks : ~(<<y, rank(s)>> \in OpToRel(<, Nat))
  BY <1>4
<1>6. \A r \in ss : ~(rank(r) < rank(s))
  BY <1>2, <1>5 DEF OpToRel
<1>7. ASSUME NEW r \in Newer(s, ss) PROVE FALSE
  <2>1. r \in ss /\ Before(r, s)
    BY <1>7 DEF Newer
  <2>2. \A q \in ss : Before(q, r) => Before(q, s)
    BY <1>1, <2>1 DEF Before
  <2>3. ~Before(r, r)
    BY <1>1, <2>1 DEF Before
  <2>4. Newer(r, ss) \subseteq Newer(s, ss) /\ Newer(r, ss) # Newer(s, ss)
    BY <1>7, <2>1, <2>2, <2>3 DEF Newer
  <2>5. IsFiniteSet(Newer(s, ss)) /\ rank(r) \in Nat /\ rank(s) \in Nat
    BY <1>2, <2>1
  <2>6. rank(r) <= rank(s) /\ rank(r) # rank(s)
    BY <2>4, <2>5, FS_Subset
  <2> QED
    BY <1>6, <2>1, <2>5, <2>6
<1> QED
  BY <1>7

LEMMA PageTypes ==
  ASSUME Types, NEW p \in Projects, NEW c
  PROVE  /\ Files(p) \subseteq Sessions /\ From(p, c) \subseteq Files(p) /\ PageOf(p, c) \subseteq From(p, c)
         /\ NextCursor(p, c) \in Cursors /\ Lost(p, c) \subseteq Sessions
<1>1. /\ Files(p) \subseteq Sessions /\ From(p, c) \subseteq Files(p) /\ PageOf(p, c) \subseteq From(p, c)
      /\ Lost(p, c) \subseteq Sessions
  BY DEF Files, From, PageOf, Lost
<1> DEFINE left == From(p, c) \ PageOf(p, c)
<1>2. CASE left = {}
  BY <1>1, <1>2 DEF NextCursor, Cursors
<1>3. CASE left # {}
  <2> DEFINE s == CHOOSE r \in left : Newer(r, left) = {}
  <2>1. \E r \in left : Newer(r, left) = {}
    BY <1>1, <1>3, Newest
  <2>2. s \in left /\ Newer(s, left) = {}
    BY <2>1
  <2>3. NextCursor(p, c) = [ts |-> mtime[s], id |-> s]
    BY <1>3 DEF NextCursor
  <2>4. s \in Sessions /\ mtime[s] \in Nat
    BY <1>1, <2>2 DEF Types, TypeOK
  <2> HIDE DEF s
  <2>5. [ts |-> mtime[s], id |-> s] \in [ts : Nat, id : Sessions]
    BY <2>4
  <2> QED
    BY <1>1, <2>3, <2>5, Zenon DEF Cursors
<1> QED
  BY <1>2, <1>3
-----------------------------------------------------------------------------
(***************************************************************************)
(* What the actions do to the calls.                                       *)
(***************************************************************************)
Browsing ==
  \/ \E p \in Projects : SelectProject(p) \/ SelectWorktree(p) \/ SyncSidebarForSessionTab(p) \/ FetchSessions(p)
  \/ SetViewMode \/ ClearActiveProject \/ FetchSessionsMore

Asked(c) ==
  /\ c \in Calls /\ calls' = calls \cup {c} /\ ~c.served /\ c.next = None /\ c.at = 0 /\ c.lost = {}
  /\ \/ c.what \in {"initial", "all"} /\ c.after = None
     \/ c.what = "more" /\ c.after = cursor

LEMMA Initial ==
  ASSUME Types, NEW p \in Projects, FetchSessionsInitial(p)
  PROVE  /\ rows' = NoRows /\ cursor' = None /\ listOf' = None /\ mixed' = FALSE /\ skipped' = {} /\ loading' = TRUE
         /\ \E c : Asked(c) /\ c.what = "initial"
<1>3. PICK c : c = Call("initial", p, None, {}, {}, TRUE)
  OBVIOUS
<1>4. "initial" \in Whats /\ None \in Cursors /\ TRUE \in BOOLEAN /\ {} \in SUBSET Sessions
  BY DEF Whats, Cursors
<1>1. c \in Calls /\ c.what = "initial" /\ c.after = None /\ ~c.served /\ c.next = None /\ c.at = 0 /\ c.lost = {}
  BY <1>3, <1>4, NumberType DEF Call, Calls
<1>2. calls' = calls \cup {c}
  BY <1>3 DEF FetchSessionsInitial
<1> QED
  BY <1>1, <1>2 DEF FetchSessionsInitial, Asked

LEMMA Browse ==
  ASSUME Types, Browsing
  PROVE  /\ UNCHANGED <<mtime, wrote, marks, list, marked, marksOf, raced, refreshed, latest, cached, writes, faults>>
         /\ ops' \in 0..MaxOps
         /\ {selected', worktree'} \subseteq Projects \cup {None} /\ {loading', loadingMore'} \subseteq BOOLEAN
         /\ \/ rows' = NoRows /\ cursor' = None /\ listOf' = None /\ mixed' = FALSE /\ skipped' = {}
            \/ UNCHANGED <<rows, cursor, listOf, mixed, skipped>>
         /\ \/ calls' = calls /\ (loading' => loading) /\ (loadingMore' => loadingMore)
            \/ \E c : /\ Asked(c) /\ (loadingMore' => loadingMore \/ c.what = "more")
                      /\ (loading' => loading \/ c.what \in {"initial", "all"})
<1>0. /\ {selected, worktree} \subseteq Projects \cup {None} /\ {loading, loadingMore} \subseteq BOOLEAN
      /\ (Turn => ops' \in 0..MaxOps)
  BY Bounds DEF Types, TypeOK, Turn
<1>1. CASE \E p \in Projects : SelectProject(p)
  <2> PICK p \in Projects : SelectProject(p)
    BY <1>1
  <2>1. (p \in cached /\ loadingMore) \in BOOLEAN
    BY Zenon
  <2> QED
    BY <1>0, <2>1, Initial DEF SelectProject, Turn, Elsewhere, disk, marking
<1>2. CASE \E p \in Projects : SelectWorktree(p)
  <2> PICK p \in Projects : SelectWorktree(p)
    BY <1>2
  <2> QED
    BY <1>0, Initial DEF SelectWorktree, Turn, Elsewhere, disk, marking
<1>3. CASE \E p \in Projects : SyncSidebarForSessionTab(p)
  <2> PICK p \in Projects : SyncSidebarForSessionTab(p)
    BY <1>3
  <2>1. (FetchSessionsInitial(p) /\ UNCHANGED loadingMore) \/ NothingRequested
    BY DEF SyncSidebarForSessionTab
  <2>2. /\ Turn /\ selected' = p /\ worktree' \in {p, worktree} /\ UNCHANGED cached /\ Elsewhere
    BY DEF SyncSidebarForSessionTab
  <2>3. CASE FetchSessionsInitial(p) /\ UNCHANGED loadingMore
    BY <1>0, <2>2, <2>3, Initial DEF Turn, Elsewhere, disk, marking
  <2>4. CASE NothingRequested
    BY <1>0, <2>2, <2>4 DEF Turn, Elsewhere, disk, marking, NothingRequested, page
  <2> QED
    BY <2>1, <2>3, <2>4
<1>4. CASE \E p \in Projects : FetchSessions(p)
  <2> PICK p \in Projects : FetchSessions(p)
    BY <1>4
  <2>4. PICK c : c = Call("all", p, None, {}, {}, TRUE)
    OBVIOUS
  <2>5. "all" \in Whats /\ None \in Cursors /\ TRUE \in BOOLEAN /\ {} \in SUBSET Sessions
    BY DEF Whats, Cursors
  <2>1. c \in Calls /\ c.what = "all" /\ c.after = None /\ ~c.served /\ c.next = None /\ c.at = 0 /\ c.lost = {}
    BY <2>4, <2>5, NumberType DEF Call, Calls
  <2>2. calls' = calls \cup {c}
    BY <2>4 DEF FetchSessions
  <2>3. Asked(c)
    BY <2>1, <2>2 DEF Asked
  <2> QED
    BY <1>0, <2>1, <2>3 DEF FetchSessions, Turn, Elsewhere, disk, marking, view
<1>5. CASE SetViewMode
  BY <1>0, <1>5 DEF SetViewMode, Turn, Elsewhere, disk, marking
<1>6. CASE ClearActiveProject
  BY <1>0, <1>6 DEF ClearActiveProject, Turn, Elsewhere, disk, marking, NothingRequested, page
<1>7. CASE FetchSessionsMore
  <2>5. PICK c : c = Call("more", selected, cursor, {}, {}, TRUE)
    OBVIOUS
  <2>1. selected \in Projects /\ cursor \in Cursors /\ "more" \in Whats /\ TRUE \in BOOLEAN
        /\ {} \in SUBSET Sessions /\ None \in Cursors
    BY <1>7 DEF FetchSessionsMore, Types, TypeOK, Whats, Cursors
  <2>2. c \in Calls /\ c.what = "more" /\ c.after = cursor /\ ~c.served /\ c.next = None /\ c.at = 0 /\ c.lost = {}
    BY <2>1, <2>5, NumberType DEF Call, Calls
  <2>3. calls' = calls \cup {c}
    BY <1>7, <2>5 DEF FetchSessionsMore
  <2>4. Asked(c)
    BY <2>2, <2>3 DEF Asked
  <2> QED
    BY <1>0, <1>7, <2>2, <2>4 DEF FetchSessionsMore, Turn, Elsewhere, disk, marking, view
<1> QED
  BY <1>1, <1>2, <1>3, <1>4, <1>5, <1>6, <1>7 DEF Browsing

LEMMA Refreshing ==
  ASSUME Types, RefreshSessionsInPlace
  PROVE  /\ UNCHANGED <<disk, list, view, page, marking, history, writes, faults>> /\ ops' \in 0..MaxOps
         /\ selected \in Projects /\ latest' = [latest EXCEPT ![selected] = latest[selected] + 1]
         /\ \E c \in Calls : /\ calls' = calls \cup {c} /\ ~c.served /\ c.next = None
                             /\ c.at = 0 /\ c.lost = {} /\ c.after = None
                             /\ c.what = "refresh" /\ c.project = selected /\ c.n = latest[selected] + 1
<1>1. PICK c : c = Call("refresh", selected, None, {}, {}, TRUE)
  OBVIOUS
<1>2. selected \in Projects /\ None \in Cursors /\ "refresh" \in Whats
  BY DEF RefreshSessionsInPlace, Types, TypeOK, Cursors, Whats
<1>3. c \in Calls /\ ~c.served /\ c.next = None /\ c.at = 0 /\ c.lost = {} /\ c.after = None /\ c.what = "refresh"
      /\ c.project = selected /\ c.n = latest[selected] + 1
  BY <1>1, <1>2, NumberType DEF Call, Calls, NumberFor
<1>4. calls' = calls \cup {c}
  BY <1>1 DEF RefreshSessionsInPlace
<1>5. ops' \in 0..MaxOps /\ UNCHANGED <<writes, faults>>
  BY Bounds DEF Types, TypeOK, RefreshSessionsInPlace, Turn
<1> QED
  BY <1>2, <1>3, <1>4, <1>5 DEF RefreshSessionsInPlace

\* What the commands on marks send: a set of calls, one of them clean at most.
Marks1(what, sets, to) ==
  /\ what \in {"mark", "unmark"} /\ sets \subseteq SUBSET Sessions /\ IsFiniteSet(sets) /\ to \subseteq Sessions
  /\ selected \in Projects /\ Mark(what, sets, to)
  /\ to = IF what = "mark" THEN marked \cup UNION sets ELSE marked \ UNION sets

LEMMA Marking1 ==
  ASSUME Types,
         \/ \E s \in Sessions : ToggleSession(s)
         \/ \E ss \in SUBSET InList : MarkMultiple(ss) \/ UnhideMultiple(ss)
  PROVE  \E what, sets, to : Marks1(what, sets, to)
<1>0. selected # None => selected \in Projects
  BY DEF Types, TypeOK
<1>1. ASSUME NEW s \in Sessions, ToggleSession(s) PROVE \E what, sets, to : Marks1(what, sets, to)
  <2>1. IsFiniteSet({{s}}) /\ UNION {{s}} = {s} /\ marked \subseteq Sessions
    <3>1. IsFiniteSet({{s}})
      BY FS_Singleton, Zenon
    <3>2. UNION {{s}} = {s}
      OBVIOUS
    <3> QED
      BY <3>1, <3>2 DEF Types, TypeOK
  <2>2. CASE s \in marked
    <3>1. Marks1("unmark", {{s}}, marked \ {s})
      BY <1>0, <1>1, <2>1, <2>2 DEF ToggleSession, Marks1
    <3> QED
      BY <3>1
  <2>3. CASE s \notin marked
    <3>1. Marks1("mark", {{s}}, marked \cup {s})
      BY <1>0, <1>1, <2>1, <2>3 DEF ToggleSession, Marks1
    <3> QED
      BY <3>1
  <2> QED
    BY <2>2, <2>3
<1>2. ASSUME NEW ss \in SUBSET InList, MarkMultiple(ss) \/ UnhideMultiple(ss)
      PROVE  \E what, sets, to : Marks1(what, sets, to)
  <2>1. ss \subseteq Sessions /\ IsFiniteSet({ss}) /\ UNION {ss} = ss /\ marked \subseteq Sessions
    <3>1. IsFiniteSet({ss})
      BY FS_Singleton, Zenon
    <3>2. UNION {ss} = ss
      OBVIOUS
    <3> QED
      BY <3>1, <3>2 DEF Types, TypeOK, InList
  <2>2. CASE MarkMultiple(ss) /\ list = "pinned"
    <3> DEFINE sets == {{s} : s \in ss \ marked}
    <3>1. IsFiniteSet(sets)
      <4>1. IsFiniteSet(ss \ marked)
        BY <2>1, FS_Subset
      <4> DEFINE f == [s \in ss \ marked |-> {s}]
      <4>2. f \in Surjection(ss \ marked, sets)
        BY DEF Surjection
      <4> HIDE DEF f, sets
      <4> QED
        BY <4>1, <4>2, FS_Surjection
    <3>2. marked \cup ss = marked \cup UNION sets /\ sets \subseteq SUBSET Sessions
      BY <2>1
    <3>3. Mark("mark", sets, marked \cup ss)
      BY <2>2 DEF MarkMultiple
    <3> HIDE DEF sets
    <3>4. Marks1("mark", sets, marked \cup ss)
      BY <1>0, <2>1, <2>2, <3>1, <3>2, <3>3 DEF MarkMultiple, Marks1
    <3> QED
      BY <3>4
  <2>3. CASE MarkMultiple(ss) /\ list # "pinned"
    <3>1. Marks1("mark", {ss}, marked \cup ss)
      BY <1>0, <2>1, <2>3 DEF MarkMultiple, Marks1
    <3> QED
      BY <3>1
  <2>4. CASE UnhideMultiple(ss)
    <3>1. Marks1("unmark", {ss}, marked \ ss)
      BY <1>0, <2>1, <2>4 DEF UnhideMultiple, Marks1
    <3> QED
      BY <3>1
  <2> QED
    BY <1>2, <2>2, <2>3, <2>4
<1> QED
  BY <1>1, <1>2

Unclean(c) == [c EXCEPT !.clean = FALSE]
MarkedCalls(what, sets, new) ==
  /\ new \in SUBSET Calls
  /\ calls' = {IF c \in OnMarks THEN Unclean(c) ELSE c : c \in calls} \cup new
  /\ calls' \subseteq Calls /\ IsFiniteSet(calls')
  /\ \A c \in new : /\ c.what = what /\ c.project = selected /\ c.ids \in sets /\ c.before = marked
                    /\ ~c.served /\ c.next = None /\ c.at = 0 /\ c.lost = {} /\ c.after = None
                    /\ (c.clean => OnMarks = {} /\ new = {c})
  /\ {c.ids : c \in new} = sets

LEMMA MarkCalls ==
  ASSUME Types, NEW what, NEW sets, NEW to, Marks1(what, sets, to)
  PROVE  \E new : MarkedCalls(what, sets, new)
<1> DEFINE clean == OnMarks = {} /\ Cardinality(sets) = 1
           New(ss) == Call(what, selected, None, ss, marked, clean)
           new == {New(ss) : ss \in sets}
           old == {IF c \in OnMarks THEN Unclean(c) ELSE c : c \in calls}
<1>1. what \in Whats /\ selected \in Projects /\ None \in Cursors /\ clean \in BOOLEAN /\ marked \subseteq Sessions
  <2>1. clean \in BOOLEAN
    BY Zenon
  <2> HIDE DEF clean
  <2> QED
    BY <2>1 DEF Marks1, Whats, Cursors, Types, TypeOK
<1>2. calls' = old \cup new
  BY DEF Marks1, Mark, Unclean
<1> HIDE DEF clean
<1>3. \A ss \in sets : /\ New(ss) \in Calls /\ New(ss).what = what /\ New(ss).project = selected /\ New(ss).ids = ss
                        /\ New(ss).before = marked /\ ~New(ss).served /\ New(ss).next = None
                      /\ New(ss).at = 0 /\ New(ss).lost = {}
                       /\ New(ss).after = None /\ New(ss).clean = clean
  <2> SUFFICES ASSUME NEW ss \in sets
               PROVE  /\ New(ss) \in Calls /\ New(ss).what = what /\ New(ss).project = selected /\ New(ss).ids = ss
                      /\ New(ss).before = marked /\ ~New(ss).served /\ New(ss).next = None
                      /\ New(ss).at = 0 /\ New(ss).lost = {}
                      /\ New(ss).after = None /\ New(ss).clean = clean
    OBVIOUS
  <2>1. ss \subseteq Sessions
    BY DEF Marks1
  <2> QED
    BY <1>1, <2>1, NumberType DEF Call, Calls
<1>4. old \subseteq Calls
  BY DEF Types, Unclean, Calls
<1>5. IsFiniteSet(old) /\ IsFiniteSet(new)
  <2>1. IsFiniteSet(calls) /\ IsFiniteSet(sets)
    BY DEF Types, Marks1
  <2>2. IsFiniteSet(old)
    <3> DEFINE f == [c \in calls |-> IF c \in OnMarks THEN Unclean(c) ELSE c]
    <3>1. f \in Surjection(calls, old)
      BY DEF Surjection
    <3> HIDE DEF f, old
    <3> QED
      BY <2>1, <3>1, FS_Surjection
  <2>3. IsFiniteSet(new)
    <3> DEFINE f == [ss \in sets |-> New(ss)]
    <3>1. f \in Surjection(sets, new)
      BY DEF Surjection
    <3> HIDE DEF f, new
    <3> QED
      BY <2>1, <3>1, FS_Surjection
  <2> QED
    BY <2>2, <2>3
<1>6. clean => OnMarks = {} /\ \E x : sets = {x}
  BY FS_Singleton DEF clean, Marks1
<1>7. \A c \in new : c.clean => OnMarks = {} /\ new = {c}
  BY <1>3, <1>6
<1>8. {c.ids : c \in new} = sets
  BY <1>3
<1>9. IsFiniteSet(old \cup new)
  BY <1>5, FS_Union
<1> QED
  <2> HIDE DEF old
  <2>1. new \in SUBSET Calls
    BY <1>3
  <2>2. \A c \in new : /\ c.what = what /\ c.project = selected /\ c.ids \in sets /\ c.before = marked
                       /\ ~c.served /\ c.next = None /\ c.at = 0 /\ c.lost = {} /\ c.after = None
                       /\ (c.clean => OnMarks = {} /\ new = {c})
    <3>1. \A c \in new : \E ss \in sets : c = New(ss)
      OBVIOUS
    <3> HIDE DEF new, New
    <3> QED
      BY <1>3, <1>7, <3>1
  <2> HIDE DEF new
  <2> QED
    BY <1>2, <1>4, <1>8, <1>9, <2>1, <2>2 DEF old, MarkedCalls

Lists == {"initial", "more", "refresh", "all"}
LEMMA Serving ==
  ASSUME Types, NEW c \in calls, Serve(c)
  PROVE  /\ c \in Calls /\ ~c.served
         /\ UNCHANGED <<mtime, wrote, list, view, page, marking, history, latest, counts>>
         /\ \/ /\ c.what = "mark" /\ calls' = Rest(c)
               /\ marks' = [marks EXCEPT ![c.project] = marks[c.project] \cup c.ids]
            \/ /\ c.what = "unmark" /\ calls' = Rest(c)
               /\ marks' = [marks EXCEPT ![c.project] = marks[c.project] \ c.ids]
            \/ /\ c.what \notin {"mark", "unmark"} /\ marks' = marks
               /\ \E d \in Calls :
                    /\ calls' = Rest(c) \cup {d}
                    /\ d.n = c.n /\ d.what = c.what /\ d.project = c.project /\ d.after = c.after
                    /\ d.before = c.before /\ d.clean = c.clean /\ d.served /\ d.at \in {c.at, writes}
                    /\ c.what \in {"initial", "more", "refresh"} =>
                         /\ d.ids = PageOf(c.project, c.after) /\ d.next = NextCursor(c.project, c.after)
                    /\ d.lost = IF c.what \in {"initial", "more", "refresh"} THEN Lost(c.project, c.after) ELSE c.lost
                    /\ c.what \in Lists => d.at = writes
                    /\ c.what = "all" => d.ids = Files(c.project)
                    /\ c.what \notin {"initial", "more", "refresh"} => d.next = c.next
                    /\ c.what = "config" => d.ids = marks[c.project]
<1>1. c \in Calls /\ c.what \in Whats /\ c.project \in Projects /\ ~c.served
      /\ UNCHANGED <<mtime, wrote, list, view, page, marking, history, latest, counts>>
  BY DEF Serve, Types, Calls
<1>2. PageOf(c.project, c.after) \subseteq Sessions /\ NextCursor(c.project, c.after) \in Cursors
      /\ Lost(c.project, c.after) \subseteq Sessions
      /\ Files(c.project) \subseteq Sessions /\ marks[c.project] \subseteq Sessions /\ writes \in Nat
  BY <1>1, PageTypes, WritesType DEF Types, TypeOK
<1>3. CASE c.what \in {"initial", "more", "refresh"}
  <2> DEFINE d == [c EXCEPT !.served = TRUE, !.ids = PageOf(c.project, c.after),
                            !.next = NextCursor(c.project, c.after), !.at = writes,
                            !.lost = Lost(c.project, c.after)]
  <2>1. /\ d \in Calls /\ d.n = c.n /\ d.what = c.what /\ d.project = c.project /\ d.after = c.after
        /\ d.before = c.before /\ d.clean = c.clean /\ d.served /\ d.at = writes
        /\ d.ids = PageOf(c.project, c.after) /\ d.next = NextCursor(c.project, c.after)
        /\ d.lost = Lost(c.project, c.after)
    BY <1>1, <1>2 DEF Calls
  <2>2. calls' = Rest(c) \cup {d} /\ marks' = marks
    BY <1>3 DEF Serve, Rest
  <2> HIDE DEF d
  <2> QED
    BY <1>1, <1>3, <2>1, <2>2
<1>4. CASE c.what = "all"
  <2> DEFINE d == [c EXCEPT !.served = TRUE, !.ids = Files(c.project), !.at = writes]
  <2>1. /\ d \in Calls /\ d.n = c.n /\ d.what = c.what /\ d.project = c.project /\ d.after = c.after
        /\ d.before = c.before /\ d.clean = c.clean /\ d.served /\ d.at = writes
        /\ d.ids = Files(c.project) /\ d.next = c.next /\ d.lost = c.lost
    BY <1>1, <1>2 DEF Calls
  <2>2. calls' = Rest(c) \cup {d} /\ marks' = marks
    BY <1>4 DEF Serve, Rest
  <2> HIDE DEF d
  <2> QED
    BY <1>1, <1>4, <2>1, <2>2
<1>5. CASE c.what = "byids"
  <2> DEFINE d == [c EXCEPT !.served = TRUE, !.ids = c.ids \cap Files(c.project)]
  <2>1. /\ d \in Calls /\ d.n = c.n /\ d.what = c.what /\ d.project = c.project /\ d.after = c.after
        /\ d.before = c.before /\ d.clean = c.clean /\ d.served /\ d.at = c.at /\ d.next = c.next
        /\ d.lost = c.lost
    BY <1>1, <1>2 DEF Calls
  <2>2. calls' = Rest(c) \cup {d} /\ marks' = marks
    BY <1>5 DEF Serve, Rest
  <2> HIDE DEF d
  <2> QED
    BY <1>1, <1>5, <2>1, <2>2 DEF Lists
<1>6. CASE c.what = "config"
  <2> DEFINE d == [c EXCEPT !.served = TRUE, !.ids = marks[c.project]]
  <2>1. /\ d \in Calls /\ d.n = c.n /\ d.what = c.what /\ d.project = c.project /\ d.after = c.after
        /\ d.before = c.before /\ d.clean = c.clean /\ d.served /\ d.at = c.at /\ d.next = c.next
        /\ d.lost = c.lost
        /\ d.ids = marks[c.project]
    BY <1>1, <1>2 DEF Calls
  <2>2. calls' = Rest(c) \cup {d} /\ marks' = marks
    BY <1>6 DEF Serve, Rest
  <2> HIDE DEF d
  <2> QED
    BY <1>1, <1>6, <2>1, <2>2 DEF Lists
<1>7. CASE c.what = "mark"
  BY <1>1, <1>7 DEF Serve, Rest
<1>8. CASE c.what = "unmark"
  BY <1>1, <1>8 DEF Serve, Rest
<1> QED
  BY <1>1, <1>3, <1>4, <1>5, <1>6, <1>7, <1>8 DEF Whats

\* What an answer leaves of the calls: the rest, and at most one that it makes.
LEMMA Answering ==
  ASSUME Types, NEW c \in calls, Answer(c)
  PROVE  /\ c \in Calls /\ UNCHANGED <<disk, list, selected, worktree, latest, ops, writes>>
         /\ \/ calls' = Rest(c)
            \/ /\ c.what = "initial"
               /\ \E d \in Calls : /\ calls' = Rest(c) \cup {d} /\ d.what = "config" /\ d.project = selected
                                   /\ ~d.served /\ d.after = None /\ d.next = None /\ d.at = 0 /\ d.lost = {}
                                   /\ d.clean = (Marking = {})
            \/ /\ c.what = "config"
               /\ \E d \in Calls : /\ calls' = Rest(c) \cup {d} /\ d.what = "byids"
                                   /\ ~d.served /\ d.after = None /\ d.next = None /\ d.at = 0 /\ d.lost = {}
<1>1. c \in Calls /\ None \in Cursors /\ {"config", "byids"} \subseteq Whats
  BY DEF Types, Cursors, Whats
<1>2. CASE InitialAnswer(c)
  <2>1. c.what = "initial" /\ UNCHANGED <<disk, list, selected, worktree, latest, ops, writes>> /\ LoadMarks(Rest(c))
    BY <1>2 DEF InitialAnswer, Answered, counts
  <2>2. CASE selected = None
    BY <1>1, <2>1, <2>2 DEF LoadMarks
  <2>3. CASE selected # None
    <3>1. PICK d : d = Call("config", selected, None, {}, {}, Marking = {})
      OBVIOUS
    <3>2. selected \in Projects /\ (Marking = {}) \in BOOLEAN
      <4>1. (Marking = {}) \in BOOLEAN
        BY Zenon
      <4> QED
        BY <2>3, <4>1 DEF Types, TypeOK
    <3>3. /\ d \in Calls /\ d.what = "config" /\ d.project = selected
          /\ ~d.served /\ d.after = None /\ d.next = None /\ d.at = 0 /\ d.lost = {} /\ d.clean = (Marking = {})
      BY <1>1, <3>1, <3>2, NumberType DEF Call, Calls
    <3>4. calls' = Rest(c) \cup {d}
      BY <2>1, <2>3, <3>1 DEF LoadMarks
    <3> QED
      BY <1>1, <2>1, <3>3, <3>4
  <2> QED
    BY <2>2, <2>3
<1>3. CASE ConfigAnswer(c)
  <2>1. c.what = "config" /\ UNCHANGED <<disk, list, selected, worktree, latest, ops, writes>>
    BY <1>3 DEF ConfigAnswer, Answered, counts, view
  <2>2. CASE calls' = Rest(c)
    BY <1>1, <2>1, <2>2
  <2>3. CASE calls' # Rest(c)
    <3>1. PICK d : d = Call("byids", c.project, None, c.ids \ InList, {}, TRUE)
      OBVIOUS
    <3>2. c.project \in Projects /\ c.ids \subseteq Sessions
      BY <1>1 DEF Calls
    <3>3. d \in Calls /\ d.what = "byids" /\ ~d.served /\ d.after = None /\ d.next = None /\ d.at = 0 /\ d.lost = {}
      BY <1>1, <3>1, <3>2, NumberType DEF Call, Calls
    <3>4. calls' = Rest(c) \cup {d}
      BY <1>3, <2>3, <3>1 DEF ConfigAnswer
    <3> QED
      BY <1>1, <2>1, <3>3, <3>4
  <2> QED
    BY <2>2, <2>3
<1>4. CASE MoreAnswer(c)
  BY <1>1, <1>4 DEF MoreAnswer, view, counts
<1>5. CASE RefreshAnswer(c)
  BY <1>1, <1>5 DEF RefreshAnswer, counts
<1>6. CASE AllAnswer(c)
  BY <1>1, <1>6 DEF AllAnswer, view, counts
<1>7. CASE ByIdsAnswer(c)
  BY <1>1, <1>7 DEF ByIdsAnswer, view, counts
<1>8. CASE Fails(c)
  BY <1>1, <1>8 DEF Fails, view
<1> QED
  BY <1>2, <1>3, <1>4, <1>5, <1>6, <1>7, <1>8 DEF Answer
-----------------------------------------------------------------------------
\* The calls that stay and at most one more are still a finite set of calls.
LEMMA FewerCalls ==
  ASSUME Types, NEW some \in SUBSET calls, NEW d \in Calls
  PROVE  /\ some \subseteq Calls /\ IsFiniteSet(some)
         /\ some \cup {d} \subseteq Calls /\ IsFiniteSet(some \cup {d})
<1>1. IsFiniteSet(some)
  BY FS_Subset DEF Types
<1> QED
  BY <1>1, FS_AddElement DEF Types

\* Each call was read by now.
LEMMA CallFields ==
  ASSUME NEW set \in SUBSET Calls, NEW time \in Nat, \A c \in set : c.at <= time
  PROVE  \A c \in set : /\ c.n \in Nat /\ c.what \in Whats /\ c.project \in Projects
                        /\ {c.after, c.next} \subseteq Cursors /\ c.ids \subseteq Sessions
                        /\ {c.before, c.lost} \subseteq SUBSET Sessions /\ c.at \in 0..time
  BY DEF Calls

LEMMA CallsRead == Types => \A c \in calls : c.at <= writes
<1> SUFFICES ASSUME Types, NEW c \in calls PROVE c.at <= writes
  OBVIOUS
<1>1. writes \in Nat /\ c.at \in 0..writes
  BY WritesType DEF Types, TypeOK
<1> QED
  BY <1>1

LEMMA TypesBrowse == Types /\ Browsing => Types'
<1> SUFFICES ASSUME Types, Browsing PROVE Types'
  OBVIOUS
<1>1. writes' = writes /\ writes \in Nat
  BY Browse, WritesType
<1>2. calls' \subseteq Calls /\ IsFiniteSet(calls') /\ \A c \in calls' : c.at <= writes
  <2>1. CASE calls' = calls
    BY <2>1, CallsRead DEF Types
  <2>2. CASE \E c : Asked(c)
    <3>1. PICK c \in Calls : calls' = calls \cup {c} /\ c.at = 0
      BY <2>2 DEF Asked
    <3>2. calls' \subseteq Calls /\ IsFiniteSet(calls')
      BY <3>1, FewerCalls
    <3> QED
      BY <1>1, <3>1, <3>2, CallsRead
  <2> QED
    BY <2>1, <2>2, Browse
<1>3. (loading' => \E c \in calls' : c.what \in {"initial", "all"}) /\ (loadingMore' => \E c \in calls' : c.what = "more")
  <2>1. CASE calls' = calls /\ (loading' => loading) /\ (loadingMore' => loadingMore)
    BY <2>1 DEF Types, TypeOK
  <2>2. CASE \E c : /\ Asked(c) /\ (loadingMore' => loadingMore \/ c.what = "more")
                    /\ (loading' => loading \/ c.what \in {"initial", "all"})
    BY <2>2 DEF Asked, Types, TypeOK
  <2> QED
    BY <2>1, <2>2, Browse
<1>4. \A c \in calls' : /\ c.n \in Nat /\ c.what \in Whats /\ c.project \in Projects
                        /\ {c.after, c.next} \subseteq Cursors /\ c.ids \subseteq Sessions
                        /\ {c.before, c.lost} \subseteq SUBSET Sessions /\ c.at \in 0..writes
  BY <1>1, <1>2, CallFields
<1>5. rows' \in [Sessions -> Nat] /\ cursor' \in Cursors /\ listOf' \in Reads /\ mixed' \in BOOLEAN
      /\ skipped' \subseteq Sessions
  <2>1. CASE rows' = NoRows /\ cursor' = None /\ listOf' = None /\ mixed' = FALSE /\ skipped' = {}
    BY <2>1 DEF NoRows, Cursors, Reads
  <2>2. CASE UNCHANGED <<rows, cursor, listOf, mixed, skipped>>
    BY <2>2 DEF Types, TypeOK
  <2> QED
    BY <2>1, <2>2, Browse
<1>6. TypeOK'
  <2>1. /\ UNCHANGED <<mtime, wrote, marks, list, marked, marksOf, raced, refreshed, latest, cached, writes, faults>>
        /\ ops' \in 0..MaxOps
        /\ {selected', worktree'} \subseteq Projects \cup {None} /\ {loading', loadingMore'} \subseteq BOOLEAN
    BY Browse
  <2> QED
    BY <1>1, <1>3, <1>4, <1>5, <2>1 DEF Types, TypeOK
<1> QED
  BY <1>2, <1>6 DEF Types

LEMMA TypesRefresh == Types /\ RefreshSessionsInPlace => Types'
<1> SUFFICES ASSUME Types, RefreshSessionsInPlace PROVE Types'
  OBVIOUS
<1>1. writes' = writes /\ writes \in Nat
  BY Refreshing, WritesType
<1>2. PICK d \in Calls : calls' = calls \cup {d} /\ d.at = 0
  BY Refreshing
<1>3. calls' \subseteq Calls /\ IsFiniteSet(calls') /\ \A c \in calls' : c.at <= writes
  <2>1. calls' \subseteq Calls /\ IsFiniteSet(calls')
    BY <1>2, FewerCalls
  <2> QED
    BY <1>1, <1>2, <2>1, CallsRead
<1>4. \A c \in calls' : /\ c.n \in Nat /\ c.what \in Whats /\ c.project \in Projects
                        /\ {c.after, c.next} \subseteq Cursors /\ c.ids \subseteq Sessions
                        /\ {c.before, c.lost} \subseteq SUBSET Sessions /\ c.at \in 0..writes
  BY <1>1, <1>3, CallFields
<1>5. latest' \in [Projects -> Nat]
  <2>1. latest' = [latest EXCEPT ![selected] = latest[selected] + 1] /\ selected \in Projects
    BY Refreshing
  <2>2. latest \in [Projects -> Nat]
    BY DEF Types, TypeOK
  <2> QED
    BY <2>1, <2>2
<1>6. TypeOK'
  <2>1. UNCHANGED <<disk, list, view, page, marking, history, writes, faults>> /\ ops' \in 0..MaxOps
    BY Refreshing
  <2> QED
    BY <1>1, <1>2, <1>4, <1>5, <2>1 DEF Types, TypeOK, disk, view, page, marking, history
<1> QED
  BY <1>3, <1>6 DEF Types

LEMMA TypesMark ==
  ASSUME Types, NEW what, NEW sets, NEW to, Marks1(what, sets, to)
  PROVE  Types'
<1>1. /\ UNCHANGED <<disk, list, view, page, history, latest, marksOf, writes, faults>> /\ ops' \in 0..MaxOps
      /\ marked' \subseteq Sessions /\ raced' \in BOOLEAN
  <2>1. /\ UNCHANGED <<disk, list, view, page, history, latest, marksOf, writes, faults>> /\ ops' \in 0..MaxOps
        /\ marked' \subseteq Sessions
    BY Bounds DEF Marks1, Mark, Turn, Types, TypeOK
  <2>2. raced' \in BOOLEAN
    BY Zenon DEF Marks1, Mark
  <2> QED
    BY <2>1, <2>2
<1>2. writes' = writes /\ writes \in Nat
  BY <1>1, WritesType
<1>8. PICK new : MarkedCalls(what, sets, new)
  BY MarkCalls
<1>3. /\ calls' = {IF c \in OnMarks THEN Unclean(c) ELSE c : c \in calls} \cup new
      /\ calls' \subseteq Calls /\ IsFiniteSet(calls') /\ \A c \in new : c.at = 0
  BY <1>8 DEF MarkedCalls
<1>4. \A c \in calls : Unclean(c).at = c.at /\ Unclean(c).what = c.what
  BY DEF Types, Calls, Unclean
<1>5. \A c \in calls' : c.at <= writes
  BY <1>2, <1>3, <1>4, CallsRead
<1>6. \A c \in calls' : /\ c.n \in Nat /\ c.what \in Whats /\ c.project \in Projects
                        /\ {c.after, c.next} \subseteq Cursors /\ c.ids \subseteq Sessions
                        /\ {c.before, c.lost} \subseteq SUBSET Sessions /\ c.at \in 0..writes
  <2>1. calls' \in SUBSET Calls
    BY <1>3
  <2> QED
    BY <1>2, <1>5, <2>1, CallFields
<1>7. (loading' => \E c \in calls' : c.what \in {"initial", "all"}) /\ (loadingMore' => \E c \in calls' : c.what = "more")
  <2>1. \A c \in calls : c \notin OnMarks => c \in calls'
    BY <1>3
  <2> QED
    BY <1>1, <2>1 DEF Types, TypeOK, OnMarks, page
<1>9. TypeOK'
  BY <1>1, <1>2, <1>6, <1>7 DEF Types, TypeOK, disk, view, page, history
<1> QED
  BY <1>1, <1>2, <1>3, <1>9 DEF Types, disk
LEMMA TypesServe ==
  ASSUME Types, NEW c \in calls, Serve(c)
  PROVE  Types'
<1>1. /\ c \in Calls /\ ~c.served
      /\ UNCHANGED <<mtime, wrote, list, view, page, marking, history, latest, counts>>
  BY Serving
<1>2. writes' = writes /\ writes \in Nat
  BY <1>1, WritesType DEF counts
<1>3. marks' \in [Projects -> SUBSET Sessions]
  <2>1. /\ marks \in [Projects -> SUBSET Sessions]
        /\ marks[c.project] \cup c.ids \in SUBSET Sessions /\ marks[c.project] \ c.ids \in SUBSET Sessions
    BY <1>1 DEF Calls, Types, TypeOK
  <2>2. \/ marks' = marks
        \/ marks' = [marks EXCEPT ![c.project] = marks[c.project] \cup c.ids]
        \/ marks' = [marks EXCEPT ![c.project] = marks[c.project] \ c.ids]
    BY Serving
  <2> QED
    BY <2>1, <2>2
<1>4. /\ calls' \subseteq Calls /\ IsFiniteSet(calls') /\ \A d \in calls' : d.at <= writes
      /\ \A d \in calls : d # c \/ c.what \notin {"mark", "unmark"} => \E e \in calls' : e.what = d.what
  <2>0. Rest(c) \subseteq calls /\ \A d \in calls : d # c => d \in Rest(c)
    BY DEF Rest
  <2>1. CASE c.what \in {"mark", "unmark"}
    <3>1. calls' = Rest(c)
      BY <2>1, Serving
    <3> QED
      BY <1>1, <2>0, <2>1, <3>1, FewerCalls, CallsRead
  <2>2. CASE c.what \notin {"mark", "unmark"}
    <3>1. PICK d \in Calls : calls' = Rest(c) \cup {d} /\ d.what = c.what /\ d.at \in {c.at, writes}
      BY <2>2, Serving
    <3>2. d.at <= writes
      BY <1>2, <3>1, CallsRead
    <3> QED
      BY <2>0, <3>1, <3>2, FewerCalls, CallsRead
  <2> QED
    BY <2>1, <2>2
<1>5. \A d \in calls' : /\ d.n \in Nat /\ d.what \in Whats /\ d.project \in Projects
                        /\ {d.after, d.next} \subseteq Cursors /\ d.ids \subseteq Sessions
                        /\ {d.before, d.lost} \subseteq SUBSET Sessions /\ d.at \in 0..writes
  BY <1>2, <1>4, CallFields
<1>6. (loading' => \E d \in calls' : d.what \in {"initial", "all"}) /\ (loadingMore' => \E d \in calls' : d.what = "more")
  BY <1>1, <1>4 DEF Types, TypeOK, page
<1>7. TypeOK'
  BY <1>1, <1>2, <1>3, <1>5, <1>6 DEF Types, TypeOK, view, page, marking, history, counts
<1> QED
  BY <1>1, <1>2, <1>4, <1>7 DEF Types

LEMMA TypesCli == Types /\ (\E s \in Sessions : CliWrite(s) \/ Vanish(s)) => Types'
<1> SUFFICES ASSUME Types, NEW s \in Sessions, CliWrite(s) \/ Vanish(s) PROVE Types'
  OBVIOUS
<1>1. /\ UNCHANGED <<marks, list, view, page, marking, history, latest, calls, ops, faults>>
      /\ writes' = writes + 1 /\ writes < MaxWrites /\ wrote' = [wrote EXCEPT ![s] = writes']
      /\ \E time \in Nat : mtime' = [mtime EXCEPT ![s] = time]
  BY DEF CliWrite, Vanish, Touch
<1>2. writes' = writes + 1 /\ writes \in Nat /\ writes' \in 0..MaxWrites
  BY <1>1, WritesType, Bounds
<1>3. PICK n \in Nat : n = writes + 1
  BY <1>2
<1>4. mtime' \in [Sessions -> Nat] /\ wrote' \in [Sessions -> 0..writes']
  <2>1. mtime \in [Sessions -> Nat] /\ wrote \in [Sessions -> 0..writes]
    BY DEF Types, TypeOK
  <2>2. PICK time \in Nat : mtime' = [mtime EXCEPT ![s] = time]
    BY <1>1
  <2>3. mtime' \in [Sessions -> Nat]
    BY <2>1, <2>2
  <2>4. writes' \in 0..writes' /\ \A i \in 0..writes : i \in 0..writes'
    BY <1>2
  <2>5. wrote \in [Sessions -> 0..writes'] /\ wrote' = [wrote EXCEPT ![s] = writes']
    BY <1>1, <2>1, <2>4
  <2> QED
    BY <2>3, <2>4, <2>5
<1>5. calls' = calls /\ calls \subseteq Calls /\ \A d \in calls : d.at <= n
  <2>1. \A d \in calls : d.at \in Nat /\ d.at <= writes
    BY CallsRead DEF Types, Calls
  <2> QED
    BY <1>1, <1>2, <1>3, <2>1 DEF Types
<1>6. \A d \in calls : /\ d.n \in Nat /\ d.what \in Whats /\ d.project \in Projects
                        /\ {d.after, d.next} \subseteq Cursors /\ d.ids \subseteq Sessions
                        /\ {d.before, d.lost} \subseteq SUBSET Sessions /\ d.at \in 0..n
  <2>1. calls \in SUBSET Calls /\ n \in Nat
    BY <1>3, <1>5
  <2> QED
    BY <1>5, <2>1, CallFields
<1>7. refreshed \in [Projects -> 0..n]
  <2>1. refreshed \in [Projects -> 0..writes]
    BY DEF Types, TypeOK
  <2>2. \A i \in 0..writes : i \in 0..n
    BY <1>2, <1>3
  <2> QED
    BY <2>1, <2>2
<1>8. TypeOK'
  <2>1. writes' = n
    BY <1>2, <1>3
  <2> QED
    BY <1>1, <1>2, <1>4, <1>5, <1>6, <1>7, <2>1 DEF Types, TypeOK, view, page, marking, history
<1> QED
  BY <1>1, <1>8 DEF Types

\* An answer is typed by the call it answers.
LEMMA AnswerTypes ==
  ASSUME Types, NEW c \in calls, Answer(c)
  PROVE  /\ faults' \in 0..MaxFaults
         /\ rows' \in [Sessions -> Nat] /\ cursor' \in Cursors /\ listOf' \in Reads
         /\ {loading', loadingMore', mixed', raced'} \subseteq BOOLEAN
         /\ marked' \subseteq Sessions /\ skipped' \subseteq Sessions /\ cached' \subseteq Projects
         /\ marksOf' \in Projects \cup {None}
         /\ refreshed' \in [Projects -> 0..writes]
         /\ loading' => loading /\ c.what \notin {"initial", "all"}
         /\ loadingMore' => loadingMore /\ c.what # "more"
<1> DEFINE Result ==
         /\ faults' \in 0..MaxFaults
         /\ rows' \in [Sessions -> Nat] /\ cursor' \in Cursors /\ listOf' \in Reads
         /\ {loading', loadingMore', mixed', raced'} \subseteq BOOLEAN
         /\ marked' \subseteq Sessions /\ skipped' \subseteq Sessions /\ cached' \subseteq Projects
         /\ marksOf' \in Projects \cup {None}
         /\ refreshed' \in [Projects -> 0..writes]
         /\ loading' => loading /\ c.what \notin {"initial", "all"}
         /\ loadingMore' => loadingMore /\ c.what # "more"
<1>0. /\ faults \in 0..MaxFaults
      /\ rows \in [Sessions -> Nat] /\ cursor \in Cursors /\ listOf \in Reads
      /\ {loading, loadingMore, mixed, raced} \subseteq BOOLEAN
      /\ marked \subseteq Sessions /\ skipped \subseteq Sessions /\ cached \subseteq Projects
      /\ {selected, marksOf} \subseteq Projects \cup {None}
      /\ refreshed \in [Projects -> 0..writes]
  BY DEF Types, TypeOK
<1>1. /\ c.project \in Projects /\ c.ids \subseteq Sessions /\ c.before \subseteq Sessions /\ c.next \in Cursors
      /\ c.lost \subseteq Sessions /\ c.at \in Nat
      /\ c.at \in 0..writes /\ c.clean \in BOOLEAN /\ [project |-> c.project, at |-> c.at] \in Reads
  <2>1. c \in Calls /\ c.at <= writes /\ writes \in Nat
    BY CallsRead, WritesType DEF Types
  <2> QED
    BY <2>1 DEF Calls, Reads
<1>2. \A ss : Rows(ss) \in [Sessions -> Nat] /\ Appended(ss) \in [Sessions -> Nat]
  BY <1>0 DEF Rows, Appended
<1>3. CASE InitialAnswer(c)
  <2>1. LoadMarks(Rest(c)) => /\ {marksOf', marksOf} \subseteq Projects \cup {None} /\ marked' \subseteq Sessions
                              /\ raced' \in BOOLEAN
    BY <1>0 DEF LoadMarks, marking
  <2> QED
    BY <1>0, <1>1, <1>2, <1>3, <2>1 DEF InitialAnswer, Answered, counts
<1>4. CASE MoreAnswer(c)
  <2>1. mixed' \in BOOLEAN
    BY <1>4, Zenon DEF MoreAnswer
  <2>2. listOf' \in Reads
    <3>1. listOf' = listOf \/ (listOf # None /\ listOf' = [listOf EXCEPT !.at = c.at])
      BY <1>4 DEF MoreAnswer
    <3> QED
      BY <1>0, <1>1, <3>1 DEF Reads
  <2> QED
    BY <1>0, <1>1, <1>2, <1>4, <2>1, <2>2 DEF MoreAnswer, Answered, counts, view, marking
<1>5. CASE RefreshAnswer(c)
  <2>1. /\ UNCHANGED <<loading, loadingMore, marking, counts>> /\ c.what = "refresh"
        /\ \/ /\ rows' = Rows(c.ids) /\ cursor' = c.next /\ cached' = cached \cup {c.project}
              /\ listOf' = [project |-> c.project, at |-> c.at] /\ mixed' = FALSE /\ skipped' = {}
              /\ refreshed' = [refreshed EXCEPT ![c.project] = c.at]
           \/ UNCHANGED <<rows, cursor, cached, history>>
    BY <1>5 DEF RefreshAnswer, Answered
  <2>2. /\ rows' \in [Sessions -> Nat] /\ cursor' \in Cursors /\ listOf' \in Reads /\ mixed' \in BOOLEAN
        /\ skipped' \subseteq Sessions
        /\ cached' \subseteq Projects
    <3>1. CASE /\ rows' = Rows(c.ids) /\ cursor' = c.next /\ cached' = cached \cup {c.project}
               /\ listOf' = [project |-> c.project, at |-> c.at] /\ mixed' = FALSE /\ skipped' = {}
      BY <1>0, <1>1, <1>2, <3>1
    <3>2. CASE UNCHANGED <<rows, cursor, cached, history>>
      BY <1>0, <3>2 DEF history
    <3> QED
      BY <2>1, <3>1, <3>2
  <2>3. refreshed' \in [Projects -> 0..writes]
    BY <1>0, <1>1, <2>1 DEF history
  <2> QED
    BY <1>0, <2>1, <2>2, <2>3 DEF counts, marking
<1>6. CASE AllAnswer(c)
  BY <1>0, <1>1, <1>2, <1>6 DEF AllAnswer, Answered, counts, view, marking
<1>7. CASE ConfigAnswer(c)
  <2>1. raced' \in BOOLEAN
    BY <1>1, <1>7, Zenon DEF ConfigAnswer
  <2> QED
    BY <1>0, <1>1, <1>7, <2>1 DEF ConfigAnswer, Answered, counts, view, page, history
<1>8. CASE ByIdsAnswer(c)
  BY <1>0, <1>1, <1>2, <1>8 DEF ByIdsAnswer, Answered, counts, view, marking, history
<1>9. CASE Fails(c)
  <2>1. loading' \in BOOLEAN /\ loadingMore' \in BOOLEAN
    BY <1>9, Zenon DEF Fails, SpinnersWithout
  <2>2. (loading' => loading /\ c.what \notin {"initial", "all"}) /\ (loadingMore' => loadingMore /\ c.what # "more")
    BY <1>9 DEF Fails, SpinnersWithout
  <2>3. faults' \in 0..MaxFaults /\ UNCHANGED <<view, rows, cursor, history>>
    <3>1. faults < MaxFaults /\ faults' = faults + 1 /\ UNCHANGED <<view, rows, cursor, history>>
      BY <1>9 DEF Fails
    <3> QED
      BY <1>0, <3>1, Bounds
  <2>4. marked' \subseteq Sessions /\ marksOf' \in Projects \cup {None} /\ raced' \in BOOLEAN
    <3>1. CASE c.what \in {"config", "byids"}
      BY <1>0, <1>9, <3>1 DEF Fails
    <3>2. CASE c.what \in {"mark", "unmark"}
      <4>1. raced' \in BOOLEAN
        BY <1>9, <3>2, Zenon DEF Fails
      <4> QED
        BY <1>0, <1>1, <1>9, <3>2, <4>1 DEF Fails, MarkedBefore
    <3>3. CASE c.what \notin {"config", "byids", "mark", "unmark"}
      BY <1>0, <1>9, <3>3 DEF Fails, marking
    <3> QED
      BY <3>1, <3>2, <3>3
  <2> QED
    BY <1>0, <2>1, <2>2, <2>3, <2>4 DEF view, history
<1> QED
  BY <1>3, <1>4, <1>5, <1>6, <1>7, <1>8, <1>9 DEF Answer

LEMMA TypesAnswer ==
  ASSUME Types, NEW c \in calls, Answer(c)
  PROVE  Types'
<1>1. UNCHANGED <<disk, list, selected, worktree, latest, ops, writes>>
  BY Answering
<1>2. writes' = writes /\ writes \in Nat
  BY <1>1, WritesType
<1>3. /\ calls' \subseteq Calls /\ IsFiniteSet(calls') /\ Rest(c) \subseteq calls' /\ \A d \in calls' : d.at <= writes
  <2>1. Rest(c) \subseteq calls
    BY DEF Rest
  <2>2. CASE calls' = Rest(c)
    <3>1. PICK d : d = c
      OBVIOUS
    <3>2. d \in Calls
      BY <3>1, Answering
    <3> QED
      BY <2>1, <2>2, <3>2, FewerCalls, CallsRead
  <2>3. CASE \E d \in Calls : calls' = Rest(c) \cup {d} /\ d.at = 0
    <3>1. PICK d \in Calls : calls' = Rest(c) \cup {d} /\ d.at = 0
      BY <2>3
    <3>2. Rest(c) \cup {d} \subseteq Calls /\ IsFiniteSet(Rest(c) \cup {d})
      BY <2>1, FewerCalls
    <3>3. \A e \in Rest(c) \cup {d} : e.at <= writes
      BY <1>2, <2>1, <3>1, CallsRead
    <3> QED
      BY <3>1, <3>2, <3>3
  <2> QED
    BY <2>2, <2>3, Answering
<1>4. \A d \in calls' : /\ d.n \in Nat /\ d.what \in Whats /\ d.project \in Projects
                        /\ {d.after, d.next} \subseteq Cursors /\ d.ids \subseteq Sessions
                        /\ {d.before, d.lost} \subseteq SUBSET Sessions /\ d.at \in 0..writes
  BY <1>2, <1>3, CallFields
<1>5. (loading' => \E d \in calls' : d.what \in {"initial", "all"}) /\ (loadingMore' => \E d \in calls' : d.what = "more")
  <2>1. \A d \in calls : d.what # c.what => d \in calls'
    BY <1>3 DEF Rest
  <2>2. loading' => loading /\ c.what \notin {"initial", "all"}
    BY AnswerTypes
  <2>3. loadingMore' => loadingMore /\ c.what # "more"
    BY AnswerTypes
  <2> QED
    BY <2>1, <2>2, <2>3 DEF Types, TypeOK
<1>6. TypeOK'
  BY <1>1, <1>2, <1>4, <1>5, AnswerTypes DEF Types, TypeOK, disk
<1> QED
  BY <1>1, <1>2, <1>3, <1>6 DEF Types, disk
-----------------------------------------------------------------------------
LEMMA Steps ==
  ASSUME Types, [Next]_vars
  PROVE  \/ Browsing
         \/ RefreshSessionsInPlace
         \/ \E what, sets, to : Marks1(what, sets, to)
         \/ \E c \in calls : Serve(c) \/ Answer(c)
         \/ \E s \in Sessions : CliWrite(s) \/ Vanish(s)
         \/ UNCHANGED vars
  BY Marking1 DEF Next, User, Browsing

LEMMA InitTypes == Init => Types
<1> SUFFICES ASSUME Init PROVE Types
  OBVIOUS
<1>1. 0 \in 0..MaxOps /\ 0 \in 0..MaxWrites /\ 0 \in 0..MaxFaults /\ 0 \in 0..writes /\ writes = 0
  BY Bounds DEF Init
<1>2. IsFiniteSet(calls) /\ calls = {}
  BY FS_EmptySet DEF Init
<1>3. mtime \in [Sessions -> Nat] /\ wrote \in [Sessions -> 0..writes]
  BY <1>1 DEF Init
<1>4. marks \in [Projects -> SUBSET Sessions]
  BY DEF Init
<1>5. /\ rows \in [Sessions -> Nat] /\ latest \in [Projects -> Nat] /\ refreshed \in [Projects -> 0..writes]
      /\ cursor \in Cursors /\ listOf \in Reads
  BY <1>1 DEF Init, NoRows, Cursors, Reads
<1> QED
  BY <1>1, <1>2, <1>3, <1>4, <1>5 DEF Init, Types, TypeOK

LEMMA NextTypes == Types /\ [Next]_vars => Types'
<1> SUFFICES ASSUME Types, [Next]_vars PROVE Types'
  OBVIOUS
<1>1. CASE UNCHANGED vars
  BY <1>1 DEF Types, TypeOK, vars, disk, view, page, marking, history, counts
<1> QED
  BY <1>1, Steps, TypesBrowse, TypesRefresh, TypesMark, TypesServe, TypesAnswer, TypesCli

\* Types, and no spinner of the list turns without a call under way that turns
\* it off: fetchSessionsInitial, fetchSessionsMore and fetchSessions.
THEOREM ListsTypeCorrect == Spec => []TypeOK
<1>1. Types => TypeOK
  BY DEF Types
<1> QED
  BY <1>1, InitTypes, NextTypes, PTL DEF Spec
-----------------------------------------------------------------------------
(***************************************************************************)
(* Refreshes.                                                              *)
(***************************************************************************)
\* A step that neither starts, serves nor answers a refresh.
LEMMA NoRefresh ==
  ASSUME Refreshes, UNCHANGED <<latest, refreshed>>, \A d \in calls' : d.what = "refresh" => d \in calls
  PROVE  Refreshes'
  BY DEF Refreshes, IsLatest

LEMMA NextRefreshes == Types /\ Refreshes /\ [Next]_vars => Refreshes'
<1> SUFFICES ASSUME Types, Refreshes, [Next]_vars PROVE Refreshes'
  OBVIOUS
<1>1. CASE Browsing
  <2>1. \A d \in calls' : d.what = "refresh" => d \in calls
    BY <1>1, Browse DEF Asked
  <2> QED
    BY <1>1, <2>1, Browse, NoRefresh
<1>2. CASE RefreshSessionsInPlace
  <2>1. PICK d \in Calls : /\ calls' = calls \cup {d} /\ ~d.served
                           /\ d.what = "refresh" /\ d.project = selected /\ d.n = latest[selected] + 1
    BY <1>2, Refreshing
  <2>2. /\ latest' = [latest EXCEPT ![selected] = latest[selected] + 1] /\ latest \in [Projects -> Nat]
        /\ refreshed' = refreshed /\ selected \in Projects
    BY <1>2, Refreshing DEF history, Types, TypeOK
  <2>3. \A c \in calls : c.what = "refresh" =>
          /\ c.n \in Nat /\ c.n <= latest[c.project] /\ c.project \in Projects
          /\ c.n <= latest'[c.project] /\ (c.n = latest'[c.project] => c.n = latest[c.project])
          /\ (c.project = selected => c.n # d.n)
    <3>1. \A c \in calls : c.what = "refresh" => c.n \in Nat /\ c.n <= latest[c.project] /\ c.project \in Projects
      BY DEF Refreshes, Types, Calls
    <3> QED
      BY <2>1, <2>2, <3>1
  <2>4. d.n = latest'[d.project]
    BY <2>1, <2>2
  <2> QED
    BY <2>1, <2>2, <2>3, <2>4 DEF Refreshes, IsLatest, Calls
<1>3. ASSUME NEW what, NEW sets, NEW to, Marks1(what, sets, to) PROVE Refreshes'
  <2>1. PICK new : MarkedCalls(what, sets, new)
    BY <1>3, MarkCalls
  <2>2. \A d \in calls : Unclean(d).what = d.what
    BY DEF Types, Calls, Unclean
  <2>3. \A d \in calls' : d.what = "refresh" => d \in calls
    BY <1>3, <2>1, <2>2 DEF MarkedCalls, Marks1, OnMarks
  <2>4. UNCHANGED <<latest, refreshed>>
    BY <1>3 DEF Marks1, Mark, history
  <2> QED
    BY <2>3, <2>4, NoRefresh
<1>4. ASSUME NEW c \in calls, Serve(c) PROVE Refreshes'
  <2>1. UNCHANGED <<latest, refreshed>>
    BY <1>4, Serving DEF history
  <2>2. CASE c.what # "refresh"
    <3>1. \A d \in calls' : d.what = "refresh" => d \in calls
      BY <1>4, <2>2, Serving DEF Rest
    <3> QED
      BY <2>1, <3>1, NoRefresh
  <2>3. CASE c.what = "refresh"
    <3>1. PICK d \in Calls : /\ calls' = Rest(c) \cup {d}
                             /\ d.n = c.n /\ d.what = c.what /\ d.project = c.project /\ d.at = writes
      BY <1>4, <2>3, Serving DEF Lists
    <3>2. d.at >= refreshed[d.project] /\ d.n <= latest[d.project]
      <4>1. d.project \in Projects
        BY DEF Calls
      <4> QED
        BY <2>3, <3>1, <4>1, WritesType DEF Types, TypeOK, Refreshes
    <3>3. \A e \in Rest(c) : ~(e.what = "refresh" /\ e.project = d.project /\ e.n = d.n)
      BY <2>3, <3>1 DEF Refreshes, Rest
    <3> QED
      BY <2>1, <3>1, <3>2, <3>3 DEF Refreshes, IsLatest, Rest
  <2> QED
    BY <2>2, <2>3
<1>5. ASSUME NEW c \in calls, Answer(c) PROVE Refreshes'
  <2>1. latest' = latest /\ \A d \in calls' : d.what = "refresh" => d \in Rest(c)
    BY <1>5, Answering
  <2>2. CASE refreshed' = refreshed
    BY <2>1, <2>2, NoRefresh DEF Rest
  <2>3. CASE refreshed' # refreshed
    <3>1. c.what = "refresh" /\ IsLatest(c) /\ refreshed' = [refreshed EXCEPT ![c.project] = c.at]
      BY <1>5, <2>3 DEF Answer, InitialAnswer, MoreAnswer, RefreshAnswer, AllAnswer, ConfigAnswer, ByIdsAnswer, Fails,
                        Answered, history
    <3>2. \A d \in calls' : d.what = "refresh" /\ IsLatest(d) => d.project # c.project
      BY <2>1, <3>1 DEF Refreshes, IsLatest, Rest
    <3>3. \A d \in calls' : d.what = "refresh" /\ IsLatest(d) => refreshed'[d.project] = refreshed[d.project]
      BY <2>1, <3>1, <3>2 DEF Types, TypeOK, Rest, Calls
    <3> QED
      BY <2>1, <3>3 DEF Refreshes, IsLatest, Rest
  <2> QED
    BY <2>2, <2>3
<1>6. CASE \E s \in Sessions : CliWrite(s) \/ Vanish(s)
  BY <1>6, NoRefresh DEF CliWrite, Vanish, Touch, history
<1>7. CASE UNCHANGED vars
  BY <1>7, NoRefresh DEF vars, history
<1> QED
  BY <1>1, <1>2, <1>3, <1>4, <1>5, <1>6, <1>7, Steps

\* A refresh shows what was read no earlier than what an earlier refresh of the
\* project showed: projectRefreshGeneration in refreshSessionsInPlace.
THEOREM ListsRefreshesGoForward == Spec => RefreshNeverGoesBack
<1> DEFINE IInv == Types /\ Refreshes
<1>1. Init => IInv
  BY InitTypes DEF Init, Refreshes
<1>2. IInv /\ [Next]_vars => IInv'
  BY NextTypes, NextRefreshes
<1>3. IInv /\ [Next]_vars => [\A p \in Projects : refreshed'[p] >= refreshed[p]]_vars
  <2> SUFFICES ASSUME Types, Refreshes, Next PROVE \A p \in Projects : refreshed'[p] >= refreshed[p]
    OBVIOUS
  <2>1. \A p \in Projects : refreshed[p] \in Nat
    BY WritesType DEF Types, TypeOK
  <2>2. CASE refreshed' = refreshed
    BY <2>1, <2>2
  <2>3. CASE refreshed' # refreshed
    <3>0. ~Browsing /\ ~RefreshSessionsInPlace /\ \A what, sets, to : ~Marks1(what, sets, to)
      BY <2>3, Browse, Refreshing DEF Marks1, Mark, history
    <3>1. PICK c \in calls : RefreshAnswer(c)
      <4>1. PICK c \in calls : Answer(c)
        BY <2>3, <3>0, Steps DEF Serve, CliWrite, Vanish, Touch, vars, history
      <4> QED
        BY <2>3, <4>1 DEF Answer, InitialAnswer, MoreAnswer, AllAnswer, ConfigAnswer, ByIdsAnswer, Fails, history
    <3>2. c.at >= refreshed[c.project] /\ refreshed' = [refreshed EXCEPT ![c.project] = c.at]
      BY <2>3, <3>1 DEF RefreshAnswer, Answered, Refreshes, history
    <3>3. refreshed \in [Projects -> 0..writes] /\ c.project \in Projects /\ c.at \in Nat
      BY DEF Types, TypeOK, Calls
    <3> QED
      BY <2>1, <3>2, <3>3
  <2> QED
    BY <2>2, <2>3
<1> QED
  BY <1>1, <1>2, <1>3, PTL DEF Spec, RefreshNeverGoesBack
-----------------------------------------------------------------------------
(***************************************************************************)
(* Marks.                                                                  *)
(***************************************************************************)
LEMMA TouchedNone == Touched({}) = {}
  BY DEF Touched

LEMMA TouchedOne ==
  ASSUME NEW some, NEW c \in some
  PROVE  Touched(some) = Touched(some \ {c}) \cup c.ids
  BY DEF Touched

\* Nothing that changes marks is under way: they are what the store shows.
LEMMA AtRest ==
  ASSUME Marks, Marking = {}, marksOf # None, ~raced
  PROVE  marked = marks[marksOf]
<1>1. Touched(Marking) = {}
  BY TouchedNone
<1>2. Outcome
  BY DEF Marks
<1>3. marks[marksOf] \cup {} = marks[marksOf] /\ marks[marksOf] \ {} = marks[marksOf]
  OBVIOUS
<1> QED
  BY <1>1, <1>2, <1>3 DEF Outcome

\* The other way round, after a step that leaves no such call.
LEMMA Rests ==
  ASSUME Marking' = {}, marked' = marks'[marksOf']
  PROVE  Outcome'
<1>1. Touched(Marking') = {}
  BY TouchedNone
<1>2. marks'[marksOf'] \cup {} = marks'[marksOf']
  OBVIOUS
<1> QED
  BY <1>1, <1>2 DEF Outcome

\* A step that is not about marks.
LEMMA NoMarks ==
  ASSUME Marks, UNCHANGED <<marks, marked, marksOf, raced>>, OnMarks' = OnMarks
  PROVE  Marks'
<1>1. Marking' = Marking
  BY DEF Marking, OnMarks
<1>2. Outcome' <=> Outcome
  BY <1>1 DEF Outcome
<1>3. \A c \in calls' : c.what = "config" => c \in calls
  BY DEF OnMarks
<1> QED
  BY <1>1, <1>2, <1>3 DEF Marks

LEMMA MarksOnMark ==
  ASSUME Types, Marks, NEW what, NEW sets, NEW to, Marks1(what, sets, to)
  PROVE  Marks'
<1>1. PICK new : MarkedCalls(what, sets, new)
  BY MarkCalls
<1>2. \A c \in calls : Unclean(c).what = c.what /\ Unclean(c).clean = FALSE
  BY DEF Types, Calls, Unclean
<1>3. /\ calls' = {IF c \in OnMarks THEN Unclean(c) ELSE c : c \in calls} \cup new
      /\ \A c \in new : /\ c.what = what /\ c.project = selected /\ c.before = marked
                        /\ (c.clean => OnMarks = {} /\ new = {c})
      /\ {c.ids : c \in new} = sets /\ what \in {"mark", "unmark"}
  BY <1>1 DEF MarkedCalls, Marks1
<1>4. \A c \in calls' : c.what \in {"mark", "unmark", "config"} => c \in new \/ c.clean = FALSE
  BY <1>2, <1>3 DEF OnMarks
<1>5. OnMarks = {} => Marking' = new /\ Marking = {}
  BY <1>2, <1>3 DEF OnMarks, Marking
<1>6. \A c \in Marking' : c.clean => Marking' = {c}
  BY <1>3, <1>4, <1>5 DEF Marking
<1>7. \A c \in calls' : ~(c.what = "config" /\ c.clean)
  BY <1>3, <1>4
<1>8. ASSUME marksOf' # None, ~raced'
      PROVE  /\ \A c \in Marking' : c.project = marksOf'
             /\ Outcome'
             /\ \A c \in Marking' : c.clean => c.before = marks'[marksOf']
  <2>1. /\ OnMarks = {} /\ ~raced /\ marksOf = selected /\ marksOf' = marksOf /\ marks' = marks /\ marked' = to
        /\ to = IF what = "mark" THEN marked \cup UNION sets ELSE marked \ UNION sets
    BY <1>8 DEF Marks1, Mark, disk
  <2>2. Marking' = new /\ marked = marks[marksOf]
    BY <1>5, <1>8, <2>1, AtRest
  <2>3. Touched(Marking') = UNION sets
    BY <1>3, <2>2 DEF Touched
  <2>4. Outcome'
    BY <1>3, <2>1, <2>2, <2>3 DEF Outcome
  <2> QED
    BY <1>3, <2>1, <2>2, <2>4
<1> QED
  BY <1>6, <1>7, <1>8 DEF Marks

LEMMA MarksOnServe ==
  ASSUME Types, Marks, NEW c \in calls, Serve(c)
  PROVE  Marks'
<1>1. c \in Calls /\ UNCHANGED <<marked, marksOf, raced>>
  BY Serving DEF marking
<1>2. CASE c.what \in {"mark", "unmark"}
  <2>1. calls' = Rest(c) /\ c \in Marking /\ Marking' = Marking \ {c}
    BY <1>2, Serving DEF Marking, Rest
  <2>2. \A d \in Marking' : ~d.clean
    BY <2>1 DEF Marks
  <2>3. \A d \in calls' : ~(d.what = "config" /\ d.clean)
    BY <2>1 DEF Marks, Rest
  <2>4. ASSUME marksOf # None, ~raced
        PROVE  (\A d \in Marking' : d.project = marksOf) /\ Outcome'
    <3>1. (\A d \in Marking : d.project = marksOf) /\ Outcome
      BY <2>4 DEF Marks
    <3>2. c.project = marksOf /\ marksOf \in Projects /\ marks \in [Projects -> SUBSET Sessions]
      BY <1>1, <2>1, <3>1 DEF Calls, Types, TypeOK
    <3>3. Touched(Marking) = Touched(Marking') \cup c.ids
      BY <2>1, TouchedOne
    <3>4. CASE c.what = "mark"
      <4>1. (\A d \in Marking : d.what = "mark") /\ marked = marks[marksOf] \cup Touched(Marking)
        BY <2>1, <3>1, <3>4 DEF Outcome
      <4>2. marks'[marksOf] = marks[marksOf] \cup c.ids
        BY <3>2, <3>4, Serving
      <4>3. marked' = marks'[marksOf'] \cup Touched(Marking')
        BY <1>1, <3>3, <4>1, <4>2
      <4> QED
        BY <2>1, <3>1, <4>1, <4>3 DEF Outcome
    <3>5. CASE c.what = "unmark"
      <4>1. (\A d \in Marking : d.what = "unmark") /\ marked = marks[marksOf] \ Touched(Marking)
        BY <2>1, <3>1, <3>5 DEF Outcome
      <4>2. marks'[marksOf] = marks[marksOf] \ c.ids
        BY <3>2, <3>5, Serving
      <4>3. marked' = marks'[marksOf'] \ Touched(Marking')
        BY <1>1, <3>3, <4>1, <4>2
      <4> QED
        BY <2>1, <3>1, <4>1, <4>3 DEF Outcome
    <3> QED
      BY <1>2, <3>4, <3>5
  <2> QED
    BY <1>1, <2>2, <2>3, <2>4 DEF Marks
<1>3. CASE c.what \notin {"mark", "unmark"}
  <2>1. PICK d \in Calls : /\ calls' = Rest(c) \cup {d} /\ marks' = marks /\ d.what = c.what
                           /\ d.project = c.project /\ d.clean = c.clean
                           /\ (c.what = "config" => d.ids = marks[c.project])
    BY <1>3, Serving
  <2>2. Marking' = Marking
    BY <1>3, <2>1 DEF Marking, Rest
  <2>3. Outcome' <=> Outcome
    BY <1>1, <2>1, <2>2 DEF Outcome
  <2>4. \A e \in calls' : e.what = "config" /\ e.clean =>
          Marking' = {} /\ (e.served => e.ids = marks'[e.project])
    BY <2>1, <2>2 DEF Marks, Rest
  <2> QED
    BY <1>1, <2>1, <2>2, <2>3, <2>4 DEF Marks
<1> QED
  BY <1>2, <1>3
LEMMA MarksOnAnswer ==
  ASSUME Types, Marks, NEW c \in calls, Answer(c)
  PROVE  Marks'
<1>0. marks' = marks
  BY Answering DEF disk
<1>1. CASE InitialAnswer(c)
  <2>1. c.what = "initial" /\ LoadMarks(Rest(c))
    BY <1>1 DEF InitialAnswer, Answered
  <2>2. Marking' = Marking
    BY <1>1, <2>1, Answering DEF Marking, Rest
  <2>3. \A d \in calls' : d.what = "config" /\ d.clean => Marking = {} /\ (d.served => d.ids = marks[d.project])
    <3>1. \A d \in Rest(c) : d.what = "config" /\ d.clean => Marking = {} /\ (d.served => d.ids = marks[d.project])
      BY DEF Marks, Rest
    <3>2. CASE calls' = Rest(c)
      BY <3>1, <3>2
    <3>3. CASE \E d \in Calls : calls' = Rest(c) \cup {d} /\ ~d.served /\ d.clean = (Marking = {})
      <4>1. PICK d \in Calls : calls' = Rest(c) \cup {d} /\ ~d.served /\ d.clean = (Marking = {})
        BY <3>3
      <4>2. d.clean => Marking = {}
        BY <4>1
      <4> QED
        BY <3>1, <4>1, <4>2
    <3> QED
      BY <2>1, <3>2, <3>3, Answering
  <2>4. marksOf' = None \/ UNCHANGED marking
    BY <2>1 DEF LoadMarks
  <2>5. CASE marksOf' = None
    BY <1>0, <2>2, <2>3, <2>5 DEF Marks
  <2>6. CASE UNCHANGED marking
    <3>1. Outcome' <=> Outcome
      BY <1>0, <2>2, <2>6 DEF Outcome, marking
    <3> QED
      BY <1>0, <2>2, <2>3, <2>6, <3>1 DEF Marks, marking
  <2> QED
    BY <2>4, <2>5, <2>6
<1>2. CASE MoreAnswer(c)
  BY <1>0, <1>2, NoMarks DEF MoreAnswer, Answered, Rest, OnMarks, marking
<1>3. CASE RefreshAnswer(c)
  BY <1>0, <1>3, NoMarks DEF RefreshAnswer, Answered, Rest, OnMarks, marking
<1>4. CASE AllAnswer(c)
  BY <1>0, <1>4, NoMarks DEF AllAnswer, Answered, Rest, OnMarks, marking
<1>5. CASE ByIdsAnswer(c)
  BY <1>0, <1>5, NoMarks DEF ByIdsAnswer, Answered, Rest, OnMarks, marking
<1>6. CASE ConfigAnswer(c)
  <2>1. c.what = "config" /\ c.served /\ marked' = c.ids /\ marksOf' = c.project /\ raced' = ~c.clean
    BY <1>6 DEF ConfigAnswer, Answered
  <2>2. Marking' = Marking /\ \A d \in calls' : d.what = "config" => d \in calls
    BY <1>6, <2>1, Answering DEF Marking, Rest
  <2>3. c.clean => Marking = {} /\ c.ids = marks[c.project]
    BY <2>1 DEF Marks
  <2>4. c.clean => Outcome'
    BY <1>0, <2>1, <2>2, <2>3, Rests
  <2> QED
    BY <1>0, <2>1, <2>2, <2>3, <2>4 DEF Marks
<1>7. CASE Fails(c)
  <2>0. calls' = Rest(c) /\ marks' = marks
    BY <1>0, <1>7 DEF Fails
  <2>1. CASE c.what \in {"config", "byids"}
    <3>1. marksOf' = None /\ Marking' = Marking /\ calls' \subseteq calls
      BY <1>7, <2>0, <2>1 DEF Fails, Marking, Rest
    <3> QED
      BY <2>0, <3>1 DEF Marks
  <2>2. CASE c.what \in {"mark", "unmark"}
    <3>1. /\ marked' = c.before /\ marksOf' = marksOf /\ (~raced' => ~raced /\ c.clean)
          /\ c \in Marking /\ Marking' = Marking \ {c} /\ calls' \subseteq calls
      BY <1>7, <2>0, <2>2 DEF Fails, MarkedBefore, Marking, Rest
    <3>2. (\A d \in Marking' : ~d.clean) /\ \A d \in calls' : ~(d.what = "config" /\ d.clean)
      BY <3>1 DEF Marks
    <3>3. ASSUME marksOf' # None, ~raced' PROVE Marking' = {} /\ Outcome'
      <4>1. Marking' = {} /\ c.before = marks[marksOf]
        BY <3>1, <3>3 DEF Marks
      <4> QED
        BY <2>0, <3>1, <4>1, Rests
    <3> QED
      BY <3>2, <3>3 DEF Marks
  <2>3. CASE c.what \notin {"config", "byids", "mark", "unmark"}
    BY <1>7, <2>0, <2>3, NoMarks DEF Fails, marking, OnMarks, Rest
  <2> QED
    BY <2>1, <2>2, <2>3
<1> QED
  BY <1>1, <1>2, <1>3, <1>4, <1>5, <1>6, <1>7 DEF Answer

LEMMA NextMarks == Types /\ Marks /\ [Next]_vars => Marks'
<1> SUFFICES ASSUME Types, Marks, [Next]_vars PROVE Marks'
  OBVIOUS
<1>1. CASE Browsing
  <2>1. UNCHANGED <<marks, marked, marksOf, raced>> /\ OnMarks' = OnMarks
    BY <1>1, Browse DEF OnMarks, Asked
  <2> QED
    BY <2>1, NoMarks
<1>2. CASE RefreshSessionsInPlace
  <2>1. UNCHANGED <<marks, marked, marksOf, raced>> /\ OnMarks' = OnMarks
    BY <1>2, Refreshing DEF OnMarks, disk, marking
  <2> QED
    BY <2>1, NoMarks
<1>3. CASE \E s \in Sessions : CliWrite(s) \/ Vanish(s)
  <2>1. UNCHANGED <<marks, marked, marksOf, raced>> /\ OnMarks' = OnMarks
    BY <1>3 DEF CliWrite, Vanish, Touch, OnMarks, marking
  <2> QED
    BY <2>1, NoMarks
<1>4. CASE UNCHANGED vars
  <2>1. UNCHANGED <<marks, marked, marksOf, raced>> /\ OnMarks' = OnMarks
    BY <1>4 DEF vars, disk, marking, OnMarks
  <2> QED
    BY <2>1, NoMarks
<1> QED
  BY <1>1, <1>2, <1>3, <1>4, Steps, MarksOnMark, MarksOnServe, MarksOnAnswer

\* At rest the pins or hidden sessions on screen are those of the configuration.
THEOREM ListsMarksAgree == Spec => []MarksAgree
<1>1. Init => Types /\ Marks
  BY InitTypes DEF Init, Marks, Marking
<1>2. Types /\ Marks /\ [Next]_vars => Types' /\ Marks'
  BY NextTypes, NextMarks
<1>3. Types /\ Marks => MarksAgree
  <2> SUFFICES ASSUME Types, Marks, OnMarks = {}, selected # None, marksOf = selected, ~raced
               PROVE  marked = marks[selected]
    BY DEF MarksAgree
  <2>1. Marking = {}
    BY DEF Marking, OnMarks
  <2> QED
    BY <2>1, AtRest
<1> QED
  BY <1>1, <1>2, <1>3, PTL DEF Spec
-----------------------------------------------------------------------------
(***************************************************************************)
(* Pages.                                                                  *)
(***************************************************************************)
Reached(s, ss, cur) == s \in ss \/ (cur # None /\ Due(s, cur))

\* Due is what the cursor leads to and what it has lost.
LEMMA DueFrom ==
  ASSUME Types, NEW p, NEW cur \in Cursors, cur # None, NEW s \in Files(p), Due(s, cur)
  PROVE  s \in From(p, cur) \cup Lost(p, cur)
<1>1. s \in Sessions /\ mtime[s] \in Nat /\ s \in Nat /\ cur.ts \in Nat /\ cur.id \in Nat /\ Milli \in Nat \ {0}
  BY Numbered DEF Files, Types, TypeOK, Cursors
<1>2. CASE mtime[s] < cur.ts
  BY <1>2 DEF From
<1>3. CASE mtime[s] = cur.ts /\ ~(cur.id \in Files(p) /\ mtime[cur.id] = cur.ts)
  BY <1>3 DEF Lost
<1>4. CASE mtime[s] = cur.ts /\ s >= cur.id /\ cur.id \in Files(p) /\ mtime[cur.id] = cur.ts
  <2>1. Close(mtime[cur.id], cur.ts)
    BY <1>1, <1>4 DEF Close
  <2>2. ~Before(s, cur.id)
    BY <1>1, <1>4 DEF Before
  <2> QED
    BY <1>4, <2>1, <2>2 DEF From
<1> QED
  BY <1>2, <1>3, <1>4 DEF Due

\* Nothing is written: what calls read stays as it was.
LEMMA SameDisk ==
  ASSUME UNCHANGED <<mtime, wrote>>
  PROVE  /\ \A p : Files(p)' = Files(p)
         /\ \A s, cur : Due(s, cur)' <=> Due(s, cur)
         /\ \A c : PageRead(c)' <=> PageRead(c)
<1>1. \A p : Files(p)' = Files(p)
  BY DEF Files
<1>2. \A s, cur : Due(s, cur)' <=> Due(s, cur)
  BY DEF Due
<1> QED
  BY <1>1, <1>2 DEF PageRead

LEMMA SameList ==
  ASSUME UNCHANGED <<mtime, wrote, cursor, listOf, mixed, skipped>>, ListRead,
         \A s \in Sessions : s \in InList => s \in InList'
  PROVE  ListRead'
<1>1. \A p : Files(p)' = Files(p) /\ Files(p) \subseteq Sessions
  BY DEF Files
<1>2. \A s, cur : Due(s, cur)' <=> Due(s, cur)
  BY SameDisk
<1>3. \A s : Due(s, cursor)' <=> Due(s, cursor)
  BY DEF Due
<1> QED
  BY <1>1, <1>3 DEF ListRead

LEMMA PagesOnCli ==
  ASSUME Types, Pages, NEW s \in Sessions, CliWrite(s) \/ Vanish(s)
  PROVE  Pages'
<1>1. UNCHANGED <<rows, cursor, listOf, mixed, skipped, calls>> /\ writes' = writes + 1
  BY DEF CliWrite, Vanish, Touch, page, history
<1>2. writes \in Nat
  BY WritesType
<1>3. /\ mtime \in [Sessions -> Nat] /\ wrote \in [Sessions -> 0..writes]
      /\ wrote'[s] = writes + 1
      /\ \A r \in Sessions : r # s => mtime'[r] = mtime[r] /\ wrote'[r] = wrote[r]
  BY <1>1 DEF Types, TypeOK, CliWrite, Vanish, Touch
\* What was written was written after anything was read; what was not is as before.
<1>4. \A p, r : \A time \in Int : r \in Files(p)' /\ wrote'[r] <= time /\ time <= writes =>
         r \in Files(p) /\ wrote[r] <= time /\ \A cur : Due(r, cur)' <=> Due(r, cur)
  <2> SUFFICES ASSUME NEW p, NEW r, NEW time \in Int, r \in Files(p)', wrote'[r] <= time, time <= writes
               PROVE  r \in Files(p) /\ wrote[r] <= time /\ \A cur : Due(r, cur)' <=> Due(r, cur)
    OBVIOUS
  <2>1. r \in Sessions
    BY DEF Files
  <2>2. r # s
    BY <1>2, <1>3
  <2> QED
    BY <1>3, <2>1, <2>2 DEF Files, Due
<1>5. \A c \in calls : PageRead(c)'
  <2> SUFFICES ASSUME NEW c \in calls PROVE PageRead(c)'
    OBVIOUS
  <2>1. c \in Calls /\ c.at \in Int /\ c.at <= writes /\ PageRead(c)
    BY CallsRead DEF Types, Calls, Pages
  <2>2. \A r \in Files(c.project)' : wrote'[r] <= c.at =>
          r \in Files(c.project) /\ wrote[r] <= c.at /\ \A cur : Due(r, cur)' <=> Due(r, cur)
    BY <1>4, <2>1
  <2> QED
    BY <2>1, <2>2 DEF PageRead
<1>6. ListRead'
  <2>1. PICK p, cur, time : p = listOf.project /\ cur = cursor /\ time = listOf.at
    OBVIOUS
  <2>2. listOf # None => time \in Int /\ time <= writes
    BY <2>1 DEF Pages, Types, TypeOK, Reads
  <2>3. ASSUME listOf # None, ~mixed, NEW r \in Files(p)', r \notin skipped, wrote'[r] <= time
        PROVE  r \in InList \/ (cur # None /\ Due(r, cur)')
    <3>1. r \in Files(p) /\ wrote[r] <= time /\ (Due(r, cur)' <=> Due(r, cur))
      BY <1>4, <2>2, <2>3
    <3>2. r \in InList \/ (cursor # None /\ Due(r, cursor))
      BY <2>1, <2>3, <3>1 DEF Pages, ListRead
    <3> QED
      BY <2>1, <3>1, <3>2
  <2>4. InList' = InList /\ listOf' = listOf /\ mixed' = mixed /\ skipped' = skipped
    BY <1>1 DEF InList
  <2>5. listOf'.project = p /\ cursor' = cur /\ listOf'.at = time /\ \A r : Due(r, cursor)' <=> Due(r, cur)'
    BY <1>1, <2>1 DEF Due
  <2> QED
    BY <2>3, <2>4, <2>5 DEF ListRead
<1>7. listOf' # None => listOf'.at <= writes'
  BY <1>1, <1>2 DEF Pages, Types, TypeOK, Reads
<1> QED
  BY <1>1, <1>5, <1>6, <1>7 DEF Pages

\* A page and its cursor: none of what it starts from is left out.
LEMMA WholePage ==
  ASSUME Types, NEW p \in Projects, NEW cur, NEW r \in From(p, cur)
  PROVE  Reached(r, PageOf(p, cur), NextCursor(p, cur))
<1>1. PICK left : left = From(p, cur) \ PageOf(p, cur)
  OBVIOUS
<1>2. left \subseteq Sessions
  BY <1>1 DEF From, Files
<1>3. CASE r \in left
  <2>1. PICK s : s = CHOOSE q \in left : Newer(q, left) = {}
    OBVIOUS
  <2>2. s \in left /\ Newer(s, left) = {}
    BY <1>2, <1>3, <2>1, Newest
  <2>3. NextCursor(p, cur) = [ts |-> mtime[s], id |-> s]
    BY <1>1, <1>3, <2>1 DEF NextCursor
  <2>4. s \in Sessions /\ mtime[s] \in Nat /\ r \in Sessions /\ mtime[r] \in Nat /\ Sessions \subseteq Nat
    BY <1>2, <1>3, <2>2, Numbered DEF Types, TypeOK
  <2>5. [ts |-> mtime[s], id |-> s] \in [ts : Nat, id : Sessions]
    BY <2>4
  <2>6. NextCursor(p, cur) # None
    BY <2>3, <2>5, NoCursorIsNone
  <2>7. ~Before(r, s)
    BY <1>3, <2>2 DEF Newer
  <2>8. mtime[r] < mtime[s] \/ (mtime[r] = mtime[s] /\ r >= s)
    BY <2>4, <2>7 DEF Before
  <2>9. Due(r, NextCursor(p, cur))
    BY <2>3, <2>8 DEF Due
  <2> QED
    BY <2>6, <2>9 DEF Reached
<1> QED
  BY <1>1, <1>3 DEF Reached

LEMMA PagesOnServe ==
  ASSUME Types, Pages, NEW c \in calls, Serve(c)
  PROVE  Pages'
<1>1. c \in Calls /\ ~c.served /\ UNCHANGED <<mtime, wrote, rows, cursor, listOf, mixed, skipped, writes>>
  BY Serving DEF page, history, counts
<1>2. \A d \in calls' : PageRead(d)
  <2>0. \A d \in Rest(c) : PageRead(d)
    BY DEF Pages, Rest
  <2>1. CASE calls' = Rest(c)
    BY <2>0, <2>1
  <2>2. CASE c.what \notin {"mark", "unmark"}
    <3>1. PICK d \in Calls :
            /\ calls' = Rest(c) \cup {d}
            /\ d.what = c.what /\ d.project = c.project /\ d.after = c.after /\ d.served
            /\ c.what \in {"initial", "more", "refresh"} =>
                 /\ d.ids = PageOf(c.project, c.after) /\ d.next = NextCursor(c.project, c.after)
            /\ d.lost = IF c.what \in {"initial", "more", "refresh"} THEN Lost(c.project, c.after) ELSE c.lost
            /\ c.what = "all" => d.ids = Files(c.project)
      BY <2>2, Serving
    <3>2. PageRead(c) /\ c.project \in Projects /\ c.after \in Cursors
      BY DEF Pages, Types, Calls
    <3>3. CASE c.what \in {"initial", "more", "refresh"}
      <4>1. d.next = NextCursor(c.project, c.after) /\ d.ids = PageOf(c.project, c.after)
            /\ d.lost = Lost(c.project, c.after)
        BY <3>1, <3>3
      <4>2. ASSUME NEW s \in Files(c.project), s \notin d.lost, c.after = None \/ Due(s, c.after)
            PROVE  Reached(s, d.ids, d.next)
        <5>1. s \in From(c.project, c.after)
          <6>1. CASE c.after = None
            BY <6>1 DEF From
          <6>2. CASE c.after # None
            BY <3>2, <4>1, <4>2, <6>2, DueFrom
          <6> QED
            BY <6>1, <6>2
        <5> QED
          BY <3>2, <4>1, <5>1, WholePage
      <4>3. (c.what # "more" => c.after = None) /\ (c.after = None => d.lost = {})
        BY <3>2, <4>1 DEF PageRead, Lost
      <4>4. PageRead(d)
        BY <3>1, <3>3, <4>2, <4>3 DEF PageRead, Reached
      <4> QED
        BY <2>0, <3>1, <4>4
    <3>4. CASE c.what \notin {"initial", "more", "refresh"}
      <4>1. PageRead(d)
        BY <3>1, <3>2, <3>4 DEF PageRead
      <4> QED
        BY <2>0, <3>1, <4>1
    <3> QED
      BY <3>3, <3>4
  <2> QED
    BY <2>1, <2>2, Serving
<1>3. \A d \in calls' : PageRead(d)'
  BY <1>1, <1>2, SameDisk
<1>4. ListRead'
  BY <1>1, SameList DEF Pages, InList
<1> QED
  BY <1>1, <1>3, <1>4 DEF Pages

LEMMA Unserved ==
  ASSUME NEW d, ~d.served, d.lost = {}, d.after = None \/ d.what = "more"
  PROVE  PageRead(d)
  BY DEF PageRead

\* A list that was just read is whole but for what its cursor leads to.
LEMMA FreshList ==
  ASSUME Types, Pages, NEW c \in calls, c.served, c.what \in {"initial", "refresh", "all"},
         UNCHANGED <<mtime, wrote>>, rows' = Rows(c.ids), cursor' = c.next \/ c.what = "all",
         listOf' = [project |-> c.project, at |-> c.at], skipped' = {}
  PROVE  ListRead' /\ \A s \in Sessions : rows'[s] <= 1
<1>1. \A s \in Sessions : rows'[s] <= 1 /\ (s \in c.ids => s \in InList')
  BY DEF Rows, InList
<1>2. c \in Calls /\ PageRead(c)
  BY DEF Types, Pages
<1>3. c.after = None /\ c.lost = {}
  BY <1>2 DEF PageRead
<1>4. \A s \in Files(c.project) : wrote[s] <= c.at =>
         s \in c.ids \/ (cursor' = c.next /\ c.next # None /\ Due(s, c.next))
  BY <1>2, <1>3 DEF PageRead
<1>5. /\ \A p : Files(p)' = Files(p)
      /\ \A s, cur : Due(s, cur)' <=> Due(s, cur)
  BY SameDisk
<1>6. PICK p, at : p = c.project /\ at = c.at
  OBVIOUS
<1>7. listOf'.project = p /\ listOf'.at = at
  BY <1>6
<1>8. \A s \in Files(p)' : wrote'[s] <= at => s \in InList' \/ (cursor' # None /\ Due(s, cursor)')
  <2>1. \A s : Due(s, cursor)' <=> (mtime[s] < cursor'.ts \/ (mtime[s] = cursor'.ts /\ s >= cursor'.id))
    BY DEF Due
  <2>2. \A s \in Files(p)' : s \in Sessions
    BY DEF Files
  <2> QED
    BY <1>1, <1>4, <1>5, <1>6, <2>1, <2>2 DEF Due
<1> QED
  BY <1>1, <1>7, <1>8 DEF ListRead

LEMMA Appends ==
  ASSUME Types, Pages, NEW ss \in SUBSET Sessions, rows' = Appended(ss)
  PROVE  \A s \in Sessions : rows'[s] <= 1 /\ (s \in InList \/ s \in ss => s \in InList')
<1>1. \A s \in Sessions : rows[s] \in Nat /\ rows[s] <= 1 /\ (s \notin InList => rows[s] = 0)
  BY DEF Types, TypeOK, Pages, InList
<1>2. \A s \in Sessions : rows'[s] = IF s \in ss \ InList THEN rows[s] + 1 ELSE rows[s]
  BY DEF Appended
<1> QED
  BY <1>1, <1>2 DEF InList

\* A page that was asked for from the end of this list continues it.
LEMMA FurtherPage ==
  ASSUME Types, Pages, NEW c \in calls, MoreAnswer(c)
  PROVE  ListRead' /\ \A s \in Sessions : rows'[s] <= 1
<1>1. /\ c.served /\ c.what = "more" /\ rows' = Appended(c.ids) /\ cursor' = c.next
      /\ UNCHANGED <<mtime, wrote>> /\ skipped' = skipped \cup c.lost
      /\ mixed' = (mixed \/ listOf = None \/ c.after # cursor \/ c.project # listOf.project)
  BY DEF MoreAnswer, Answered, disk
<1>2. c \in Calls /\ PageRead(c) /\ c.ids \in SUBSET Sessions /\ c.at \in Nat
  BY DEF Types, Pages, Calls
<1>3. \A s \in Sessions : rows'[s] <= 1 /\ (s \in InList \/ s \in c.ids => s \in InList')
  BY <1>1, <1>2, Appends
<1>4. /\ \A p : Files(p)' = Files(p) /\ Files(p) \subseteq Sessions
      /\ \A s : Due(s, cursor)' <=> Due(s, c.next)
  BY <1>1 DEF Files, Due
<1>5. CASE listOf # None /\ ~mixed'
  <2>1. ~mixed /\ c.after = cursor /\ c.project = listOf.project /\ listOf.at \in Nat
    BY <1>1, <1>5 DEF Types, TypeOK, Reads
  <2>2. listOf'.project = listOf.project /\ listOf'.at <= listOf.at /\ listOf'.at <= c.at /\ listOf'.at \in Nat
    <3>1. listOf \in [project : Projects, at : Nat]
      BY <1>5 DEF Types, TypeOK, Reads
    <3>2. CASE c.at < listOf.at
      <4>1. listOf' = [listOf EXCEPT !.at = c.at]
        BY <1>5, <3>2 DEF MoreAnswer
      <4> QED
        BY <1>2, <3>1, <3>2, <4>1
    <3>3. CASE ~(c.at < listOf.at)
      <4>1. listOf' = listOf
        BY <1>5, <3>3 DEF MoreAnswer
      <4> QED
        BY <1>2, <3>1, <3>3, <4>1
    <3> QED
      BY <3>2, <3>3
  <2>3. ASSUME NEW s \in Files(listOf.project), s \notin skipped', wrote[s] <= listOf'.at
        PROVE  s \in InList' \/ (c.next # None /\ Due(s, c.next))
    <3>1. s \in Sessions /\ wrote[s] \in Nat /\ wrote[s] <= listOf.at /\ wrote[s] <= c.at
      <4>1. s \in Sessions /\ wrote[s] \in Nat
        BY <1>4, <2>3 DEF Types, TypeOK
      <4> QED
        BY <1>2, <2>1, <2>2, <2>3, <4>1
    <3>2. s \notin skipped /\ s \notin c.lost
      BY <1>1, <2>3
    <3>3. s \in InList \/ (cursor # None /\ Due(s, cursor))
      BY <1>5, <2>1, <2>3, <3>1, <3>2 DEF Pages, ListRead
    <3>4. CASE s \in InList
      BY <1>3, <3>1, <3>4
    <3>5. CASE cursor # None /\ Due(s, cursor)
      <4>1. s \in c.ids \/ (c.next # None /\ Due(s, c.next))
        BY <1>1, <1>2, <2>1, <2>3, <3>1, <3>2, <3>5 DEF PageRead
      <4> QED
        BY <1>3, <3>1, <4>1
    <3> QED
      BY <3>3, <3>4, <3>5
  <2>4. PICK p, at : p = listOf.project /\ at = listOf'.at
    OBVIOUS
  <2>5. listOf'.project = p /\ Files(p)' = Files(p) /\ wrote' = wrote /\ cursor' = c.next
    BY <1>1, <1>4, <2>2, <2>4
  <2>6. \A s \in Files(p)' \ skipped' : wrote'[s] <= at => s \in InList' \/ (cursor' # None /\ Due(s, cursor)')
    BY <1>4, <2>3, <2>4, <2>5
  <2> QED
    BY <1>3, <2>4, <2>5, <2>6 DEF ListRead
<1>6. CASE ~(listOf # None /\ ~mixed')
  BY <1>1, <1>3, <1>6 DEF ListRead
<1> QED
  BY <1>5, <1>6

LEMMA PagesOnAnswer ==
  ASSUME Types, Pages, NEW c \in calls, Answer(c)
  PROVE  Pages'
<1>1. UNCHANGED <<mtime, wrote, writes>> /\ writes \in Nat
  BY Answering, WritesType DEF disk
<1>2. \A d \in calls' : PageRead(d)'
  <2>1. \A d \in Rest(c) : PageRead(d)
    BY DEF Pages, Rest
  <2>2. CASE calls' = Rest(c)
    BY <1>1, <2>1, <2>2, SameDisk
  <2>3. CASE \E d \in Calls : calls' = Rest(c) \cup {d} /\ ~d.served /\ d.after = None /\ d.lost = {}
    <3>1. PICK d \in Calls : calls' = Rest(c) \cup {d} /\ ~d.served /\ d.after = None /\ d.lost = {}
      BY <2>3
    <3>2. PageRead(d)
      BY <3>1, Unserved
    <3> QED
      BY <1>1, <2>1, <3>1, <3>2, SameDisk
  <2> QED
    BY <2>2, <2>3, Answering
<1>3. /\ c \in Calls /\ c.at <= writes /\ c.at \in Nat /\ c.ids \in SUBSET Sessions
      /\ ListRead /\ \A s \in Sessions : rows[s] <= 1
  BY CallsRead DEF Types, Pages, Calls
<1>4. ListRead' /\ \A s \in Sessions : rows'[s] <= 1
  <2>1. CASE InitialAnswer(c)
    BY <1>1, <2>1, FreshList DEF InitialAnswer, Answered
  <2>2. CASE MoreAnswer(c)
    BY <2>2, FurtherPage
  <2>3. CASE RefreshAnswer(c)
    <3>1. CASE /\ rows' = Rows(c.ids) /\ cursor' = c.next /\ listOf' = [project |-> c.project, at |-> c.at]
               /\ skipped' = {}
      BY <1>1, <2>3, <3>1, FreshList DEF RefreshAnswer, Answered
    <3>2. CASE UNCHANGED <<rows, cursor, history>>
      BY <1>1, <1>3, <3>2, SameList DEF history, InList
    <3> QED
      BY <2>3, <3>1, <3>2 DEF RefreshAnswer
  <2>4. CASE AllAnswer(c)
    BY <1>1, <2>4, FreshList DEF AllAnswer, Answered
  <2>5. CASE ByIdsAnswer(c)
    <3>1. UNCHANGED <<mtime, cursor, listOf, mixed, skipped>> /\ rows' = Appended(c.ids)
      BY <1>1, <2>5 DEF ByIdsAnswer, history
    <3>2. \A s \in Sessions : rows'[s] <= 1 /\ (s \in InList => s \in InList')
      BY <1>3, <3>1, Appends
    <3> QED
      BY <1>1, <1>3, <3>1, <3>2, SameList
  <2>6. CASE ConfigAnswer(c) \/ Fails(c)
    <3>1. UNCHANGED <<mtime, cursor, listOf, mixed, skipped, rows>>
      BY <1>1, <2>6 DEF ConfigAnswer, Fails, page, history
    <3> QED
      BY <1>1, <1>3, <3>1, SameList DEF InList
  <2> QED
    BY <2>1, <2>2, <2>3, <2>4, <2>5, <2>6 DEF Answer
<1>5. listOf' # None => listOf'.at <= writes
  <2>1. /\ listOf = None \/ (listOf \in [project : Projects, at : Nat] /\ listOf.at <= writes)
    BY DEF Types, TypeOK, Reads, Pages
  <2>2. \/ listOf' = listOf \/ listOf' = [project |-> c.project, at |-> c.at]
        \/ listOf # None /\ listOf' = [listOf EXCEPT !.at = c.at]
    BY DEF Answer, InitialAnswer, MoreAnswer, RefreshAnswer, AllAnswer, ConfigAnswer, ByIdsAnswer, Fails, history
  <2> QED
    BY <1>3, <2>1, <2>2
<1> QED
  BY <1>1, <1>2, <1>4, <1>5 DEF Pages

LEMMA PagesOnBrowse ==
  ASSUME Types, Pages, Browsing
  PROVE  Pages'
<1>1. UNCHANGED <<mtime, wrote, writes>>
  BY Browse
<1>2. \A d \in calls' : PageRead(d)'
  <2>1. \A d \in calls : PageRead(d)
    BY DEF Pages
  <2>2. \A d : Asked(d) => PageRead(d)
    BY Unserved DEF Asked
  <2>3. \A d \in calls' : PageRead(d)
    BY <2>1, <2>2, Browse DEF Asked
  <2> QED
    BY <1>1, <2>3, SameDisk
<1>3. ListRead' /\ (\A s \in Sessions : rows'[s] <= 1) /\ (listOf' # None => listOf'.at <= writes)
  <2>1. CASE rows' = NoRows /\ cursor' = None /\ listOf' = None
    BY <2>1 DEF ListRead, NoRows
  <2>2. CASE UNCHANGED <<rows, cursor, listOf, mixed, skipped>>
    BY <1>1, <2>2, SameList DEF Pages, InList
  <2> QED
    BY <2>1, <2>2, Browse
<1> QED
  BY <1>1, <1>2, <1>3 DEF Pages

\* A step that leaves the page and the files alone, and starts no page.
LEMMA SamePages ==
  ASSUME Pages, UNCHANGED <<mtime, wrote, rows, cursor, listOf, mixed, skipped, writes>>, \A d \in calls' : PageRead(d)
  PROVE  Pages'
<1>1. \A d \in calls' : PageRead(d)'
  BY SameDisk
<1>2. ListRead'
  BY SameList DEF Pages, InList
<1> QED
  BY <1>1, <1>2 DEF Pages

LEMMA NextPages == Types /\ Pages /\ [Next]_vars => Pages'
<1> SUFFICES ASSUME Types, Pages, [Next]_vars PROVE Pages'
  OBVIOUS
<1>0. \A d \in calls : PageRead(d)
  BY DEF Pages
<1>1. CASE RefreshSessionsInPlace
  <2>1. PICK d \in Calls : calls' = calls \cup {d} /\ ~d.served /\ d.after = None /\ d.lost = {}
    BY <1>1, Refreshing
  <2>2. PageRead(d)
    BY <2>1, Unserved
  <2>3. UNCHANGED <<mtime, wrote, rows, cursor, listOf, mixed, skipped, writes>>
    BY <1>1, Refreshing DEF disk, page, history
  <2> QED
    BY <1>0, <2>1, <2>2, <2>3, SamePages
<1>2. ASSUME NEW what, NEW sets, NEW to, Marks1(what, sets, to) PROVE Pages'
  <2>1. PICK new : MarkedCalls(what, sets, new)
    BY <1>2, MarkCalls
  <2>2. \A d \in calls : PageRead(Unclean(d))
    <3> SUFFICES ASSUME NEW d \in calls PROVE PageRead(Unclean(d))
      OBVIOUS
    <3>1. /\ Unclean(d).after = d.after /\ Unclean(d).what = d.what /\ Unclean(d).served = d.served
          /\ Unclean(d).next = d.next /\ Unclean(d).at = d.at /\ Unclean(d).project = d.project
          /\ Unclean(d).ids = d.ids /\ Unclean(d).lost = d.lost
      BY DEF Types, Calls, Unclean
    <3>2. PageRead(d)
      BY <1>0
    <3> QED
      BY <3>1, <3>2 DEF PageRead
  <2>3. \A d \in new : PageRead(d)
    BY <2>1, Unserved DEF MarkedCalls
  <2>4. \A d \in calls' : PageRead(d)
    BY <1>0, <2>1, <2>2, <2>3 DEF MarkedCalls
  <2>5. UNCHANGED <<mtime, wrote, rows, cursor, listOf, mixed, skipped, writes>>
    BY <1>2 DEF Marks1, Mark, Turn, disk, page, history
  <2> QED
    BY <2>4, <2>5, SamePages
<1>3. CASE UNCHANGED vars
  BY <1>0, <1>3, SamePages DEF vars, disk, page, history, counts
<1> QED
  BY <1>1, <1>2, <1>3, Steps, PagesOnBrowse, PagesOnServe, PagesOnAnswer, PagesOnCli

LEMMA InitPages == Init => Pages
<1> SUFFICES ASSUME Init PROVE Pages
  OBVIOUS
<1>1. \A s \in Sessions : rows[s] = 0
  BY DEF Init, NoRows
<1> QED
  BY <1>1 DEF Init, Pages, ListRead

\* No session is in the list twice, and what was not written since its pages
\* were read is in it or still to come, but for the sessions of one time with a
\* cursor whose file was written or removed: list_sessions_paginated and
\* parse_cursor, fetchSessionsMore.
THEOREM ListsPagesAddUp == Spec => []PagesAddUp
<1>1. Init => Types /\ Pages
  BY InitTypes, InitPages
<1>2. Types /\ Pages /\ [Next]_vars => Types' /\ Pages'
  BY NextTypes, NextPages
<1>3. Types /\ Pages => PagesAddUp
  <2> SUFFICES ASSUME Types, Pages PROVE PagesAddUp
    OBVIOUS
  <2>1. cursor \in Cursors
    BY DEF Types, TypeOK
  <2>2. \A s \in Files(listOf.project) :
          cursor # None /\ Due(s, cursor) => s \in From(listOf.project, cursor) \cup Lost(listOf.project, cursor)
    BY <2>1, DueFrom
  <2> QED
    BY <2>2 DEF Pages, ListRead, PagesAddUp
<1> QED
  BY <1>1, <1>2, <1>3, PTL DEF Spec
=============================================================================
