------------------------- MODULE SessionDetailProofs -------------------------
(***************************************************************************)
(* For any tabs, panes, sessions and number of fetches: the types, which   *)
(* session a tab shows, what a loading tab or root waits for, whose data   *)
(* is kept, that no noticed change of a session file goes unread, and that *)
(* no refresh that is put off is left in the queue by itself.              *)
(*                                                                         *)
(* That a tab shows its own session needs to be strengthened.  What the    *)
(* last fetch answers is written into its tab without looking at it again, *)
(* so the invariant says whose answer that may be: since a tab that gets   *)
(* another session starts a fetch in the same step, the tab of the last    *)
(* fetch still shows the session it was started for, or has closed.        *)
(***************************************************************************)
EXTENDS SessionDetail, TLAPS

\* The tab of the last fetch shows the session that is fetched, or has closed,
\* what is read of a session is of that session, and there is no data of a tab
\* that was not opened yet.
AnswersOfTabs ==
  /\ \A r \in fetches : r.gen = gen => shows[r.tab] \in {r.session, Gone}
  /\ \A r \in fetches : r.read # None => r.read.session = r.session
  /\ \A t \in Tabs : shows[t] = None => tabDetail[t] = None
  /\ \A t \in Tabs : tabDetail[t] # None => t \in has
  /\ \A t \in leaked : shows[t] = Gone

ReadsOfSessions == \A s \in Sessions : read[s] # None => read[s].session = s

\* No two sessions have the same id.
UniqueIds == \A a, b \in Sessions : IdOf[a] = IdOf[b] => a = b

\* A refresh is shown in every tab of a session of that id.
OwnShown == UniqueIds => TabShowsItsSession

DataInv ==
  /\ DataType /\ FetchType /\ AnswersOfTabs /\ OwnShown
  /\ TabLoadingHasRequest /\ RootLoadingHasRequest /\ DataOfOpenTabs

Inv == LayoutType /\ RefreshType /\ ReadsOfSessions /\ DataInv

USE DetailAssumption DEF Open, ActiveTab, selection, outside

\* Whatever is shown by the tabs after a step, seen from their data: a tab other
\* than tab shows what it showed or has closed, and tab shows s; if it showed
\* another session its data was dropped.
ShowsNext(tab, s, cleaned) ==
  /\ shows' \in [Tabs -> Sessions \cup {None, Gone}]
  /\ tab \in Tabs => shows'[tab] = s
  /\ \A t \in Tabs : \/ shows'[t] = shows[t]
                     \/ shows'[t] = Gone
                     \/ t = tab /\ (t \in cleaned \/ shows[t] = None)

\* Data that a closing tab keeps is noted.
LeakNoted(cleaned) ==
  /\ leaked \subseteq leaked' /\ leaked' \subseteq Tabs
  /\ \A t \in has \ cleaned : shows'[t] = Gone => shows[t] = Gone \/ t \in leaked'
  /\ \A t \in leaked' : shows'[t] = Gone

\* A tab that does not show s yet has no data left.
ReadyFor(tab, s, cleaned) ==
  \/ tab \in Open /\ shows[tab] = s
  \/ tab \in cleaned
  \/ shows[tab] = None /\ tab \notin tabLoading

\* Starting a fetch keeps the invariant of the data.
LEMMA StartFetchKeeps ==
  ASSUME LayoutType, DataInv, NEW tab \in Tabs, NEW s \in Sessions, NEW cleaned,
         ShowsNext(tab, s, cleaned), LeakNoted(cleaned),
         detail' \in Contents \cup {None},
         StartFetch(s, tab, cleaned)
  PROVE  DataInv'
<1> DEFINE new == [gen |-> gen + 1, session |-> s, tab |-> tab, read |-> None]
<1> USE DEF StartFetch, DataInv, ShowsNext, LayoutType
<1>1. new \in Fetches
  BY DEF FetchType, Fetches
<1>2. \A r \in fetches : r \in Fetches /\ r.gen <= gen /\ r.gen \in Nat
  BY DEF FetchType, Fetches
<1>3. gen \in Nat /\ gen' = gen + 1 /\ fetches' = fetches \cup {new}
  BY DEF FetchType
<1>4. \A r \in fetches' : r.gen = gen' => r = new
  BY <1>2, <1>3
<1>5. DataType'
  BY DEF DataType, Cleaned, LeakNoted
<1>6. FetchType'
  BY <1>1, <1>2, <1>3 DEF FetchType, Fetches
<1>7. AnswersOfTabs'
  <2>1. \A r \in fetches' : r.gen = gen' => shows'[r.tab] \in {r.session, Gone}
    BY <1>4
  <2>2. \A r \in fetches' : r.read # None => r.read.session = r.session
    BY <1>3 DEF AnswersOfTabs
  <2>3. \A t \in Tabs : shows'[t] = None => tabDetail'[t] = None
    BY DEF AnswersOfTabs, Cleaned
  <2>4. \A t \in Tabs : tabDetail'[t] # None => t \in has'
    BY DEF AnswersOfTabs, Cleaned
  <2>5. \A t \in leaked' : shows'[t] = Gone
    BY DEF LeakNoted
  <2> QED
    BY <2>1, <2>2, <2>3, <2>4, <2>5 DEF AnswersOfTabs
<1>8. OwnShown'
  BY DEF OwnShown, TabShowsItsSession, AnswersOfTabs, Cleaned
<1>a. new \in fetches' /\ new.gen = gen' /\ new.tab = tab
  BY <1>3
<1>9. TabLoadingHasRequest'
  <2> SUFFICES ASSUME NEW t \in tabLoading' \cap Open', t # tab
               PROVE  t \in stranded'
    BY <1>a DEF TabLoadingHasRequest
  <2>1. t \in tabLoading \cap Open
    BY DEF DataType
  <2>2. CASE t \in stranded
    BY <2>2
  <2>3. CASE \E r \in fetches : r.gen = gen /\ r.tab = t
    BY <2>3
  <2> QED
    BY <2>1, <2>2, <2>3 DEF TabLoadingHasRequest
<1>10. RootLoadingHasRequest'
  BY <1>a DEF RootLoadingHasRequest
<1>11. DataOfOpenTabs'
  BY DEF DataOfOpenTabs, LeakNoted, DataType
<1> QED
  BY <1>5, <1>6, <1>7, <1>8, <1>9, <1>10, <1>11

\* Dropping data, with the fetches as they are, keeps it.
LEMMA DropDataKeeps ==
  ASSUME LayoutType, DataInv, NEW tab, NEW s, NEW cleaned,
         ShowsNext(tab, s, cleaned), LeakNoted(cleaned),
         tab \in Tabs => Cleaned(cleaned)[tab] # None \/ tab \in tabLoading \ cleaned,
         tab \in Tabs => tab \in Open /\ shows[tab] = s /\ tab \notin cleaned,
         detail' \in Contents \cup {None}, loading' \in BOOLEAN, error' \in BOOLEAN,
         loading' => loading,
         DropData(cleaned), UNCHANGED fetchVars
  PROVE  DataInv'
<1> USE DEF DropData, DataInv, ShowsNext, LayoutType, fetchVars
<1>1. DataType'
  BY DEF DataType, Cleaned, LeakNoted
<1>2. FetchType'
  BY DEF FetchType
<1>3. AnswersOfTabs'
  BY DEF AnswersOfTabs, Cleaned, FetchType, Fetches, LeakNoted
<1>4. OwnShown'
  BY DEF OwnShown, TabShowsItsSession, AnswersOfTabs, Cleaned
<1>5. TabLoadingHasRequest'
  BY DEF TabLoadingHasRequest, DataType
<1>6. RootLoadingHasRequest'
  BY DEF RootLoadingHasRequest
<1>7. DataOfOpenTabs'
  BY DEF DataOfOpenTabs, LeakNoted, DataType
<1> QED
  BY <1>1, <1>2, <1>3, <1>4, <1>5, <1>6, <1>7

\* Activating a tab keeps it, when the tab showed s or its data was dropped.
LEMMA SyncSidebarKeeps ==
  ASSUME LayoutType, DataInv, NEW tab \in Tabs, NEW s \in Sessions, NEW cleaned,
         ShowsNext(tab, s, cleaned), LeakNoted(cleaned),
         ReadyFor(tab, s, cleaned),
         SyncSidebar(tab, s, cleaned)
  PROVE  DataInv'
<1>1. CASE Cleaned(cleaned)[tab] # None /\ DropData(cleaned) /\ UNCHANGED fetchVars
  <2>1. detail' \in Contents \cup {None} /\ loading' \in BOOLEAN /\ error' \in BOOLEAN
    BY <1>1 DEF SyncSidebar, rootVars, DataInv, DataType, DropData
  <2>2. loading' => loading
    BY <1>1 DEF SyncSidebar, rootVars
  <2>3. tab \in Open /\ shows[tab] = s /\ tab \notin cleaned
    BY <1>1 DEF Cleaned, DataInv, AnswersOfTabs, ReadyFor
  <2> QED
    BY <1>1, <2>1, <2>2, <2>3, DropDataKeeps
<1>2. CASE tab \in tabLoading \ cleaned /\ DropData(cleaned) /\ UNCHANGED <<rootVars, fetchVars>>
  <2>1. tab \in Open /\ shows[tab] = s /\ tab \notin cleaned
    BY <1>2 DEF ReadyFor
  <2>2. detail' \in Contents \cup {None} /\ loading' \in BOOLEAN /\ error' \in BOOLEAN /\ loading' = loading
    BY <1>2 DEF rootVars, DataInv, DataType
  <2> QED
    BY <1>2, <2>1, <2>2, DropDataKeeps
<1>3. CASE StartFetch(s, tab, cleaned) /\ UNCHANGED detail
  BY <1>3, StartFetchKeeps DEF DataInv, DataType
<1> QED
  BY <1>1, <1>2, <1>3 DEF SyncSidebar

\* It is kept while no data of a tab changes, nor what tabs show, nor the fetches.
LEMMA DataUnchanged ==
  ASSUME DataInv, UNCHANGED <<shows, tabVars, loading, fetchVars, leaked>>,
         detail' \in Contents \cup {None}, error' \in BOOLEAN
  PROVE  DataInv'
<1> USE DEF DataInv, tabVars, fetchVars
<1>1. DataType' /\ FetchType'
  BY DEF DataType, FetchType
<1>2. AnswersOfTabs' /\ OwnShown'
  BY DEF AnswersOfTabs, OwnShown, TabShowsItsSession
<1>3. TabLoadingHasRequest' /\ RootLoadingHasRequest' /\ DataOfOpenTabs'
  BY DEF TabLoadingHasRequest, RootLoadingHasRequest, DataOfOpenTabs
<1> QED
  BY <1>1, <1>2, <1>3
-----------------------------------------------------------------------------
\* Closing tabs keeps the layout's types and the data's invariant.
LEMMA CloseKeeps ==
  ASSUME Inv, NEW closing, closing \subseteq Open, NEW cleaned, cleaned \subseteq closing,
         NEW pane \in Panes, NEW next \in Tabs \cup {None},
         next # None => next \in Open \ closing /\ PaneOf[next] = pane,
         CloseAndActivate(closing, next, pane, cleaned),
         \/ leaked' = leaked /\ cleaned = closing
         \/ Leaking(closing)
  PROVE  LayoutType' /\ DataInv'
<1> USE DEF Inv, CloseAndActivate
<1>1. /\ shows' \in [Tabs -> Sessions \cup {None, Gone}]
      /\ active' \in [Panes -> Tabs \cup {None}] /\ focus' \in Panes
      /\ \A p \in Panes : active'[p] # None => active'[p] \in Open' /\ PaneOf[active'[p]] = p
  BY DEF LayoutType
<1>2. LeakNoted(cleaned)
  BY DEF LeakNoted, Leaking, DataInv, DataType, AnswersOfTabs
<1>3. CASE next = None /\ DropData(cleaned) /\ UNCHANGED <<selection, rootVars, fetchVars>>
  <2>1. next \notin Tabs
    BY <1>3
  <2>2. ShowsNext(next, next, cleaned)
    BY <1>1, <2>1 DEF ShowsNext, LayoutType
  <2>3. detail' \in Contents \cup {None} /\ loading' \in BOOLEAN /\ error' \in BOOLEAN /\ loading' = loading
    BY <1>3 DEF rootVars, DataInv, DataType
  <2>4. DataInv'
    BY <1>2, <1>3, <2>1, <2>2, <2>3, DropDataKeeps
  <2> QED
    BY <1>1, <1>3, <2>4 DEF LayoutType
<1>4. CASE next # None /\ SyncSidebar(next, shows[next], cleaned)
  <2>1. ShowsNext(next, shows[next], cleaned) /\ ReadyFor(next, shows[next], cleaned) /\ next \in Open
    BY <1>1, <1>4 DEF ShowsNext, ReadyFor
  <2>2. selected' \in Sessions
    BY <1>4, <2>1 DEF SyncSidebar
  <2>3. next \in Tabs /\ shows[next] \in Sessions
    BY <2>1
  <2>4. DataInv'
    BY <1>2, <1>4, <2>1, <2>3, SyncSidebarKeeps
  <2> QED
    BY <1>1, <2>2, <2>4 DEF LayoutType
<1> QED
  BY <1>3, <1>4
-----------------------------------------------------------------------------
\* What the user does with tabs keeps the invariant.
LEMMA WindowingKeeps ==
  ASSUME Inv, Windowing
  PROVE  Inv'
<1> USE DEF Inv
<1>1. RefreshType' /\ ReadsOfSessions'
  <2>1. UNCHANGED <<file, refreshVars>>
    BY DEF Windowing, OpenTab, ReplaceTab, SetActiveTab, SelectSession, Retry, CloseOtherTabs,
           SetActivePage, ClosePane, CloseTabs, CloseAllTabs, SelectProject, ClearActiveProject, CloseAndActivate
  <2> QED
    BY <2>1 DEF refreshVars, RefreshType, ReadsOfSessions
<1>2. ASSUME NEW tab \in Tabs, NEW s \in Sessions, OpenTab(tab, s)
      PROVE  LayoutType' /\ DataInv'
  <2> USE <1>2 DEF OpenTab
  <2>1. ShowsNext(tab, s, {}) /\ LeakNoted({})
    BY DEF ShowsNext, LeakNoted, DataInv, DataType, AnswersOfTabs, LayoutType
  <2>2. ReadyFor(tab, s, {})
    BY DEF ReadyFor, DataInv, DataType, DataOfOpenTabs, AnswersOfTabs
  <2>3. DataInv'
    BY <2>1, <2>2, SyncSidebarKeeps
  <2> QED
    BY <2>1, <2>3 DEF SyncSidebar, ShowsNext, LayoutType, Focused
<1>3. ASSUME NEW tab \in Tabs, NEW s \in Sessions, ReplaceTab(tab, s)
      PROVE  LayoutType' /\ DataInv'
  <2> USE <1>3 DEF ReplaceTab
  <2>1. ShowsNext(tab, s, {tab}) /\ LeakNoted({tab})
    BY DEF ShowsNext, LeakNoted, DataInv, DataType, AnswersOfTabs, LayoutType
  <2>2. DataInv'
    BY <2>1, SyncSidebarKeeps DEF ReadyFor
  <2> QED
    BY <2>1, <2>2 DEF SyncSidebar, ShowsNext, LayoutType
<1>4. ASSUME NEW tab \in Tabs, SetActiveTab(tab)
      PROVE  LayoutType' /\ DataInv'
  <2> USE <1>4 DEF SetActiveTab
  <2>1. ShowsNext(tab, shows[tab], {}) /\ LeakNoted({}) /\ shows[tab] \in Sessions
    BY DEF ShowsNext, LeakNoted, DataInv, DataType, AnswersOfTabs, LayoutType
  <2>2. ReadyFor(tab, shows[tab], {})
    BY DEF ReadyFor
  <2>3. DataInv'
    BY <2>1, <2>2, SyncSidebarKeeps
  <2> QED
    BY <2>1, <2>3 DEF SyncSidebar, LayoutType, Focused
<1>5. ASSUME NEW tab \in Tabs, SelectSession(tab) \/ Retry(tab)
      PROVE  LayoutType' /\ DataInv'
  <2> USE <1>5 DEF SelectSession, Retry, layoutVars
  <2>1. ShowsNext(tab, shows[tab], {}) /\ LeakNoted({}) /\ shows[tab] \in Sessions
    BY DEF ShowsNext, LeakNoted, DataInv, DataType, AnswersOfTabs, LayoutType
  <2>2. DataInv'
    BY <2>1, StartFetchKeeps DEF DataInv, DataType
  <2> QED
    BY <2>1, <2>2 DEF LayoutType
<1>6. ASSUME NEW pane \in Panes, SetActivePage(pane)
      PROVE  LayoutType' /\ DataInv'
  BY <1>6, DataUnchanged DEF SetActivePage, rootVars, LayoutType, DataInv, DataType
<1>7. CASE SelectProject
  <2>1. DataInv'
    BY <1>7, DataUnchanged DEF SelectProject, layoutVars, DataInv, DataType
  <2>2. UNCHANGED <<shows, active, focus>> /\ selected' = None
    BY <1>7 DEF SelectProject, layoutVars
  <2> QED
    BY <1>1, <2>1, <2>2 DEF LayoutType
<1>12. CASE ClearActiveProject
  <2>1. DataInv'
    BY <1>12, DataUnchanged DEF ClearActiveProject, rootVars, layoutVars, DataInv, DataType
  <2>2. UNCHANGED <<shows, active, focus, selected>>
    BY <1>12 DEF ClearActiveProject, layoutVars
  <2> QED
    BY <1>1, <2>1, <2>2 DEF LayoutType
<1>8. CASE CloseAllTabs
  <2> USE <1>8 DEF CloseAllTabs
  <2>1. ShowsNext(None, None, Open) /\ LeakNoted(Open)
    BY DEF ShowsNext, LeakNoted, DataInv, DataType, AnswersOfTabs, DataOfOpenTabs, LayoutType
  <2>2. DataInv'
    BY <2>1, DropDataKeeps DEF DataInv, DataType
  <2>3. LayoutType'
    BY <2>1 DEF ShowsNext, LayoutType
  <2> QED
    BY <1>1, <2>2, <2>3
<1>9. ASSUME NEW keep \in Tabs, NEW closing \in SUBSET (SessionTabs(PaneOf[keep]) \ {keep}),
             CloseOtherTabs(closing, keep)
      PROVE  LayoutType' /\ DataInv'
  <2>1. PICK next \in {keep} \cup ({active[PaneOf[keep]]} \ closing) :
             CloseAndActivate(closing, next, PaneOf[keep], {})
    BY <1>9 DEF CloseOtherTabs
  <2>2. PaneOf[keep] \in Panes /\ closing \subseteq Open /\ Leaking(closing)
    BY <1>9 DEF CloseOtherTabs, SessionTabs
  <2>3. next \in Tabs \cup {None} /\ (next # None => next \in Open \ closing /\ PaneOf[next] = PaneOf[keep])
    BY <1>9, <2>1, <2>2 DEF CloseOtherTabs, LayoutType
  <2> QED
    BY <2>1, <2>2, <2>3, CloseKeeps
<1>10. ASSUME NEW pane \in Panes, ClosePane(pane)
       PROVE  LayoutType' /\ DataInv'
  <2>1. PICK p \in FocusWithout(pane) : CloseAndActivate(SessionTabs(pane), active[p], p, {})
    BY <1>10 DEF ClosePane
  <2>2. p \in Panes \ {pane} /\ SessionTabs(pane) \subseteq Open /\ Leaking(SessionTabs(pane))
    BY <1>10, <2>1 DEF ClosePane, FocusWithout, SessionTabs, LayoutType
  <2>3. /\ active[p] \in Tabs \cup {None}
        /\ active[p] # None => active[p] \in Open \ SessionTabs(pane) /\ PaneOf[active[p]] = p
    BY <2>2 DEF LayoutType, SessionTabs
  <2> QED
    BY <2>1, <2>2, <2>3, CloseKeeps
<1>11. ASSUME NEW pane \in Panes, NEW closing \in SUBSET SessionTabs(pane), CloseTabs(closing, pane)
       PROVE  LayoutType' /\ DataInv'
  <2>1. PICK p \in Panes, next \in Tabs \cup {None} :
             /\ CloseAndActivate(closing, next, p, closing)
             /\ next # None => next \in Open \ closing /\ PaneOf[next] = p
    <3>1. CASE active[pane] \notin closing /\ CloseAndActivate(closing, active[pane], pane, closing)
      BY <3>1 DEF LayoutType
    <3>2. CASE \E next \in (SessionTabs(pane) \ closing) \cup {None} :
                 CloseAndActivate(closing, next, pane, closing)
      BY <3>2 DEF SessionTabs
    <3>3. ASSUME NEW p \in FocusWithout(pane), CloseAndActivate(closing, active[p], p, closing)
          PROVE  \E q \in Panes, next \in Tabs \cup {None} :
                    /\ CloseAndActivate(closing, next, q, closing)
                    /\ next # None => next \in Open \ closing /\ PaneOf[next] = q
      <4>1. p \in Panes \ {pane}
        BY DEF FocusWithout, LayoutType
      <4>2. active[p] \in Tabs \cup {None} /\ (active[p] # None => active[p] \in Open \ closing /\ PaneOf[active[p]] = p)
        BY <4>1 DEF LayoutType, SessionTabs
      <4> QED
        BY <3>3, <4>1, <4>2
    <3> QED
      BY <1>11, <3>1, <3>2, <3>3 DEF CloseTabs
  <2>2. closing \subseteq Open /\ leaked' = leaked
    BY <1>11 DEF CloseTabs, SessionTabs
  <2> QED
    BY <2>1, <2>2, CloseKeeps
<1> QED
  BY <1>1, <1>2, <1>3, <1>4, <1>5, <1>6, <1>7, <1>8, <1>9, <1>10, <1>11, <1>12 DEF Windowing
-----------------------------------------------------------------------------
\* The answer of a fetch keeps the invariant.
LEMMA AnswerKeeps ==
  ASSUME Inv, NEW r \in fetches, Answer(r)
  PROVE  Inv'
<1> USE DEF Inv
<1>1. LayoutType' /\ RefreshType' /\ ReadsOfSessions'
  BY DEF Answer, FetchReads, FetchDiscarded, FetchUnviewed, FetchLands, FetchFails,
         layoutVars, refreshVars, LayoutType, RefreshType, ReadsOfSessions
<1>2. /\ r \in Fetches /\ r.tab \in Tabs /\ r.session \in Sessions
      /\ \A q \in fetches : q.gen = gen /\ r.gen = gen => q = r
  BY DEF DataInv, FetchType, Fetches
<1>3. CASE FetchReads(r)
  <2> DEFINE done == [r EXCEPT !.read = Content(r.session)]
  <2> USE <1>3 DEF FetchReads, DataInv, tabVars, rootVars
  <2>1. Content(r.session) \in Contents /\ Content(r.session).session = r.session
    BY <1>2 DEF Content, Contents, RefreshType
  <2>2. /\ done \in Fetches /\ done.gen = r.gen /\ done.tab = r.tab /\ done.session = r.session
        /\ done.read = Content(r.session)
    BY <1>2, <2>1 DEF Fetches
  <2>a. \A q \in fetches' : q = done \/ q \in fetches
    OBVIOUS
  <2>c. \A q \in fetches : q \in fetches' \/ (q = r /\ done \in fetches')
    OBVIOUS
  <2>3. FetchType'
    BY <2>2 DEF FetchType
  <2> HIDE DEF done
  <2>b. /\ \A q \in fetches' : q.gen = gen' => shows'[q.tab] \in {q.session, Gone}
        /\ \A q \in fetches' : q.read # None => q.read.session = q.session
    BY <2>1, <2>2, <2>a DEF AnswersOfTabs, layoutVars
  <2>4. AnswersOfTabs'
    BY <2>b DEF AnswersOfTabs, layoutVars
  <2>5. DataType' /\ OwnShown' /\ DataOfOpenTabs'
    BY DEF DataType, OwnShown, TabShowsItsSession, DataOfOpenTabs, layoutVars
  <2>6. TabLoadingHasRequest' /\ RootLoadingHasRequest'
    BY <2>2, <2>c DEF TabLoadingHasRequest, RootLoadingHasRequest, layoutVars
  <2> QED
    BY <1>1, <2>3, <2>4, <2>5, <2>6
<1>4. CASE FetchDiscarded(r)
  BY <1>1, <1>4 DEF FetchDiscarded, DataInv, tabVars, rootVars, layoutVars, DataType, FetchType,
     AnswersOfTabs, OwnShown, TabShowsItsSession, TabLoadingHasRequest, RootLoadingHasRequest, DataOfOpenTabs
<1>5. CASE FetchUnviewed(r)
  BY <1>1, <1>2, <1>5 DEF FetchUnviewed, DataInv, tabVars, layoutVars, DataType, FetchType,
     AnswersOfTabs, OwnShown, TabShowsItsSession, TabLoadingHasRequest, RootLoadingHasRequest, DataOfOpenTabs
<1>6. CASE FetchLands(r)
  <2> USE <1>2, <1>6 DEF FetchLands, DataInv, layoutVars
  <2>1. r.read \in Contents /\ r.read.session = r.session /\ shows[r.tab] \in {r.session, Gone}
    BY DEF AnswersOfTabs, Fetches
  <2>2. DataType'
    BY <2>1 DEF DataType, NoteLate
  <2>3. FetchType'
    BY DEF FetchType
  <2>4. AnswersOfTabs'
    <3>1. /\ \A q \in fetches' : q.gen = gen' => shows'[q.tab] \in {q.session, Gone}
          /\ \A q \in fetches' : q.read # None => q.read.session = q.session
      BY DEF AnswersOfTabs
    <3>2. \A t \in Tabs : /\ shows'[t] = None => tabDetail'[t] = None
                          /\ tabDetail'[t] # None => t \in has'
      BY <2>1 DEF AnswersOfTabs, DataType
    <3>3. \A t \in leaked' : shows'[t] = Gone
      BY <2>1, <1>2 DEF AnswersOfTabs, NoteLate
    <3> QED
      BY <3>1, <3>2, <3>3 DEF AnswersOfTabs
  <2>5. OwnShown'
    BY <2>1 DEF OwnShown, TabShowsItsSession, DataType
  <2>6. TabLoadingHasRequest' /\ RootLoadingHasRequest'
    BY DEF TabLoadingHasRequest, RootLoadingHasRequest
  <2>7. DataOfOpenTabs'
    BY DEF DataOfOpenTabs, NoteLate
  <2> QED
    BY <1>1, <2>2, <2>3, <2>4, <2>5, <2>6, <2>7
<1>7. CASE FetchFails(r)
  <2> USE <1>2, <1>7 DEF FetchFails, DataInv, layoutVars
  <2>1. DataType'
    BY DEF DataType, NoteLate
  <2>2. FetchType' /\ OwnShown'
    BY DEF FetchType, OwnShown, TabShowsItsSession
  <2>5. \A t \in leaked' : shows'[t] = Gone
    BY DEF AnswersOfTabs, NoteLate
  <2>6. AnswersOfTabs'
    BY <2>5 DEF AnswersOfTabs
  <2>3. TabLoadingHasRequest' /\ RootLoadingHasRequest'
    BY DEF TabLoadingHasRequest, RootLoadingHasRequest
  <2>4. DataOfOpenTabs'
    BY DEF DataOfOpenTabs, NoteLate
  <2> QED
    BY <1>1, <2>1, <2>2, <2>3, <2>4, <2>6
<1> QED
  BY <1>3, <1>4, <1>5, <1>6, <1>7 DEF Answer
-----------------------------------------------------------------------------
\* A refresh keeps the invariant.
LEMMA RefreshKeeps ==
  ASSUME Inv, NEW s \in Sessions, Grow(s) \/ UserRefresh(s) \/ Refreshing(s)
  PROVE  Inv'
<1> USE DEF Inv
<1>1. LayoutType'
  BY DEF Refreshing, Grow, UserRefresh, FileEvent, RefreshTimer, RefreshReads, RefreshLands,
         RefreshFails, layoutVars, LayoutType
<1>2. Content(s) \in Contents /\ Content(s).session = s
  BY DEF Content, Contents, RefreshType
<1>a. detail \in Contents \cup {None} /\ error \in BOOLEAN
  BY DEF DataInv, DataType
<1>3. CASE Grow(s)
  <2> USE <1>3 DEF Grow
  <2>1. RefreshType' /\ ReadsOfSessions'
    BY DEF RefreshType, ReadsOfSessions
  <2>2. DataInv'
    BY <1>a, DataUnchanged DEF layoutVars, rootVars
  <2> QED
    BY <1>1, <2>1, <2>2
<1>4. CASE UserRefresh(s) \/ RefreshTimer(s)
  <2> USE <1>4 DEF UserRefresh, RefreshTimer, BeginRefresh
  <2>1. RefreshType' /\ ReadsOfSessions'
    BY DEF RefreshType, ReadsOfSessions
  <2>2. DataInv'
    BY <1>a, DataUnchanged DEF layoutVars, rootVars
  <2> QED
    BY <1>1, <2>1, <2>2
<1>5. CASE FileEvent(s)
  <2> USE <1>5 DEF FileEvent
  <2>1. EventTargets(s) \subseteq Sessions \/ ~Heard(s)
    BY DEF Heard, EventTargets, TabsViewing, Selected, Visible, LayoutType
  <2>2. RefreshType' /\ ReadsOfSessions'
    BY <2>1 DEF RefreshType, ReadsOfSessions
  <2>3. DataInv'
    BY <1>a, DataUnchanged DEF layoutVars, rootVars
  <2> QED
    BY <1>1, <2>2, <2>3
<1>6. CASE RefreshReads(s)
  <2> USE <1>6 DEF RefreshReads
  <2>1. RefreshType' /\ ReadsOfSessions'
    BY <1>2 DEF RefreshType, ReadsOfSessions
  <2>2. DataInv'
    BY <1>a, DataUnchanged DEF layoutVars, rootVars
  <2> QED
    BY <1>1, <2>1, <2>2
<1>7. CASE RefreshFails(s)
  <2> USE <1>7 DEF RefreshFails, EndRefresh
  <2>1. RefreshType' /\ ReadsOfSessions'
    BY DEF RefreshType, ReadsOfSessions
  <2>2. DataInv'
    BY <1>a, DataUnchanged DEF layoutVars, rootVars
  <2> QED
    BY <1>1, <2>1, <2>2
<1>8. CASE RefreshLands(s)
  <2> USE <1>8 DEF RefreshLands
  <2>1. RefreshType' /\ ReadsOfSessions'
    BY DEF EndRefresh, RefreshType, ReadsOfSessions
  <2>2. read[s] \in Contents /\ read[s].session = s
    BY DEF RefreshType, ReadsOfSessions
  <2>3. \A t \in TabsViewing(s) : t \in Open /\ (UniqueIds => shows[t] = s)
    BY DEF TabsViewing, UniqueIds
  <2>4. /\ detail' \in Contents \cup {None}
        /\ tabDetail' \in [Tabs -> Contents \cup {None}]
        /\ \A t \in Tabs :
             \/ tabDetail'[t] = tabDetail[t]
             \/ /\ t \in has \cap Open /\ tabDetail'[t] = read[s]
                /\ UniqueIds => shows[t] = s
    <3>a. detail \in Contents \cup {None} /\ tabDetail \in [Tabs -> Contents \cup {None}] /\ has \subseteq Tabs
      BY DEF DataInv, DataType
    <3>1. CASE UNCHANGED <<detail, tabDetail>>
      BY <3>a, <3>1
    <3>2. CASE /\ detail' = read[s]
               /\ tabDetail' = [t \in Tabs |-> IF t \in TabsViewing(s) \cap has THEN read[s] ELSE tabDetail[t]]
      BY <2>2, <2>3, <3>a, <3>2
    <3> QED
      BY <3>1, <3>2
  <2>5. UNCHANGED <<shows, has, tabLoading, tabError, loading, error, gen, fetches, stranded, leaked>>
    BY DEF layoutVars, fetchVars
  <2>6. DataType' /\ FetchType'
    BY <2>4, <2>5 DEF DataInv, DataType, FetchType
  <2>7. AnswersOfTabs' /\ OwnShown'
    BY <2>2, <2>4, <2>5 DEF DataInv, AnswersOfTabs, OwnShown, TabShowsItsSession
  <2>8. TabLoadingHasRequest' /\ RootLoadingHasRequest' /\ DataOfOpenTabs'
    BY <2>5 DEF DataInv, TabLoadingHasRequest, RootLoadingHasRequest, DataOfOpenTabs
  <2> QED
    BY <1>1, <2>1, <2>6, <2>7, <2>8 DEF DataInv
<1> QED
  BY <1>3, <1>4, <1>5, <1>6, <1>7, <1>8 DEF Refreshing
-----------------------------------------------------------------------------
\* The initial states satisfy the invariant.
LEMMA InitInv == Init => Inv
<1> SUFFICES ASSUME Init PROVE Inv
  OBVIOUS
<1> USE DEF Init
<1>a. 1 \in 1..MaxShape /\ 0 \in 0..MaxText /\ 0 \in 0..MaxFetches
  OBVIOUS
<1>1. \A s \in Sessions : Content(s) \in Contents
  <2> SUFFICES ASSUME NEW s \in Sessions
               PROVE  Content(s) \in Contents
    OBVIOUS
  <2>1. file[s].shape = 1 /\ file[s].text = 0
    OBVIOUS
  <2> QED
    BY <1>a, <2>1 DEF Content, Contents
<1>2. LayoutType /\ RefreshType /\ ReadsOfSessions
  BY <1>a, <1>1 DEF LayoutType, RefreshType, ReadsOfSessions
<1>b. loading \in BOOLEAN /\ error \in BOOLEAN
  BY Zenon
<1>3. DataType /\ FetchType
  BY <1>a, <1>b DEF DataType, FetchType
<1>4. AnswersOfTabs /\ OwnShown /\ TabLoadingHasRequest /\ RootLoadingHasRequest /\ DataOfOpenTabs
  BY DEF AnswersOfTabs, OwnShown, TabShowsItsSession, TabLoadingHasRequest, RootLoadingHasRequest, DataOfOpenTabs
<1> QED
  BY <1>2, <1>3, <1>4 DEF Inv, DataInv

\* Every step keeps it.
LEMMA NextInv ==
  ASSUME Inv, [Next]_vars
  PROVE  Inv'
<1>1. CASE Windowing
  BY <1>1, WindowingKeeps
<1>2. ASSUME NEW r \in fetches, Answer(r)
      PROVE  Inv'
  BY <1>2, AnswerKeeps
<1>3. ASSUME NEW s \in Sessions, Grow(s) \/ UserRefresh(s) \/ Refreshing(s)
      PROVE  Inv'
  BY <1>3, RefreshKeeps
<1>4. CASE UNCHANGED vars \/ MuteWatcher
  <2> USE <1>4 DEF vars, MuteWatcher, layoutVars, rootVars, refreshVars
  <2>1. DataInv'
    BY DataUnchanged DEF Inv, DataInv, DataType
  <2>2. LayoutType'
    BY DEF Inv, LayoutType
  <2>3. RefreshType' /\ ReadsOfSessions'
    BY DEF Inv, RefreshType, ReadsOfSessions
  <2> QED
    BY <2>1, <2>2, <2>3 DEF Inv
<1> QED
  BY <1>1, <1>2, <1>3, <1>4 DEF Next

LEMMA Invariance == Spec => []Inv
<1>1. Inv /\ [Next]_vars => Inv'
  BY NextInv
<1> QED
  BY <1>1, InitInv, PTL DEF Spec
-----------------------------------------------------------------------------
\* That a noticed change is read is inductive but for what the functions are
\* defined on: it needs nothing of what is shown.
NoticeInv ==
  /\ file = [s \in Sessions |-> file[s]]
  /\ read = [s \in Sessions |-> read[s]]
  /\ lastRead = [s \in Sessions |-> lastRead[s]]
  /\ NoticedChangeIsRead

Noticed(s) ==
  \/ s \in event \cup due \cup queued \cup missed
  \/ s \in inFlight /\ read[s] = None
  \/ lastRead[s] = Content(s)

\* Only what happens to the session itself matters.
LEMMA NoticeKept ==
  ASSUME NoticeInv, NEW s \in Sessions,
         \A t \in Sessions \ {s} :
           /\ file'[t] = file[t] /\ read'[t] = read[t] /\ lastRead'[t] = lastRead[t]
           /\ t \in event \cup due \cup queued \cup missed =>
                t \in event' \cup due' \cup queued' \cup missed'
           /\ t \in inFlight => t \in inFlight',
         /\ file' = [t \in Sessions |-> file'[t]]
         /\ read' = [t \in Sessions |-> read'[t]]
         /\ lastRead' = [t \in Sessions |-> lastRead'[t]],
         Noticed(s)'
  PROVE  NoticeInv'
<1>1. \A t \in Sessions : Noticed(t)
  BY DEF NoticeInv, NoticedChangeIsRead, Noticed
<1>2. \A t \in Sessions \ {s} : Noticed(t)'
  BY <1>1 DEF Noticed, Content
<1>3. NoticedChangeIsRead'
  BY <1>2 DEF NoticedChangeIsRead, Noticed
<1> QED
  BY <1>3 DEF NoticeInv

LEMMA NextNoticeInv == NoticeInv /\ [Next]_vars => NoticeInv'
<1> SUFFICES ASSUME NoticeInv, [Next]_vars PROVE NoticeInv'
  OBVIOUS
<1> USE DEF NoticeInv
<1>1. ASSUME UNCHANGED <<file, refreshVars>> PROVE NoticeInv'
  BY <1>1 DEF refreshVars, NoticedChangeIsRead, Content
<1>2. CASE Windowing
  <2>1. UNCHANGED <<file, refreshVars>>
    BY <1>2 DEF Windowing, OpenTab, ReplaceTab, SetActiveTab, SelectSession, Retry, CloseOtherTabs,
       SetActivePage, ClosePane, CloseTabs, CloseAllTabs, SelectProject, ClearActiveProject, CloseAndActivate
  <2> QED
    BY <1>1, <2>1
<1>3. ASSUME NEW r \in fetches, Answer(r) PROVE NoticeInv'
  BY <1>1, <1>3 DEF Answer, FetchReads, FetchDiscarded, FetchUnviewed, FetchLands, FetchFails
<1>4. ASSUME NEW s \in Sessions, Grow(s) PROVE NoticeInv'
  <2>1. Noticed(s)'
    BY <1>4 DEF Grow, Noticed
  <2> QED
    BY <1>4, <2>1, NoticeKept DEF Grow
<1>5. ASSUME NEW s \in Sessions, FileEvent(s) PROVE NoticeInv'
  <2>1. Noticed(s)'
    BY <1>5 DEF FileEvent, Noticed
  <2> QED
    BY <1>5, <2>1, NoticeKept DEF FileEvent
<1>6. ASSUME NEW s \in Sessions, UserRefresh(s) \/ RefreshTimer(s) PROVE NoticeInv'
  <2>1. Noticed(s)'
    BY <1>6 DEF UserRefresh, RefreshTimer, BeginRefresh, Noticed, NoticedChangeIsRead, Content
  <2> QED
    BY <1>6, <2>1, NoticeKept DEF UserRefresh, RefreshTimer, BeginRefresh
<1>7. ASSUME NEW s \in Sessions, RefreshReads(s) PROVE NoticeInv'
  <2>1. Noticed(s)'
    BY <1>7 DEF RefreshReads, Noticed, Content
  <2> QED
    BY <1>7, <2>1, NoticeKept DEF RefreshReads
<1>8. ASSUME NEW s \in Sessions, RefreshLands(s) PROVE NoticeInv'
  <2>1. Noticed(s)'
    BY <1>8 DEF RefreshLands, EndRefresh, Noticed, NoticedChangeIsRead, Content
  <2> QED
    BY <1>8, <2>1, NoticeKept DEF RefreshLands, EndRefresh
<1>9. ASSUME NEW s \in Sessions, RefreshFails(s) PROVE NoticeInv'
  <2>1. Noticed(s)'
    BY <1>9 DEF RefreshFails, EndRefresh, Noticed
  <2> QED
    BY <1>9, <2>1, NoticeKept DEF RefreshFails, EndRefresh
<1>10. CASE UNCHANGED vars \/ MuteWatcher
  BY <1>1, <1>10 DEF vars, MuteWatcher
<1> QED
  BY <1>2, <1>3, <1>4, <1>5, <1>6, <1>7, <1>8, <1>9, <1>10 DEF Next, Refreshing
-----------------------------------------------------------------------------
\* The two flags of the selection and the listener, which nothing else is about.
LEMMA FlagsKept == Spec => []FlagType
<1>1. Init => FlagType
  BY DEF Init, FlagType
<1>2. FlagType /\ [Next]_vars => FlagType'
  <2> SUFFICES ASSUME FlagType, [Next]_vars PROVE FlagType'
    OBVIOUS
  <2>1. CASE Windowing
    <3>1. muted' = muted
      BY <2>1 DEF Windowing, OpenTab, ReplaceTab, SetActiveTab, SelectSession, Retry, CloseOtherTabs,
         SetActivePage, ClosePane, CloseTabs, CloseAllTabs, SelectProject, ClearActiveProject,
         CloseAndActivate
    <3>2. project' \in BOOLEAN
      <4> USE DEF FlagType
      <4>1. ASSUME NEW t \in Tabs, NEW s \in Sessions, OpenTab(t, s) \/ ReplaceTab(t, s)
            PROVE  project' \in BOOLEAN
        BY <4>1, Zenon DEF OpenTab, ReplaceTab, SyncSidebar
      <4>2. ASSUME NEW t \in Tabs, SetActiveTab(t) \/ SelectSession(t) \/ Retry(t)
            PROVE  project' \in BOOLEAN
        BY <4>2, Zenon DEF SetActiveTab, SyncSidebar, SelectSession, Retry
      <4>3. ASSUME NEW closing, NEW next, NEW pane, NEW cleaned, CloseAndActivate(closing, next, pane, cleaned)
            PROVE  project' \in BOOLEAN
        BY <4>3, Zenon DEF CloseAndActivate, SyncSidebar
      <4>4. ASSUME NEW pane, SetActivePage(pane)
            PROVE  project' \in BOOLEAN
        BY <4>4, Zenon DEF SetActivePage
      <4>5. CASE CloseAllTabs \/ SelectProject \/ ClearActiveProject
        BY <4>5, Zenon DEF CloseAllTabs, SelectProject, ClearActiveProject
      <4> QED
        BY <2>1, <4>1, <4>2, <4>3, <4>4, <4>5 DEF Windowing, CloseOtherTabs, ClosePane, CloseTabs
    <3> QED
      BY <3>1, <3>2 DEF FlagType
  <2>2. ASSUME NEW r \in fetches, Answer(r) PROVE FlagType'
    BY <2>2 DEF Answer, FetchReads, FetchDiscarded, FetchUnviewed, FetchLands, FetchFails, FlagType
  <2>3. ASSUME NEW s \in Sessions, Grow(s) \/ UserRefresh(s) \/ Refreshing(s) PROVE FlagType'
    BY <2>3 DEF Grow, UserRefresh, Refreshing, FileEvent, RefreshTimer, RefreshReads, RefreshLands,
       RefreshFails, FlagType
  <2>4. CASE MuteWatcher
    BY <2>4 DEF MuteWatcher, FlagType
  <2>5. CASE UNCHANGED vars
    BY <2>5 DEF vars, FlagType
  <2> QED
    BY <2>1, <2>2, <2>3, <2>4, <2>5 DEF Next
<1> QED
  BY <1>1, <1>2, PTL DEF Spec

\* The types, and that the active tab of a pane is one of its open tabs, that
\* generations are used once and only tabs with data load.
THEOREM Typing == Spec => []TypeOK
<1>1. Inv /\ FlagType => TypeOK
  BY DEF Inv, DataInv, TypeOK
<1> QED
  BY <1>1, Invariance, FlagsKept, PTL

\* If no two sessions have the same id, an open tab shows its own session or
\* nothing, however fetches and refreshes are answered.
THEOREM OwnSession ==
  ASSUME UniqueIds
  PROVE  Spec => []TabShowsItsSession
<1>1. Inv => TabShowsItsSession
  BY DEF Inv, DataInv, OwnShown
<1> QED
  BY <1>1, Invariance, PTL

\* What is loading waits for the last fetch, but for tabs whose fetch was
\* superseded or came when its session was not viewed.
THEOREM LoadingIsAwaited == Spec => []LoadingHasRequest
<1>1. Inv => LoadingHasRequest
  BY DEF Inv, DataInv, LoadingHasRequest
<1> QED
  BY <1>1, Invariance, PTL

\* The data of a tab that is not open is there only by a bulk close or an answer
\* that came after the tab had closed.
THEOREM DataIsOfOpenTabs == Spec => []DataOfOpenTabs
<1>1. Inv => DataOfOpenTabs
  BY DEF Inv, DataInv
<1> QED
  BY <1>1, Invariance, PTL

\* Neither the throttle of the events nor a refresh already in flight loses a
\* change of a session file: until the file is read as it is now, something that
\* will read it is pending, unless the listener dropped the event (the watcher
\* was muted, no project selected, the session not viewed), a refresh found the
\* session not viewed any more, or the reading failed.
THEOREM ChangesAreRead == Spec => []NoticedChangeIsRead
<1>1. Init => NoticeInv
  BY DEF Init, NoticeInv, NoticedChangeIsRead
<1>2. NoticeInv => NoticedChangeIsRead
  BY DEF NoticeInv
<1> QED
  BY <1>1, <1>2, NextNoticeInv, PTL DEF Spec
-----------------------------------------------------------------------------
\* A refresh is put off only while one of the session is in flight, and nothing is
\* read by one that is not.
PutOffIsAwaited ==
  /\ queued \subseteq inFlight
  /\ \A s \in Sessions : read[s] # None => s \in inFlight

QueueInv ==
  /\ read = [s \in Sessions |-> read[s]]
  /\ queued \subseteq Sessions
  /\ PutOffIsAwaited

\* One put off is not forgotten: it begins anew, with nothing read, or its session
\* is found not viewed.
PutOffIsKept ==
  \A s \in queued \ queued' : read'[s] = None /\ (s \in inFlight' \/ s \in missed')

LEMMA NextQueueInv == QueueInv /\ [Next]_vars => QueueInv' /\ PutOffIsKept
<1> SUFFICES ASSUME QueueInv, [Next]_vars PROVE QueueInv' /\ PutOffIsKept
  OBVIOUS
<1> USE DEF QueueInv, PutOffIsAwaited, PutOffIsKept
<1>1. ASSUME UNCHANGED refreshVars PROVE QueueInv' /\ PutOffIsKept
  BY <1>1 DEF refreshVars
<1>2. CASE Windowing
  <2>1. UNCHANGED refreshVars
    BY <1>2 DEF Windowing, OpenTab, ReplaceTab, SetActiveTab, SelectSession, Retry, CloseOtherTabs,
       SetActivePage, ClosePane, CloseTabs, CloseAllTabs, SelectProject, ClearActiveProject, CloseAndActivate
  <2> QED
    BY <1>1, <2>1
<1>3. ASSUME NEW r \in fetches, Answer(r) PROVE QueueInv' /\ PutOffIsKept
  BY <1>1, <1>3 DEF Answer, FetchReads, FetchDiscarded, FetchUnviewed, FetchLands, FetchFails
<1>4. ASSUME NEW s \in Sessions, Grow(s) \/ FileEvent(s) PROVE QueueInv' /\ PutOffIsKept
  BY <1>4 DEF Grow, FileEvent
<1>5. ASSUME NEW s \in Sessions, UserRefresh(s) \/ RefreshTimer(s) PROVE QueueInv' /\ PutOffIsKept
  BY <1>5 DEF UserRefresh, RefreshTimer, BeginRefresh
<1>6. ASSUME NEW s \in Sessions, RefreshReads(s) PROVE QueueInv' /\ PutOffIsKept
  BY <1>6 DEF RefreshReads
<1>7. ASSUME NEW s \in Sessions, EndRefresh(s) PROVE QueueInv' /\ PutOffIsKept
  BY <1>7 DEF EndRefresh
<1>8. ASSUME NEW s \in Sessions, RefreshLands(s) PROVE QueueInv' /\ PutOffIsKept
  BY <1>7, <1>8 DEF RefreshLands
<1>9. ASSUME NEW s \in Sessions, RefreshFails(s) PROVE QueueInv' /\ PutOffIsKept
  BY <1>7, <1>9 DEF RefreshFails
<1>10. CASE UNCHANGED vars \/ MuteWatcher
  BY <1>1, <1>10 DEF vars, MuteWatcher
<1> QED
  BY <1>2, <1>3, <1>4, <1>5, <1>6, <1>8, <1>9, <1>10 DEF Next, Refreshing

LEMMA QueueInvariance == Spec => []QueueInv
<1>1. Init => QueueInv
  BY DEF Init, QueueInv, PutOffIsAwaited
<1> QED
  BY <1>1, NextQueueInv, PTL DEF Spec

\* A refresh that is put off has one to wait for: refreshSessionInPlace queues only
\* behind a call, and the finally of that call takes it up.
THEOREM QueuedIsAwaited == Spec => []PutOffIsAwaited
<1>1. QueueInv => PutOffIsAwaited
  BY DEF QueueInv
<1> QED
  BY <1>1, QueueInvariance, PTL

\* It is taken up by another call, that has read nothing yet, or dropped with its
\* session noted as not viewed; however the call it waited for ended.
THEOREM QueuedIsTakenUp == Spec => [][PutOffIsKept]_vars
<1>1. QueueInv /\ [Next]_vars => PutOffIsKept
  BY NextQueueInv
<1> QED
  BY <1>1, QueueInvariance, PTL DEF Spec
=============================================================================
