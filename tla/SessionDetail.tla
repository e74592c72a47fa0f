---------------------------- MODULE SessionDetail ----------------------------
(***************************************************************************)
(* How a session tab gets its conversation.  Opening or activating a tab   *)
(* starts a fetch that answers later; one generation counter, shared by    *)
(* all tabs, tells the last fetch from the others.  A change of the        *)
(* session file makes the backend send an event; the front end refreshes   *)
(* the session in place, at most one refresh of a session at a time.  What *)
(* came is kept once in the root of the store and once per tab.            *)
(*                                                                         *)
(* A session is a session of a project, and IdOf its id, which another     *)
(* project may use too.  The content of a file is a pair of counters: its  *)
(* shape (the number of chunks, the id of the last, whether the session is *)
(* ongoing) and the text its last chunk has grown by.  Which pane a tab is *)
(* in is fixed; the layout itself is in Panes.                             *)
(***************************************************************************)
EXTENDS Naturals

CONSTANTS Sessions, Ids, IdOf, Tabs, Panes, PaneOf, None, Gone,
          MaxFetches, MaxShape, MaxText,
          ByHand  \* the sessions the user refreshes by hand: all of them, or fewer as a bound

ASSUME DetailAssumption ==
  /\ IdOf \in [Sessions -> Ids]
  /\ PaneOf \in [Tabs -> Panes]
  /\ None \notin Sessions \cup Tabs /\ Gone \notin Sessions \cup {None}
  /\ MaxFetches \in Nat /\ MaxShape \in Nat \ {0} /\ MaxText \in Nat
  /\ ByHand \subseteq Sessions

VARIABLES
  shows,       \* the session of a tab: None before it is opened, Gone once closed
  active,      \* the active tab of each pane; None when it is not a session
  focus,       \* the focused pane
  project,     \* whether a project is selected (selectedProjectId),
  selected,    \*   and the session; None when only a project is selected, or nothing
  muted,       \* whether the last maintenance:mute-watcher muted the listener
  has,         \* the tabs with an entry in tabSessionData,
  tabLoading,  \*   those of them loading,
  tabError,    \*   those that failed to load,
  tabDetail,   \*   and what each shows
  detail, loading, error,  \* sessionDetail and its flags, in the root
  gen,         \* sessionDetailFetchGeneration
  fetches,     \* the fetches not answered yet
  file,        \* the session files
  event,       \* sessions with a file event on its way
  due,         \* sessions with a refresh timer running
  inFlight,    \* sessionRefreshInFlight
  read,        \* what the refresh of a session has read
  queued,      \* sessionRefreshQueued
  stranded,    \* history: tabs whose fetch was superseded or came unviewed
  leaked,      \* history: tabs that kept, or got, data when or after they closed
  lastRead,    \* history: what the last refresh of a session read
  missed       \* history: sessions of which an event was dropped or a refresh came to nothing

layoutVars == <<shows, active, focus>>
selection == <<project, selected>>
outside == <<file, muted>>
tabVars == <<has, tabLoading, tabError, tabDetail>>
rootVars == <<detail, loading, error>>
fetchVars == <<gen, fetches, stranded>>
refreshVars == <<event, due, inFlight, read, queued, lastRead, missed>>
vars == <<layoutVars, selection, tabVars, rootVars, fetchVars, outside, refreshVars, leaked>>

Open == {t \in Tabs : shows[t] \in Sessions}
ActiveTab == active[focus]

\* The session counts as viewed by its id alone, whatever its project.
Selected(s) == selected # None /\ IdOf[selected] = IdOf[s]
TabsViewing(s) == {t \in Open : IdOf[shows[t]] = IdOf[s]}
Visible(s) == \E p \in Panes : active[p] \in TabsViewing(s)

Content(s) == [session |-> s, shape |-> file[s].shape, text |-> file[s].text]

\* The test of refreshSessionInPlace for nothing new.
SameShape(a, b) == a # None /\ b # None /\ a.session = b.session /\ a.shape = b.shape

Init ==
  /\ shows = [t \in Tabs |-> None]
  /\ active = [p \in Panes |-> None]
  /\ focus \in Panes
  /\ project = FALSE /\ selected = None /\ muted = FALSE
  /\ has = {} /\ tabLoading = {} /\ tabError = {}
  /\ tabDetail = [t \in Tabs |-> None]
  /\ detail = None /\ loading = FALSE /\ error = FALSE
  /\ gen = 0 /\ fetches = {} /\ stranded = {}
  /\ file = [s \in Sessions |-> [shape |-> 1, text |-> 0]]
  /\ event = {} /\ due = {} /\ inFlight = {} /\ queued = {} /\ missed = {}
  /\ read = [s \in Sessions |-> None]
  /\ lastRead = [s \in Sessions |-> Content(s)]
  /\ leaked = {}
-----------------------------------------------------------------------------
\* What is left of the data of the tabs when those of cleaned were dropped.
Cleaned(cleaned) == [t \in Tabs |-> IF t \in cleaned THEN None ELSE tabDetail[t]]

\* Mutants: no behaviour takes these steps.
StartFetchPostfix(s, tab, cleaned) ==
  /\ gen < MaxFetches
  /\ gen' = gen + 1
  /\ fetches' = fetches \cup {[gen |-> gen, session |-> s, tab |-> tab, read |-> None]}
  /\ stranded' = (stranded \cup {r.tab : r \in {f \in fetches : f.gen = gen}}) \ {tab}
  /\ loading' = TRUE /\ error' = FALSE
  /\ has' = (has \ cleaned) \cup {tab}
  /\ tabLoading' = (tabLoading \ cleaned) \cup {tab}
  /\ tabError' = tabError \ (cleaned \cup {tab})
  /\ tabDetail' = Cleaned(cleaned)

\* The synchronous part of fetchSessionDetail.
StartFetch(s, tab, cleaned) ==
  /\ gen < MaxFetches
  /\ gen' = gen + 1
  /\ fetches' = fetches \cup {[gen |-> gen + 1, session |-> s, tab |-> tab, read |-> None]}
  /\ stranded' = (stranded \cup {r.tab : r \in {f \in fetches : f.gen = gen}}) \ {tab}
  /\ loading' = TRUE /\ error' = FALSE
  /\ has' = (has \ cleaned) \cup {tab}
  /\ tabLoading' = (tabLoading \ cleaned) \cup {tab}
  /\ tabError' = tabError \ (cleaned \cup {tab})
  /\ tabDetail' = Cleaned(cleaned)

DropData(cleaned) ==
  /\ has' = has \ cleaned
  /\ tabLoading' = tabLoading \ cleaned
  /\ tabError' = tabError \ cleaned
  /\ tabDetail' = Cleaned(cleaned)

\* syncSidebarForSessionTab: data kept for the tab is used, a tab that is
\* loading is left alone, and any other starts a fetch.
SyncSidebar(tab, s, cleaned) ==
  /\ project' = TRUE /\ selected' = s
  /\ \/ /\ Cleaned(cleaned)[tab] # None
        /\ DropData(cleaned)
        /\ IF project /\ selected = s THEN UNCHANGED rootVars
           ELSE detail' = tabDetail[tab] /\ loading' = FALSE /\ error' = FALSE
        /\ UNCHANGED fetchVars
     \/ /\ Cleaned(cleaned)[tab] = None
        /\ tab \in tabLoading \ cleaned
        /\ DropData(cleaned)
        /\ UNCHANGED <<rootVars, fetchVars>>
     \/ /\ Cleaned(cleaned)[tab] = None
        /\ tab \notin tabLoading \ cleaned
        /\ StartFetch(s, tab, cleaned)
        /\ UNCHANGED detail

Focused(tab) ==
  /\ active' = [active EXCEPT ![PaneOf[tab]] = tab]
  /\ focus' = PaneOf[tab]

OpenTab(tab, s) ==
  /\ shows[tab] = None
  /\ PaneOf[tab] = focus
  /\ shows' = [shows EXCEPT ![tab] = s]
  /\ Focused(tab)
  /\ SyncSidebar(tab, s, {})
  /\ UNCHANGED <<outside, refreshVars, leaked>>

\* openTab with replaceActiveTab, of a session no tab shows: the tab keeps its id.
ReplaceTab(tab, s) ==
  /\ tab \in Open /\ ActiveTab = tab
  /\ \A t \in Open : shows[t] # s
  /\ shows' = [shows EXCEPT ![tab] = s]
  /\ SyncSidebar(tab, s, {tab})
  /\ UNCHANGED <<active, focus, outside, refreshVars, leaked>>

\* setActiveTab, and focusPane of the pane where the tab is active.
SetActiveTab(tab) ==
  /\ tab \in Open
  /\ Focused(tab)
  /\ SyncSidebar(tab, shows[tab], {})
  /\ UNCHANGED <<shows, outside, refreshVars, leaked>>

\* Another kind of tab becomes active in a pane.
SetActivePage(pane) ==
  /\ active' = [active EXCEPT ![pane] = None]
  /\ focus' = pane
  /\ UNCHANGED <<shows, selection, tabVars, rootVars, fetchVars, outside, refreshVars, leaked>>

\* selectSession: its callers have just activated a tab of the session.
SelectSession(tab) ==
  /\ tab \in Open /\ ActiveTab = tab /\ project
  /\ selected' = shows[tab]
  /\ StartFetch(shows[tab], tab, {})
  /\ detail' = None
  /\ UNCHANGED <<layoutVars, project, outside, refreshVars, leaked>>

\* selectProject, selectWorktree and selectRepository, which may find no worktree:
\* the tabs stay as they are.
SelectProject ==
  /\ project' \in {TRUE, project} /\ selected' = None
  /\ detail' = None
  /\ error' \in {FALSE, error}
  /\ UNCHANGED <<layoutVars, tabVars, loading, fetchVars, outside, refreshVars, leaked>>

\* Back to the projects: the session stays selected, without a project.
ClearActiveProject ==
  /\ project' = FALSE
  /\ UNCHANGED <<layoutVars, selected, tabVars, rootVars, fetchVars, outside, refreshVars, leaked>>

\* The retry button, which a visible tab shows when it or the root has an error.
Retry(tab) ==
  /\ tab \in Open /\ active[PaneOf[tab]] = tab
  /\ tab \in tabError \/ error
  /\ StartFetch(shows[tab], tab, {})
  /\ UNCHANGED <<layoutVars, selection, detail, outside, refreshVars, leaked>>
-----------------------------------------------------------------------------
\* The tabs of closing close and next becomes active where they were; the
\* data of the tabs in cleaned is dropped.  With no session tab to activate,
\* the data is all that changes.
CloseAndActivate(closing, next, pane, cleaned) ==
  /\ shows' = [t \in Tabs |-> IF t \in closing THEN Gone ELSE shows[t]]
  /\ focus' = pane
  /\ active' = [p \in Panes |-> IF p = pane THEN next
                                ELSE IF active[p] \in closing THEN None ELSE active[p]]
  /\ \/ next = None /\ DropData(cleaned) /\ UNCHANGED <<selection, rootVars, fetchVars>>
     \/ next # None /\ SyncSidebar(next, shows[next], cleaned)
  /\ UNCHANGED <<outside, refreshVars>>

SessionTabs(pane) == {t \in Open : PaneOf[t] = pane}

\* The pane that has the focus when another one goes.
FocusWithout(pane) == IF focus = pane THEN Panes \ {pane} ELSE {focus}

\* Mutants: no behaviour takes these steps.
CloseTabsKeepingData(closing, pane) ==
  LET rest == SessionTabs(pane) \ closing
  IN /\ closing # {}
     /\ pane = focus \/ \E t \in closing : closing = {t}
     /\ \/ /\ active[pane] \notin closing
           /\ CloseAndActivate(closing, active[pane], pane, {})
        \/ /\ active[pane] \in closing
           /\ \E next \in rest \cup {None} : CloseAndActivate(closing, next, pane, {})
        \/ /\ rest = {}
           /\ \E p \in FocusWithout(pane) : CloseAndActivate(closing, active[p], p, {})
     /\ UNCHANGED leaked

\* closeTab, and closeTabs of the tabs selected in the focused pane: the pane's
\* active tab, or a neighbour of it, is activated again; with no tab left the
\* pane may go, and the active tab of another pane is activated.
CloseTabs(closing, pane) ==
  LET rest == SessionTabs(pane) \ closing
  IN /\ closing # {}
     /\ pane = focus \/ \E t \in closing : closing = {t}
     /\ \/ /\ active[pane] \notin closing
           /\ CloseAndActivate(closing, active[pane], pane, closing)
        \/ /\ active[pane] \in closing
           /\ \E next \in rest \cup {None} : CloseAndActivate(closing, next, pane, closing)
        \/ /\ rest = {}
           /\ \E p \in FocusWithout(pane) : CloseAndActivate(closing, active[p], p, closing)
     /\ UNCHANGED leaked

Leaking(closing) == leaked' = leaked \cup (closing \cap has)

\* closeOtherTabs and closeTabsToRight: the data of the closed tabs stays.
CloseOtherTabs(closing, keep) ==
  LET pane == PaneOf[keep]
  IN /\ keep \in Open
     /\ \E next \in {keep} \cup ({active[pane]} \ closing) : CloseAndActivate(closing, next, pane, {})
     /\ Leaking(closing)

\* closePane: the data of its tabs stays.
ClosePane(pane) ==
  /\ \E p \in FocusWithout(pane) : CloseAndActivate(SessionTabs(pane), active[p], p, {})
  /\ Leaking(SessionTabs(pane))

\* closeAllTabs, and closeTab of the last tab of the only pane.
CloseAllTabs ==
  /\ shows' = [t \in Tabs |-> IF t \in Open THEN Gone ELSE shows[t]]
  /\ active' = [p \in Panes |-> None]
  /\ project' = FALSE /\ selected' = None
  /\ detail' = None
  /\ DropData(Open)
  /\ focus' \in Panes
  /\ UNCHANGED <<loading, error, fetchVars, outside, refreshVars, leaked>>
-----------------------------------------------------------------------------
\* The backend reads the file some time between the call and the answer.
FetchReads(r) ==
  /\ r.read = None
  /\ fetches' = (fetches \ {r}) \cup {[r EXCEPT !.read = Content(r.session)]}
  /\ UNCHANGED <<layoutVars, selection, tabVars, rootVars, gen, stranded, outside, refreshVars, leaked>>

StillViewing(s) ==
  Selected(s) \/ (ActiveTab # None /\ shows[ActiveTab] = s)

\* A superseded fetch ends at the first test of the generation after its answer.
FetchDiscarded(r) ==
  /\ r.gen # gen
  /\ fetches' = fetches \ {r}
  /\ UNCHANGED <<layoutVars, selection, tabVars, rootVars, gen, stranded, outside, refreshVars, leaked>>

\* The answer of the last fetch when its session is not viewed any more: only
\* the root stops loading.
FetchUnviewed(r) ==
  /\ r.gen = gen /\ r.read # None
  /\ ~StillViewing(r.session)
  /\ fetches' = fetches \ {r}
  /\ loading' = FALSE
  /\ stranded' = stranded \cup {r.tab}
  /\ UNCHANGED <<layoutVars, selection, tabVars, detail, error, gen, outside, refreshVars, leaked>>

NoteLate(tab) == leaked' = IF tab \in Open THEN leaked ELSE leaked \cup {tab}

\* Mutants: no behaviour takes these steps.
FetchLandsLate(r) ==
  /\ r.read # None
  /\ StillViewing(r.session)
  /\ fetches' = fetches \ {r}
  /\ detail' = r.read /\ loading' = FALSE
  /\ has' = has \cup {r.tab}
  /\ tabLoading' = tabLoading \ {r.tab}
  /\ tabError' = tabError \ {r.tab}
  /\ tabDetail' = [tabDetail EXCEPT ![r.tab] = r.read]
  /\ NoteLate(r.tab)
  /\ UNCHANGED <<layoutVars, selection, error, gen, stranded, outside, refreshVars>>

FetchLands(r) ==
  /\ r.gen = gen /\ r.read # None
  /\ StillViewing(r.session)
  /\ fetches' = fetches \ {r}
  /\ detail' = r.read /\ loading' = FALSE
  /\ has' = has \cup {r.tab}
  /\ tabLoading' = tabLoading \ {r.tab}
  /\ tabError' = tabError \ {r.tab}
  /\ tabDetail' = [tabDetail EXCEPT ![r.tab] = r.read]
  /\ NoteLate(r.tab)
  /\ UNCHANGED <<layoutVars, selection, error, gen, stranded, outside, refreshVars>>

\* Mutants: no behaviour takes these steps.
FetchFailsSilently(r) ==
  /\ r.gen = gen
  /\ fetches' = fetches \ {r}
  /\ UNCHANGED <<layoutVars, selection, tabVars, rootVars, gen, stranded, outside, refreshVars, leaked>>

FetchFails(r) ==
  /\ r.gen = gen
  /\ fetches' = fetches \ {r}
  /\ error' = TRUE /\ loading' = FALSE
  /\ has' = has \cup {r.tab}
  /\ tabLoading' = tabLoading \ {r.tab}
  /\ tabError' = tabError \cup {r.tab}
  /\ NoteLate(r.tab)
  /\ UNCHANGED <<layoutVars, selection, tabDetail, detail, gen, stranded, outside, refreshVars>>
-----------------------------------------------------------------------------
\* The CLI writes to the session file.
Grow(s) ==
  /\ \/ /\ file[s].shape < MaxShape
        /\ file' = [file EXCEPT ![s].shape = @ + 1]
     \/ /\ file[s].text < MaxText
        /\ file' = [file EXCEPT ![s].text = @ + 1]
  /\ event' = event \cup {s}
  /\ UNCHANGED <<layoutVars, selection, tabVars, rootVars, fetchVars, muted, leaked,
                 due, inFlight, read, queued, lastRead, missed>>

\* The session a change event is taken to be about: the project of the first
\* tab with that id, else the selected one.
EventTargets(s) ==
  IF TabsViewing(s) # {} THEN {shows[t] : t \in TabsViewing(s)} ELSE {selected}

\* The listener drops an event while the watcher is muted, without a selected
\* project, and of a session that is neither selected nor visible in a pane.
Heard(s) == ~muted /\ project /\ (Selected(s) \/ Visible(s))

\* onFileChange and scheduleSessionRefresh: a timer is running or started now.
FileEvent(s) ==
  /\ s \in event
  /\ event' = event \ {s}
  /\ IF Heard(s)
     THEN \E target \in EventTargets(s) :
            /\ due' = due \cup {target}
            /\ missed' = IF target = s THEN missed ELSE missed \cup {s}
     ELSE due' = due /\ missed' = missed \cup {s}
  /\ UNCHANGED <<layoutVars, selection, tabVars, rootVars, fetchVars, outside, leaked,
                 inFlight, read, queued, lastRead>>

\* Mutants: no behaviour takes these steps.
BeginRefreshOnce(s) ==
  IF (~Selected(s) /\ TabsViewing(s) = {}) \/ s \in inFlight
  THEN missed' = missed /\ UNCHANGED <<inFlight, read, queued>>
  ELSE /\ inFlight' = inFlight \cup {s}
       /\ read' = [read EXCEPT ![s] = None]
       /\ missed' = missed \ {s}
       /\ UNCHANGED queued

\* The synchronous part of refreshSessionInPlace.
BeginRefresh(s) ==
  IF ~Selected(s) /\ TabsViewing(s) = {}
  THEN missed' = missed \cup {s} /\ UNCHANGED <<inFlight, read, queued>>
  ELSE IF s \in inFlight
  THEN queued' = queued \cup {s} /\ UNCHANGED <<inFlight, read, missed>>
  ELSE /\ inFlight' = inFlight \cup {s}
       /\ read' = [read EXCEPT ![s] = None]
       /\ missed' = missed \ {s}
       /\ UNCHANGED queued

RefreshTimer(s) ==
  /\ s \in due
  /\ due' = due \ {s}
  /\ BeginRefresh(s)
  /\ UNCHANGED <<layoutVars, selection, tabVars, rootVars, fetchVars, outside, leaked, event, lastRead>>

\* Cmd+R and the refresh button.
UserRefresh(s) ==
  /\ s \in ByHand
  /\ s = selected \/ (ActiveTab # None /\ shows[ActiveTab] = s)
  /\ BeginRefresh(s)
  /\ UNCHANGED <<layoutVars, selection, tabVars, rootVars, fetchVars, outside, leaked, event, due, lastRead>>

RefreshReads(s) ==
  /\ s \in inFlight /\ read[s] = None
  /\ read' = [read EXCEPT ![s] = Content(s)]
  /\ lastRead' = [lastRead EXCEPT ![s] = Content(s)]
  /\ UNCHANGED <<layoutVars, selection, tabVars, rootVars, fetchVars, outside, leaked,
                 event, due, inFlight, queued, missed>>

\* Mutants: no behaviour takes these steps.
EndRefreshOnce(s) ==
  /\ inFlight' = inFlight \ {s}
  /\ read' = [read EXCEPT ![s] = None]
  /\ UNCHANGED <<queued, missed>>

\* The finally of refreshSessionInPlace: a queued refresh begins at once.
EndRefresh(s) ==
  \/ /\ s \notin queued
     /\ inFlight' = inFlight \ {s}
     /\ read' = [read EXCEPT ![s] = None]
     /\ UNCHANGED <<queued, missed>>
  \/ /\ s \in queued
     /\ queued' = queued \ {s}
     /\ read' = [read EXCEPT ![s] = None]
     /\ IF Selected(s) \/ TabsViewing(s) # {}
        THEN inFlight' = inFlight /\ missed' = missed \ {s}
        ELSE inFlight' = inFlight \ {s} /\ missed' = missed \cup {s}

\* Mutants: no behaviour takes these steps.
RefreshLandsInActiveTab(s) ==
  /\ s \in inFlight /\ read[s] # None
  /\ detail' = read[s]
  /\ tabDetail' = [t \in Tabs |-> IF t \in (TabsViewing(s) \cup {ActiveTab}) \cap has
                                 THEN read[s] ELSE tabDetail[t]]
  /\ EndRefresh(s)
  /\ UNCHANGED <<layoutVars, selection, has, tabLoading, tabError, loading, error,
                 fetchVars, outside, leaked, event, due, lastRead>>

\* The answer is shown in the root, whichever session is selected, and in every
\* tab with data of a session of that id; not at all when it looks like what
\* the root shows or nobody views the session any more.
RefreshLands(s) ==
  /\ s \in inFlight /\ read[s] # None
  /\ IF SameShape(read[s], detail) \/ (~Selected(s) /\ TabsViewing(s) = {})
     THEN UNCHANGED <<detail, tabDetail>>
     ELSE /\ detail' = read[s]
          /\ tabDetail' = [t \in Tabs |-> IF t \in TabsViewing(s) \cap has THEN read[s] ELSE tabDetail[t]]
  /\ EndRefresh(s)
  /\ UNCHANGED <<layoutVars, selection, has, tabLoading, tabError, loading, error,
                 fetchVars, outside, leaked, event, due, lastRead>>

\* The call fails: nothing is shown of it.
RefreshFails(s) ==
  /\ s \in inFlight /\ read[s] = None
  /\ \/ /\ s \notin queued
        /\ inFlight' = inFlight \ {s}
        /\ missed' = missed \cup {s}
        /\ UNCHANGED <<queued, read>>
     \/ s \in queued /\ EndRefresh(s)
  /\ UNCHANGED <<layoutVars, selection, tabVars, rootVars, fetchVars, outside, leaked, event, due, lastRead>>

\* A maintenance command mutes the listener, or has done; see MaintenanceService.
MuteWatcher ==
  /\ muted' = ~muted
  /\ UNCHANGED <<layoutVars, selection, tabVars, rootVars, fetchVars, file, refreshVars, leaked>>
-----------------------------------------------------------------------------
Windowing ==
  \/ \E t \in Tabs : \/ \E s \in Sessions : OpenTab(t, s) \/ ReplaceTab(t, s)
                     \/ SetActiveTab(t) \/ SelectSession(t) \/ Retry(t)
                     \/ \E closing \in SUBSET (SessionTabs(PaneOf[t]) \ {t}) : CloseOtherTabs(closing, t)
  \/ \E p \in Panes : \/ SetActivePage(p) \/ ClosePane(p)
                      \/ \E closing \in SUBSET SessionTabs(p) : CloseTabs(closing, p)
  \/ CloseAllTabs
  \/ SelectProject
  \/ ClearActiveProject

Answer(r) ==
  FetchReads(r) \/ FetchDiscarded(r) \/ FetchUnviewed(r) \/ FetchLands(r) \/ FetchFails(r)

Refreshing(s) ==
  FileEvent(s) \/ RefreshTimer(s) \/ RefreshReads(s) \/ RefreshLands(s) \/ RefreshFails(s)

Next ==
  \/ Windowing
  \/ \E r \in fetches : Answer(r)
  \/ \E s \in Sessions : Grow(s) \/ UserRefresh(s) \/ Refreshing(s)
  \/ MuteWatcher

Spec == Init /\ [][Next]_vars

\* The backend answers, and the timers and events of the front end run.
FairSpec ==
  /\ Spec
  /\ WF_vars(\E r \in fetches : Answer(r))
  /\ \A s \in Sessions : WF_vars(Refreshing(s))
-----------------------------------------------------------------------------
Contents == [session : Sessions, shape : 1..MaxShape, text : 0..MaxText]
Fetches == [gen : 1..MaxFetches, session : Sessions, tab : Tabs, read : Contents \cup {None}]

LayoutType ==
  /\ shows \in [Tabs -> Sessions \cup {None, Gone}]
  /\ active \in [Panes -> Tabs \cup {None}]
  /\ \A p \in Panes : active[p] # None => active[p] \in Open /\ PaneOf[active[p]] = p
  /\ focus \in Panes
  /\ selected \in Sessions \cup {None}

FlagType == project \in BOOLEAN /\ muted \in BOOLEAN

DataType ==
  /\ has \subseteq Tabs /\ tabLoading \subseteq has /\ tabError \subseteq has
  /\ tabDetail \in [Tabs -> Contents \cup {None}]
  /\ detail \in Contents \cup {None} /\ loading \in BOOLEAN /\ error \in BOOLEAN
  /\ leaked \subseteq Tabs

FetchType ==
  /\ gen \in 0..MaxFetches
  /\ fetches \subseteq Fetches
  /\ \A q, r \in fetches : q.gen <= gen /\ (q.gen = r.gen => q = r)
  /\ stranded \subseteq Tabs

RefreshType ==
  /\ file \in [Sessions -> [shape : 1..MaxShape, text : 0..MaxText]]
  /\ event \cup due \cup inFlight \cup queued \cup missed \subseteq Sessions
  /\ read \in [Sessions -> Contents \cup {None}]
  /\ lastRead \in [Sessions -> Contents]

\* TypeOK: and the active tab of a pane is an open tab of that pane, no two
\* fetches have the same generation, none a later one than the counter, and
\* only a tab with data is loading or failed.
TypeOK == LayoutType /\ FlagType /\ DataType /\ FetchType /\ RefreshType

\* TabShowsItsSession: whatever was opened, replaced, closed and answered in the
\* meantime, an open tab shows its own session or nothing.
TabShowsItsSession ==
  \A t \in Open : tabDetail[t] # None => tabDetail[t].session = shows[t]

\* LoadingHasRequest: a tab that shows it is loading waits for the last fetch,
\* unless that one was superseded by the fetch of another tab or came when the
\* session was not viewed: then nothing ends its loading but a new fetch.  The
\* root is loading only while the last fetch is under way.
RootLoadingHasRequest == loading => \E r \in fetches : r.gen = gen
TabLoadingHasRequest ==
  \A t \in tabLoading \cap Open :
    t \in stranded \/ \E r \in fetches : r.gen = gen /\ r.tab = t

LoadingHasRequest == RootLoadingHasRequest /\ TabLoadingHasRequest

\* DataOfOpenTabs: data kept for a tab that is not open was left by a bulk
\* close or written by an answer that came after the tab had closed.
DataOfOpenTabs == has \subseteq Open \cup leaked

\* NoticedChangeIsRead: at rest the last refresh of a session has read the file
\* as it is now, except where the event was dropped (the watcher was muted, no
\* project selected or the session not viewed), came to nothing when the session
\* was not viewed any more, or the call failed: neither the throttle nor a refresh
\* in flight loses a change.
NoticedChangeIsRead ==
  \A s \in Sessions :
    \/ s \in event \cup due \cup queued \cup missed
    \/ s \in inFlight /\ read[s] = None
    \/ lastRead[s] = Content(s)

\* RootLoadingEnds: the root does not load for ever.
RootLoadingEnds == <>[]~loading

\* QueuedRefreshBegins: a refresh put off because one was in flight begins, or
\* finds its session not viewed.
QueuedRefreshBegins == \A s \in Sessions : s \in queued ~> s \notin queued
=============================================================================
