------------------------------- MODULE Panes --------------------------------
(***************************************************************************)
(* The panes and tabs of the window: every operation of paneSlice.ts and   *)
(* tabSlice.ts that changes the layout.  An operation runs to its end      *)
(* before another starts; the hard part is what a long sequence of them    *)
(* does to the layout and to its copy in the root of the store.            *)
(*                                                                         *)
(* Pane and tab ids are random UUIDs: a new id is one never used before    *)
(* (tabs) or not in use (panes).  In Simple mode splitPane and             *)
(* moveTabToNewPane return at once: such a behaviour takes none of them.   *)
(***************************************************************************)
EXTENDS PaneLayout, FiniteSets

CONSTANTS PaneIds, TabIds, Sessions, MaxPanes

Page == "page"      \* what any tab shows that is not a session

ASSUME PanesAssumption ==
  /\ MaxPanes \in Nat \ {0}
  /\ None \notin PaneIds \cup TabIds \cup Sessions \cup {Page}
  /\ PaneIds # {}

VARIABLES
  layout,           \* paneLayout
  openTabs, activeTabId, selectedTabIds,   \* the focused pane's, in the root
  content,          \* what each tab shows: None while it was never opened
  forced,           \* the tabs opened with forceNewTab
  closed,           \* the tabs the user asked to close
  dropped           \* tabs split off the pane they were alone in

vars == <<layout, openTabs, activeTabId, selectedTabIds, content, forced, closed, dropped>>

Directions == {"left", "right"}

Open == OpenIn(layout)
FocusedPane == FindPane(layout, layout.focused)
HasFocus == layout.focused \in PaneIdsOf(layout)

\* syncFromLayout, syncRootState: the layout and its copy are set together.
SyncRootState(new) ==
  LET pane == IF new.focused \in PaneIdsOf(new) THEN FindPane(new, new.focused)
              ELSE EmptyPane(new.focused)
  IN /\ layout' = new
     /\ openTabs' = pane.tabs
     /\ activeTabId' = pane.active
     /\ selectedTabIds' = pane.selected

SessionOpen(s) == \E tab \in Open : content[tab] = s

\* The first tab of an open session, from the first pane on.
TabOfSession(s) ==
  LET shows(tab) == content[tab] = s
      pane == layout.panes[SelectInSeq(layout.panes, LAMBDA p : \E tab \in ToSet(p.tabs) : shows(tab))]
  IN pane.tabs[SelectInSeq(pane.tabs, shows)]

Keep == UNCHANGED <<content, forced, closed, dropped>>

Init ==
  /\ \E p \in PaneIds : layout = [panes |-> <<EmptyPane(p)>>, focused |-> p]
  /\ openTabs = <<>> /\ activeTabId = None /\ selectedTabIds = {}
  /\ content = [t \in TabIds |-> None]
  /\ forced = {} /\ closed = {} /\ dropped = {}
-----------------------------------------------------------------------------
\* A new tab at the end of the focused pane, active.
AddTab(tab, shows) ==
  /\ content[tab] = None
  /\ content' = [content EXCEPT ![tab] = shows]
  /\ SyncRootState(UpdatePane(layout,
       [FocusedPane EXCEPT !.tabs = Append(@, tab), !.active = tab]))

\* openTab of anything but a session, openDashboard.
OpenPage ==
  /\ HasFocus
  /\ \E tab \in TabIds : AddTab(tab, Page)
  /\ UNCHANGED <<forced, closed, dropped>>

\* openTab of a session that is open: its first tab is activated.
OpenExisting(s) ==
  /\ HasFocus
  /\ SessionOpen(s)
  /\ SyncRootState(Activate(layout, TabOfSession(s)))
  /\ Keep

\* Mutants: no behaviour takes these steps.
OpenReplacingAnyway(s) ==
  /\ HasFocus
  /\ FocusedPane.active # None
  /\ content' = [content EXCEPT ![FocusedPane.active] = s]
  /\ forced' = forced \ {FocusedPane.active}
  /\ SyncRootState(layout)
  /\ UNCHANGED <<closed, dropped>>

\* openTab with replaceActiveTab: the active tab keeps its id and shows s.
OpenReplacing(s) ==
  /\ HasFocus
  /\ ~SessionOpen(s)
  /\ FocusedPane.active # None
  /\ content' = [content EXCEPT ![FocusedPane.active] = s]
  /\ forced' = forced \ {FocusedPane.active}
  /\ SyncRootState(Activate(layout, FocusedPane.active))
  /\ UNCHANGED <<closed, dropped>>

\* openTab of a session in a new tab; forceNewTab when it is open already.
OpenSession(s) ==
  /\ HasFocus
  /\ \E tab \in TabIds :
       /\ AddTab(tab, s)
       /\ \/ ~SessionOpen(s) /\ forced' = forced
          \/ forced' = forced \cup {tab}
  /\ UNCHANGED <<closed, dropped>>

SetActiveTab(tab) ==
  /\ tab \in Open
  /\ SyncRootState(Activate(layout, tab))
  /\ Keep

FocusPane(paneId) ==
  /\ paneId # layout.focused
  /\ SyncRootState(ActivateFocused([layout EXCEPT !.focused = paneId]))
  /\ Keep

\* setSelectedTabIds, clearTabSelection: of the focused pane.
SetSelectedTabIds(ids) ==
  /\ HasFocus
  /\ SyncRootState(UpdatePane(layout, [FocusedPane EXCEPT !.selected = ids]))
  /\ Keep

ReorderTabInPane(paneId, from, to) ==
  LET pane == FindPane(layout, paneId)
  IN /\ from # to
     /\ SyncRootState(UpdatePane(layout,
          [pane EXCEPT !.tabs = InsertAt(RemoveAt(@, from), to, @[from])]))
     /\ Keep
-----------------------------------------------------------------------------
MoveTabToPane(tab, source, target, at) ==
  LET from == FindPane(layout, source)
      to == FindPane(layout, target)
      without == WithoutTab(from, tab)
      moved == UpdatePane(UpdatePane(layout, without),
                          [to EXCEPT !.tabs = InsertAt(@, at, tab), !.active = tab])
      left == IF without.tabs = <<>> THEN RemovePane(moved, source) ELSE moved
  IN /\ source # target
     /\ SyncRootState([left EXCEPT !.focused = target])
     /\ Keep

\* Mutants: no behaviour takes these steps.
IntoNewPaneInFront(tab, source, adjacent, direction, new) ==
  LET pane == [EmptyPane(new) EXCEPT !.tabs = <<tab>>, !.active = tab]
  IN [InsertPane(layout, adjacent, pane, direction) EXCEPT !.focused = new]

\* What splitPane and moveTabToNewPane do alike: the tab leaves its pane, a
\* pane left empty goes unless it is the only one, the new pane is inserted
\* beside the adjacent one, and the focus is set to it.
IntoNewPane(tab, source, adjacent, direction, new) ==
  LET from == FindPane(layout, source)
      pane == [EmptyPane(new) EXCEPT !.tabs = <<tab>>, !.active = tab]
      without == WithoutTab(from, tab)
      taken == UpdatePane(layout, without)
      left == IF without.tabs = <<>> THEN RemovePane(taken, source) ELSE taken
  IN [InsertPane(left, adjacent, pane, direction) EXCEPT !.focused = new]

\* The pane to insert beside is gone when the tab was alone in it.
NoteDropped(tab, source, adjacent) ==
  dropped' = IF /\ adjacent = source
                /\ ToSet(FindPane(layout, source).tabs) = {tab}
                /\ Len(layout.panes) > 1
             THEN dropped \cup {tab} ELSE dropped

\* A drop on the edge of a pane, or the keyboard with the adjacent pane = source.
MoveTabToNewPane(tab, source, adjacent, direction) ==
  /\ Len(layout.panes) < MaxPanes
  /\ \E new \in PaneIds \ (PaneIdsOf(layout) \cup {layout.focused}) :
       SyncRootState(IntoNewPane(tab, source, adjacent, direction, new))
  /\ NoteDropped(tab, source, adjacent)
  /\ UNCHANGED <<content, forced, closed>>

\* Mutants: no behaviour takes these steps.
SplitPaneAtLimit(tab, source, direction) ==
  /\ Len(layout.panes) <= MaxPanes
  /\ \E new \in PaneIds \ (PaneIdsOf(layout) \cup {layout.focused}) :
       SyncRootState(IntoNewPane(tab, source, source, direction, new))
  /\ NoteDropped(tab, source, source)
  /\ UNCHANGED <<content, forced, closed>>

\* The new pane is inserted beside the source: the test in the code for
\* another one (updatedSource.id !== sourcePaneId) is never true.
SplitPane(tab, source, direction) ==
  /\ Len(layout.panes) < MaxPanes
  /\ \E new \in PaneIds \ (PaneIdsOf(layout) \cup {layout.focused}) :
       LET split == IntoNewPane(tab, source, source, direction, new)
       IN SyncRootState(IF content[tab] = Page THEN split ELSE Activate(split, tab))
  /\ NoteDropped(tab, source, source)
  /\ UNCHANGED <<content, forced, closed>>
-----------------------------------------------------------------------------
NoteClosed(tabs) == closed' = closed \cup tabs /\ UNCHANGED <<content, forced, dropped>>

ClosePane(paneId) ==
  /\ Len(layout.panes) > 1
  /\ SyncRootState(ClosePaneIn(layout, paneId))
  /\ NoteClosed(ToSet(FindPane(layout, paneId).tabs))

\* closeTab: the pane goes with its last tab unless it is the only pane.
CloseTab(tab) ==
  LET pane == FindPaneByTabId(layout, tab)
      without == WithoutTab(pane, tab)
      rest == UpdatePane(layout, without)
  IN /\ tab \in Open
     /\ SyncRootState(IF without.tabs = <<>> /\ Len(layout.panes) > 1
                      THEN ClosePaneIn(layout, pane.id)
                      ELSE IF without.active = None THEN rest
                      ELSE Activate(rest, without.active))
     /\ NoteClosed({tab})

\* closeOtherTabs: of the pane the tab is in.
CloseOtherTabs(tab) ==
  LET pane == FindPaneByTabId(layout, tab)
      alone == [pane EXCEPT !.tabs = <<tab>>, !.active = tab, !.selected = {}]
  IN /\ tab \in Open
     /\ SyncRootState(Activate(UpdatePane(layout, alone), tab))
     /\ NoteClosed(ToSet(pane.tabs) \ {tab})

CloseTabsToRight(tab) ==
  LET pane == FindPaneByTabId(layout, tab)
      kept == SubSeq(pane.tabs, 1, SelectInSeq(pane.tabs, LAMBDA t : t = tab))
      cut == [pane EXCEPT !.tabs = kept, !.selected = {},
                          !.active = IF Contains(kept, @) THEN @ ELSE tab]
  IN /\ tab \in Open
     /\ SyncRootState(Activate(UpdatePane(layout, cut), cut.active))
     /\ NoteClosed(ToSet(pane.tabs) \ ToSet(kept))

\* closeAllTabs: the first pane stays, empty.
NoTabs == [panes |-> <<EmptyPane(layout.panes[1].id)>>, focused |-> layout.panes[1].id]

CloseAllTabs ==
  /\ SyncRootState(NoTabs)
  /\ NoteClosed(Open)

\* The layout closeTabs leaves.  A pane that would be left empty is not changed
\* but removed at the end, when other panes exist; as all ids are of one pane,
\* the loop over panesToRemove removes at most one.
ClosingTabs(ids) ==
  LET several == Len(layout.panes) > 1
      Emptied(p) == several /\ p.tabs # <<>> /\ ToSet(p.tabs) \subseteq ids
      others == [layout EXCEPT !.panes =
                   [i \in DOMAIN @ |->
                      IF Emptied(@[i]) \/ ToSet(@[i].tabs) \cap ids = {} THEN @[i]
                      ELSE WithoutTabs(@[i], ids)]]
      emptied == SelectInSeq(layout.panes, Emptied)
  IN IF OpenIn(others) = {} THEN NoTabs
     ELSE IF emptied = 0 THEN others
     ELSE RemovePane(others, layout.panes[emptied].id)

\* closeTabs: its callers close the selection of a pane.
CloseTabs(ids) ==
  /\ ids # {}
  /\ SyncRootState(ActivateFocused(ClosingTabs(ids)))
  /\ NoteClosed(ids)
-----------------------------------------------------------------------------
Opening ==
  \/ OpenPage
  \/ \E s \in Sessions : OpenExisting(s) \/ OpenReplacing(s) \/ OpenSession(s)

Focusing ==
  \/ \E tab \in Open : SetActiveTab(tab)
  \/ \E p \in PaneIdsOf(layout) : FocusPane(p)
  \/ \E ids \in SUBSET ToSet(openTabs) : SetSelectedTabIds(ids)

Moving ==
  \E p \in PaneIdsOf(layout) : LET tabs == FindPane(layout, p).tabs IN
    \/ \E i, j \in DOMAIN tabs : ReorderTabInPane(p, i, j)
    \/ \E i \in DOMAIN tabs, direction \in Directions :
         \/ SplitPane(tabs[i], p, direction)
         \/ \E q \in PaneIdsOf(layout) : MoveTabToNewPane(tabs[i], p, q, direction)
    \/ \E i \in DOMAIN tabs, q \in PaneIdsOf(layout) :
         \E at \in 1..(Len(FindPane(layout, q).tabs) + 1) : MoveTabToPane(tabs[i], p, q, at)

Closing ==
  \/ \E tab \in Open : CloseTab(tab) \/ CloseOtherTabs(tab) \/ CloseTabsToRight(tab)
  \/ \E p \in PaneIdsOf(layout) : ClosePane(p) \/ CloseTabs(FindPane(layout, p).selected)
  \/ CloseAllTabs

Next == Opening \/ Focusing \/ Moving \/ Closing

Spec == Init /\ [][Next]_vars
-----------------------------------------------------------------------------
PaneRecords == [id : PaneIds, tabs : Seq(TabIds), active : TabIds \cup {None}, selected : SUBSET TabIds]

\* TypeOK: there is always a pane, never more than MaxPanes, and no two have
\* the same id.
TypeOK ==
  /\ layout \in [panes : Seq(PaneRecords), focused : PaneIds]
  /\ Len(layout.panes) \in 1..MaxPanes
  /\ \A i, j \in DOMAIN layout.panes : layout.panes[i].id = layout.panes[j].id => i = j
  /\ openTabs \in Seq(TabIds)
  /\ activeTabId \in TabIds \cup {None}
  /\ selectedTabIds \subseteq TabIds
  /\ content \in [TabIds -> Sessions \cup {Page, None}]
  /\ forced \cup closed \cup dropped \subseteq TabIds

\* TabsConserved: whatever is opened, split, moved, reordered and closed, the
\* tabs in the panes are the opened ones but those the user closed and those
\* split off a pane they were alone in, and none is there twice.
InOnePlace(panes) ==
  \A i, j \in DOMAIN panes :
    \A k \in DOMAIN panes[i].tabs, m \in DOMAIN panes[j].tabs :
      panes[i].tabs[k] = panes[j].tabs[m] => i = j /\ k = m

TabsConserved ==
  /\ Open = {t \in TabIds : content[t] # None} \ (closed \cup dropped)
  /\ InOnePlace(layout.panes)

\* FocusAgrees: the active tab of a pane is one of its tabs, none only if it is
\* empty, and only tabs of the pane are selected in it.  The focused pane is in
\* the layout, and the root's copy is that pane's, unless a tab was dropped by a
\* split; then the root shows no tab.
ActiveInPane(pane) ==
  /\ IF pane.tabs = <<>> THEN pane.active = None ELSE Contains(pane.tabs, pane.active)
  /\ pane.selected \subseteq ToSet(pane.tabs)

FocusAgrees ==
  /\ \A i \in DOMAIN layout.panes : ActiveInPane(layout.panes[i])
  /\ IF HasFocus
     THEN /\ openTabs = FocusedPane.tabs
          /\ activeTabId = FocusedPane.active
          /\ selectedTabIds = FocusedPane.selected
     ELSE /\ dropped # {}
          /\ openTabs = <<>> /\ activeTabId = None /\ selectedTabIds = {}

\* OneTabPerSession: a session opened without forceNewTab is in one such tab at
\* most, in whichever pane its first tab is.
OneTabPerSession ==
  \A t, u \in Open \ forced : t # u /\ content[t] = content[u] => content[t] = Page

\* DragCreatesPane: dropping a tab on the edge of a pane creates a new pane.
DragCreatesPane ==
  [][\A p, q \in PaneIdsOf(layout), direction \in Directions :
       \A tab \in ToSet(FindPane(layout, p).tabs) :
         MoveTabToNewPane(tab, p, q, direction) => PaneIdsOf(layout') \ PaneIdsOf(layout) # {}]_vars
=============================================================================
