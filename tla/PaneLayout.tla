----------------------------- MODULE PaneLayout -----------------------------
(***************************************************************************)
(* The pure part of the tabbed window: a layout is a sequence of panes and *)
(* the id of the focused one, a pane its id, its tabs from left to right,  *)
(* the active tab (None when it has none) and the set of selected tabs.    *)
(* Widths are left out.  A tab is its id: what it shows is in Panes.       *)
(***************************************************************************)
EXTENDS Naturals, SequencesExt

CONSTANT None

EmptyPane(id) == [id |-> id, tabs |-> <<>>, active |-> None, selected |-> {}]

PaneIdsOf(layout) == {layout.panes[i].id : i \in DOMAIN layout.panes}

PaneIndex(layout, paneId) == SelectInSeq(layout.panes, LAMBDA p : p.id = paneId)

FindPane(layout, paneId) == layout.panes[PaneIndex(layout, paneId)]

FindPaneByTabId(layout, tab) ==
  layout.panes[SelectInSeq(layout.panes, LAMBDA p : Contains(p.tabs, tab))]

\* The tabs of getAllTabs.
OpenIn(layout) == UNION {ToSet(layout.panes[i].tabs) : i \in DOMAIN layout.panes}

UpdatePane(layout, pane) ==
  [layout EXCEPT !.panes = [i \in DOMAIN @ |-> IF @[i].id = pane.id THEN pane ELSE @[i]]]

\* Mutants: no behaviour takes these steps.
RemovePaneForgetsFocus(layout, paneId) ==
  IF Len(layout.panes) <= 1 THEN layout
  ELSE [layout EXCEPT !.panes = SelectSeq(@, LAMBDA p : p.id # paneId)]

\* The focus of a removed pane goes to the pane that takes its place.
RemovePane(layout, paneId) ==
  LET i == PaneIndex(layout, paneId)
      rest == RemoveAt(layout.panes, i)
  IN IF i = 0 \/ Len(layout.panes) <= 1 THEN layout
     ELSE [panes |-> rest,
           focused |-> IF layout.focused = paneId
                       THEN rest[IF i <= Len(rest) THEN i ELSE Len(rest)].id
                       ELSE layout.focused]

InsertPane(layout, adjacent, pane, direction) ==
  LET i == PaneIndex(layout, adjacent)
  IN IF i = 0 THEN layout
     ELSE [layout EXCEPT !.panes = InsertAt(@, IF direction = "right" THEN i + 1 ELSE i, pane)]

\* tabs.filter: those not in ids, in their order.  A recursive function and not
\* SelectSeq, of which nothing can be proved.
Without(tabs, ids) ==
  LET kept[n \in 0..Len(tabs)] ==
        IF n = 0 THEN <<>>
        ELSE IF tabs[n] \in ids THEN kept[n - 1] ELSE Append(kept[n - 1], tabs[n])
  IN kept[Len(tabs)]

\* The pane without one tab: the next tab, else the one before, becomes active.
WithoutTab(pane, tab) ==
  LET i == SelectInSeq(pane.tabs, LAMBDA t : t = tab)
      rest == Without(pane.tabs, {tab})
      next == IF i <= Len(rest) THEN rest[i] ELSE IF i > 1 THEN rest[i - 1] ELSE None
  IN [pane EXCEPT !.tabs = rest,
                  !.active = IF @ = tab THEN next ELSE @,
                  !.selected = @ \ {tab}]

\* The same for a set of tabs: the first one kept after the active tab, else
\* the last one kept before it.
WithoutTabs(pane, ids) ==
  LET old == SelectInSeq(pane.tabs, LAMBDA t : t = pane.active)
      right == SelectInSubSeq(pane.tabs, old, Len(pane.tabs), LAMBDA t : t \notin ids)
      left == SelectLastInSubSeq(pane.tabs, 1, old - 1, LAMBDA t : t \notin ids)
      next == IF right # 0 THEN pane.tabs[right] ELSE IF left # 0 THEN pane.tabs[left] ELSE None
  IN [pane EXCEPT !.tabs = Without(@, ids),
                  !.active = IF @ \in ids THEN next ELSE @,
                  !.selected = @ \ ids]

\* setActiveTab: activate the tab in its pane and focus the pane.
Activate(layout, tab) ==
  IF tab \notin OpenIn(layout) THEN layout
  ELSE LET pane == FindPaneByTabId(layout, tab)
       IN [UpdatePane(layout, [pane EXCEPT !.active = tab]) EXCEPT !.focused = pane.id]

\* What focusPane, closePane and closeTabs do last: activate the active tab of
\* the focused pane, which changes nothing but the session the sidebar shows.
ActivateFocused(layout) ==
  IF layout.focused \notin PaneIdsOf(layout) THEN layout
  ELSE LET tab == FindPane(layout, layout.focused).active
       IN IF tab = None THEN layout ELSE Activate(layout, tab)

ClosePaneIn(layout, paneId) == ActivateFocused(RemovePane(layout, paneId))
=============================================================================
