SPECIFICATION FairSpec
CONSTANTS
  None = None
  Gone = Gone
  t1 = t1 t2 = t2 s1 = s1 s2 = s2 p1 = p1 p2 = p2
  Sessions = {s1}
  Ids = {s1}
  IdOf <- OwnIds
  Panes = {p1, p2}
  Tabs = {t1}
  PaneOf <- OneTab
  ByHand = {s1}
  MaxFetches = 1
  MaxShape = 3
  MaxText = 0
INVARIANT NoticedChangeIsRead
PROPERTIES QueuedRefreshBegins RootLoadingEnds
