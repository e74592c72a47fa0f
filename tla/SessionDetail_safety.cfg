SPECIFICATION Spec
CONSTANTS
  None = None
  Gone = Gone
  t1 = t1 t2 = t2 s1 = s1 s2 = s2 p1 = p1 p2 = p2
  Sessions = {s1, s2}
  Ids = {s1, s2}
  IdOf <- OwnIds
  Panes = {p1, p2}
  Tabs = {t1, t2}
  PaneOf <- OneTabEach
  ByHand = {s1}
  MaxFetches = 2
  MaxShape = 1
  MaxText = 0
SYMMETRY Symmetry
INVARIANTS TypeOK TabShowsItsSession LoadingHasRequest DataOfOpenTabs
