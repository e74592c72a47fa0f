SPECIFICATION Spec
CONSTANTS
  None = None
  p1 = p1 p2 = p2 p3 = p3 p4 = p4 t1 = t1 t2 = t2 t3 = t3 s1 = s1 s2 = s2
  PaneIds = {p1, p2, p3, p4}
  TabIds = {t1, t2, t3}
  Sessions = {s1, s2}
  MaxPanes = 3
SYMMETRY Symmetry
INVARIANTS TypeOK TabsConserved FocusAgrees OneTabPerSession
