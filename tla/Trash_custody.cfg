SPECIFICATION Spec
CONSTANTS
  p1 = p1
  p2 = p2
  r1 = r1
  r2 = r2
  Paths = {p1, p2}
  CrossDevice = {p2}
  Receipts = {r1, r2}
  Contents = {c1, c2, c3}
  None = None
  Partial = Partial
SYMMETRY Symmetry
INVARIANTS
  TypeOK
  NothingLostOutsideWindows
  OneHome
  AtMostOneOrphan
PROPERTY ImplementsCustody
CHECK_DEADLOCK FALSE
