CONSTANTS
  Ids = {i1, i2, i3}
  Targets = {t1}
  Contents = {c1, c2}
  None = None
  Partial = Partial
  MaxCopies = 2
  MaxNow = 1
SPECIFICATION Spec
SYMMETRY Symmetry
INVARIANTS TypeOK RecordedIsWhole LittleLeftBehind
PROPERTY ReplacedIsKept
