SPECIFICATION Spec
CONSTANTS
  p = p q = q None = None
  Projects = {p, q}
  Sessions = {1, 2, 3}
  ProjectOf <- MCProjectOf
  PageSize = 1
  FirstTimes <- MCTimes
  Times = {1, 3}
  Milli = 1
  Marked = {1}
  MaxOps = 3
  MaxWrites = 1
  MaxFaults = 1
INVARIANTS TypeOK PagesAddUp MarksAgree
PROPERTY RefreshNeverGoesBack
CHECK_DEADLOCK FALSE
