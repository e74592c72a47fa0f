SPECIFICATION FairSpec
CONSTANTS
  Main = main
  Scheduler = sched
  Workers = {w}
  None = None
  Categories = 2
  MaxCommands = 4
INVARIANTS
  TypeOK
  GuardsAgree
  CancelStands
  AtMostOneAfterConnect
PROPERTIES
  ComesToRest
  CancelledPassWasHit
  DueUntilDone
CHECK_DEADLOCK FALSE
