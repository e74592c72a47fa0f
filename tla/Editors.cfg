SPECIFICATION Spec
CONSTANTS
  a = a b = b
  Entries = {a, b}
  Listed = {b}
  Twins = {a, b}
  MaxTurns = 3
  MaxFaults = 1
INVARIANTS TypeOK LastWriteStands
PROPERTIES ReplacedCanBeHadBack VanishesOnlyWhenAsked ToggleMoves
CHECK_DEADLOCK FALSE
