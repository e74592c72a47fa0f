SPECIFICATION Spec
CONSTANTS
  Undated <- OneUndated
  FirstLines = 2
  MaxLines = 5
  MaxFaults = 2
INVARIANTS
  TypeOK
  NothingLost
  SingleHome
  StraysAccounted
