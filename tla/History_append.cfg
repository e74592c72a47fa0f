SPECIFICATION Spec
CONSTANTS
  Undated <- OneUndated
  FirstLines = 2
  MaxLines = 4
  MaxFaults = 0
INVARIANT NoAppendLost
