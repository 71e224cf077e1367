SPECIFICATION SuppressionsSpec
CONSTANTS
  r1 = r1
  r2 = r2
  MaxText = 2
  Rule <- MCRule
  Files <- MCFiles
INVARIANTS
  SuppressionsTypeOK
  MapIsComplete
CHECK_DEADLOCK FALSE
