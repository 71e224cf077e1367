SPECIFICATION ScanSpec
CONSTANTS
  Damaged = Damaged
  Hits <- MCHits
  Reference <- MCReference
  Target = 2
  Every = 2
  Runs = 3
INVARIANTS
  ScanTypeOK
  FinishedRunAddsUp
PROPERTIES
  ClonesAreKept
  RunEnds
CHECK_DEADLOCK FALSE
