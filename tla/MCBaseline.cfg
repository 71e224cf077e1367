SPECIFICATION Spec
CONSTANTS
  p1 = p1
  p2 = p2
  rule = rule
  old = old
  newer = newer
  Process = {p1, p2}
  File <- MCFile
  Rule <- MCRule
  MaxLine = 2
  Message = {old}
  Spelling <- MCSpelling
  OptIn <- MCOptIn
  Commands <- MCCommands
  MaxEdits = 1
  MaxRuns = 3
INVARIANTS
  TypeOK
  HiddenOnlyIfAccepted
PROPERTIES
  UnchangedFilesAreClean
  ImplementsLedger
CHECK_DEADLOCK FALSE
SYMMETRY Symmetry
