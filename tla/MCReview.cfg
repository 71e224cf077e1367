SPECIFICATION Spec
CONSTANTS
  f1 = f1
  f2 = f2
  f3 = f3
  old = old
  oldBad = oldBad
  new = new
  newBad = newBad
  File <- MCFile
  OldLine <- MCOldLine
  NewLine <- MCNewLine
  BadLine <- MCBadLine
  Worktrees <- MCWorktrees
  Excluded = {f3}
  MaxEdits = 2
INVARIANTS
  TypeOK
  ReviewIsExact
  
CHECK_DEADLOCK FALSE
