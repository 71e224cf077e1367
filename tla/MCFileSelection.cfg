SPECIFICATION Spec
CONSTANTS
  Name <- MCName
  PyName <- MCPyName
  TestName <- MCTestName
  NonprodSegments <- MCNonprodSegments
  DefaultExcludes <- MCDefaultExcludes
  Cwd <- MCCwd
  Rank <- MCRank
  Edited <- MCEdited
  Trees <- MCTrees
  Commands <- MCCommands
  MaxLinks = 2
  MaxCommands = 2
  MaxEdits = 1
INVARIANTS
  TypeOK
  SelectionIsExact
  SelectionsAgree
  BaselineCoversScan
PROPERTY
  CommandEnds
CHECK_DEADLOCK FALSE
