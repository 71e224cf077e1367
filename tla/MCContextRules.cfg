SPECIFICATION Spec
CONSTANTS
  Node <- MCNode
  Trees <- MCTrees
INVARIANTS
  TypeOK
  ContextIsLexical
  ReportIsExact
CHECK_DEADLOCK FALSE
