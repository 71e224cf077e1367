SPECIFICATION Spec
CONSTANTS
  None = None
  Unseen = Unseen
  Size = 5
  Node <- MCNode
  Trees <- MCTrees
INVARIANTS
  TypeOK
  FieldIsLexicalScope
  ReportIsExact
CHECK_DEADLOCK FALSE
