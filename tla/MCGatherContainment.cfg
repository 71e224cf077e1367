SPECIFICATION Spec
CONSTANTS
  Unknown = Unknown
  Node <- MCNode
  Name <- MCName
  Programs <- MCPrograms
INVARIANTS
  TypeOK
  VerdictIsExact
  EachFunctionOnce
CHECK_DEADLOCK FALSE
