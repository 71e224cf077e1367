SPECIFICATION Spec
CONSTANTS
  Size <- MCSize
  Trees <- MCTrees
  Celery <- MCCelery
  Frameworks <- MCFrameworks
  CeleryLike <- MCCeleryLike
  AppLike <- MCAppLike
INVARIANTS
  TypeOK
  ScopeIsLexical
  ReportIsExact
CHECK_DEADLOCK FALSE
