SPECIFICATION AuditSpec
CONSTANTS
  blocking = blocking
  other = other
  main = main
  helper = helper
  Rule <- MCRule
  AllRules <- MCAllRules
  BlockingRules <- MCBlockingRules
  NonprodSegments <- MCNonprodSegments
  Name <- MCName
  Programs <- MCPrograms
  Configs <- MCConfigs
  Downgrades <- MCDowngrades
  MaxFindings = 2
  Policies <- MCPolicies
INVARIANTS
  AuditTypeOK
  NeverSilenced
  SeverityPrecedence
  ReportOrder
  OrphanMeansNoFinding
  OrphansAreInert
  CleanExit
CHECK_DEADLOCK FALSE
