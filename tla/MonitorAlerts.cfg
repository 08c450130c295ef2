SPECIFICATION MCSpec
CONSTANTS
  CHECKS <- ThreeChecks
  Fallible = {"indexer"}
  MaxChanges = 4
INVARIANT
  OperatorKnows
PROPERTIES
  ReportedInTheEnd
  RecoveryReported
CHECK_DEADLOCK FALSE
