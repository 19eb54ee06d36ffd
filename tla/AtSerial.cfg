SPECIFICATION Spec
CONSTANTS
  Kinds = {"plain","long","prompt","twins","named"}
  MaxCommands = 2
  MaxReports = 1
  MaxResponse = 3
INVARIANTS
  TypeOK
  OwnAnswer
  OkIsTrue
PROPERTIES
  CallReturns
CHECK_DEADLOCK FALSE
