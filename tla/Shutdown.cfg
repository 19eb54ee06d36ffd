SPECIFICATION Spec
CONSTANTS
  MaxClients = 2
  MaxOps = 4
  ClientSwitches = {"gps", "CREG"}
INVARIANTS
  LeavesModemClean
PROPERTIES
  QuitEnds
CHECK_DEADLOCK FALSE
