SPECIFICATION Spec
CONSTANTS
  c1 = c1
  c2 = c2
  Clients = {c1}
  PrefModes = {3}
  Networks = {1, 2}
  Replies = {"OK"}
  Env = {"shot", "status"}
  MaxEvents = 5
  MaxMsgs = 2
INVARIANTS
  NoClientsModemOff
CHECK_DEADLOCK FALSE
