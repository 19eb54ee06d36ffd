SPECIFICATION Spec
CONSTANTS
  c1 = c1
  c2 = c2
  Clients = {c1, c2}
  PrefModes = {0, 3}
  Networks = {1, 2}
  Replies = {"OK", "ERROR"}
  Env = {"supl", "shot", "suspend", "lost", "gone", "interval", "cert"}
  MaxEvents = 4
  MaxMsgs = 1
SYMMETRY ClientSymmetry
INVARIANTS
  TypeOK
  NoClientsNoGps
CHECK_DEADLOCK FALSE
