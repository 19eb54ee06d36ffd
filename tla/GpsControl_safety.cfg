SPECIFICATION Spec
CONSTANTS
  c1 = c1
  c2 = c2
  Clients = {c1, c2}
  PrefModes = {1, 3}
  Networks = {1, 2}
  Replies = {"OK"}
  Env = {"supl", "user", "status", "wdis", "suspend", "nosim", "command", "cert"}
  MaxEvents = 5
  MaxMsgs = 2
SYMMETRY ClientSymmetry
INVARIANTS
  NoClientsModemOff
  OffMeansOff
  NmeaPortDefined
  StopNoticed
  WDisableIsObeyed
CHECK_DEADLOCK FALSE
