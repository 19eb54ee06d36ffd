SPECIFICATION FairSpec
CONSTANTS
  c1 = c1
  c2 = c2
  Clients = {c1, c2}
  PrefModes = {1, 3}
  Networks = {1}
  Replies = {"OK"}
  Env = {"supl", "user", "status", "suspend", "nosim", "command", "cert"}
  MaxEvents = 5
  MaxMsgs = 2
PROPERTIES
  LastClientStopsGps
  UserStopsGps
  ClientIsServed
CHECK_DEADLOCK FALSE
