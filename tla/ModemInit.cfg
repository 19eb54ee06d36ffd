SPECIFICATION Spec
CONSTANTS
  Nets = {1}
  Modules = {"F3507G", "none"}
  Cards = {"pin", "ready"}
  MaxRefusals = 5
  Refusable = {}
  MaxRounds = 2
INVARIANTS
  TypeOK
  WatchesItsDevices
  ReportsAreOn
  
  ExitsOnlyWithoutGps
PROPERTIES
  TakingEnds
CHECK_DEADLOCK FALSE
