SPECIFICATION Spec
CONSTANTS
  Intervals = {0, 5, 100}
  Modes = {1, 2, 3}
  Apns = {"none", "apn", "padded", "long", "huge"}
  Crashes = TRUE
  MaxRuns = 3
  MaxSets = 3
INVARIANTS
  OptionsAreSaved
PROPERTIES
  
  SettersStillWork
CHECK_DEADLOCK FALSE
