SPECIFICATION FairSpec
CONSTANTS
  Ports = {0, 1}
  MaxPrograms = 2
  MaxStrays = 2
INVARIANTS
  CountIsExact
  UsedIsKnown
PROPERTIES
  Promised
  PromisedInTime
  
