SPECIFICATION CertSpec
CONSTANTS
  MaxRequests = 5
INVARIANTS
  StatusIsTrue
PROPERTIES
  ServedOnce
  RequestEnds
