SPECIFICATION FairSpec
CONSTANTS
  Script <- ThreeAtOnce
  MaxLen = 99
  Pipelining = TRUE
  MaxRequests = 2
PROPERTIES
  ReadReturns
