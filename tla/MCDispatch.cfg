SPECIFICATION Spec
CONSTANTS
  w1 = w1
  w2 = w2
  Worker <- MCWorker
  Request <- Shared
  Locations <- Nested
  Echo <- MCEcho
  Probe <- EveryUri
  StatusUri <- S
  MaxServed = 5
INVARIANTS
  TypeOK
  NoCrossTalk
  OneCallPerThread
  StatusCurrent
  LongestPrefix
