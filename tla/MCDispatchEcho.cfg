SPECIFICATION Spec
CONSTANTS
  w1 = w1
  w2 = w2
  Worker <- OneWorker
  Request <- TwoEchoes
  Locations <- OnlyEcho
  Echo <- MCEcho
  Probe <- EveryUri
  StatusUri <- S
  MaxServed = 2
INVARIANTS
  EchoReflects
