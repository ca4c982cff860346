SPECIFICATION FairSpec
CONSTANTS
  Script <- Waiting
  MaxLen = 99
  Pipelining = FALSE
  MaxRequests = 2
INVARIANTS
  TypeOK
  ServedAsSent
  

  
