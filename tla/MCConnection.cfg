SPECIFICATION FairSpec
CONSTANTS
  MaxReq = 3
  PerRead = 2
  Pieces = 2
  Kinds = {"waits", "pipelines"}
  MaxQueued = 2
INVARIANTS
  TypeOK
  BuffersValid
  DeadIsQuiet
  WaitIsWatched
  StartInOrder
  WaitingPeerIntact
PROPERTIES
  SessionReleased
