SPECIFICATION Spec
CONSTANTS
  MaxReq = 1
  PerRead = 1
  Pieces = 1
  Kinds = {"waits"}
  MaxQueued = 1
INVARIANTS
  ExceptionsCaught
