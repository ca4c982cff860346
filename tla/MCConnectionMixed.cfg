SPECIFICATION Spec
CONSTANTS
  MaxReq = 2
  PerRead = 1
  Pieces = 2
  Kinds = {"pipelines"}
  MaxQueued = 1
INVARIANTS
  ResponsesIntact
