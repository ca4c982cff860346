SPECIFICATION FairSpec
CONSTANTS
  Main = Main
  NoConn = NoConn
  MaxOpen = 1
  w1 = w1
  w2 = w2
  c1 = c1
  c2 = c2
  c3 = c3
  c4 = c4
  Worker <- MCWorker
  Conn <- MCConn
INVARIANTS
  TypeOK
  CountExact
  SocketBound
  OneAcceptChain
  HeldIsAlive
PROPERTIES
  CheckStillHolds
  ImplementsLimit
  AcceptResumes
  ShutdownCompletes
