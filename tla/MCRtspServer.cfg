SPECIFICATION FairSpec
CONSTANTS
  c1 = c1
  c2 = c2
  c3 = c3
  c4 = c4
  Conns <- FourConns
  MaxConnections = 3
INVARIANTS
  ServerInv
  NothingOutlivesTheServer
PROPERTIES
  StopReturns
  ConnectionsAreAnswered
CHECK_DEADLOCK FALSE
