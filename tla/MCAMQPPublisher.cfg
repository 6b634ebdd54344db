SPECIFICATION FairSpec
CONSTANTS
  c1 = c1
  c2 = c2
  w1 = w1
  w2 = w2
  NoConn = NoConn
  Conns <- MCConns
  Nil <- NoConn
  Callers <- MCCallers
  MaxRetries = 2
  Backoffs = 1
INVARIANTS
  ClosedForGood
  ConnectionsWatched
PROPERTIES
  PublishEnds
  Recovers
CHECK_DEADLOCK FALSE
