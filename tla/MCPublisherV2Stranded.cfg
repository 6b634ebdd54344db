SPECIFICATION Spec
CONSTANTS
  c1 = c1
  c2 = c2
  c3 = c3
  c4 = c4
  h1 = h1
  NoConn = NoConn
  Conns <- MCConns
  Nil <- NoConn
  Helpers <- MCHelpers
  MaxRetries <- MCMaxRetries
INVARIANT KeepsTrying
CHECK_DEADLOCK FALSE
