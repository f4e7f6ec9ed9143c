SPECIFICATION AsSpec
CONSTANTS
  Conns = {c1, c2}
  FirstConn = c1
  MaxConns = 1
  InvokeIds = {i1, i2}
  RptCap = 1
  CtCap = 1
  Tls = TRUE
  IdleTimeout = TRUE
INVARIANTS SlotsCounted ReleasesEverything NoRequestForgotten
PROPERTIES ConnectionsEnd
CHECK_DEADLOCK FALSE
