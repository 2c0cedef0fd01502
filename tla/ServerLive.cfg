\* Fair callbacks and workers, a limit of one connection, one request memory.
SPECIFICATION FairSpec
CONSTANTS
  Conns = {c1, c2}
  Reqs = {r1}
  Workers = {w1}
  Cap = 1
  MaxConns = 1
  DevMode = FALSE
  AfterComplete = {}
  MaxOwed = 1
  MaxWrites = 1
  NoReq = NoReq
  NoConn = NoConn
PROPERTIES
  ClosingFinalizes
  EveryMessageAnswered
  ShutdownStops
