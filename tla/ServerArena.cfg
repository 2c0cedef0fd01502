\* One connection: closed, half-closed or kept alive while requests come and go.
SPECIFICATION Spec
CONSTANTS
  Conns = {c1}
  Reqs = {r1, r2}
  Workers = {w1}
  Cap = 1
  MaxConns = 1
  DevMode = TRUE
  AfterComplete = {}
  MaxOwed = 1
  MaxWrites = 1
  NoReq = NoReq
  NoConn = NoConn
INVARIANT ArenaPerRequest
