\* Two sequential clients, development mode; memory of a finished connection may still be with a worker.
SPECIFICATION Spec
CONSTANTS
  Conns = {c1, c2}
  Reqs = {r1, r2, r3}
  Workers = {w1}
  Cap = 1
  MaxConns = 2
  DevMode = TRUE
  AfterComplete = {}
  MaxOwed = 1
  MaxWrites = 1
  NoReq = NoReq
  NoConn = NoConn
SYMMETRY Symmetry
INVARIANTS
  TypeOK
  NConnsExact
  AnswerReachesItsRequest
  OneAnswerUnderWay
  DrainIsSilent
  NoNewWorkAfterShutdown
  ServerInv
PROPERTY AnswerOnlyToAsker
