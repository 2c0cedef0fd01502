\* One job more outstanding than the completion ring holds.
SPECIFICATION Spec
CONSTANTS
  Workers = {w1, w2}
  Reqs = {r1, r2}
  JobCap = 2
  MaxOutstanding = 3
  NoReq = NoReq
INVARIANT DoneNeverOverflows
