\* Fair threads and a fair loop; as many jobs outstanding as either ring holds, and more refused.
SPECIFICATION FairSpec
CONSTANTS
  Workers = {w1, w2}
  Reqs = {r1, r2}
  JobCap = 2
  MaxOutstanding = 2
  NoReq = NoReq
INVARIANTS
  TypeOK
  PoolInv
  WakeupNotLost
  CompletionNoticed
  QueuedJobsExact
  ShutdownRunsAcceptedJobs
PROPERTIES
  NoSubmitAfterFree
  ImplementsPool
  EveryJobCollected
  ShutdownJoins
