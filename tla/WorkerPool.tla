----------------------------- MODULE WorkerPool -----------------------------
(* The bounded worker pool of runtime/server/worker.c: job ring (mutex and    *)
(* condition variable), completion ring, uv_async wake-up of the event loop,  *)
(* and the shutdown that cerco_serve performs after uv_run has returned.      *)
(*                                                                            *)
(* A critical section of job_mu or done_mu that cannot block is one step: the *)
(* data it touches is read nowhere else.  The worker's section on job_mu is   *)
(* split, because uv_cond_wait ends it and wpool_shutdown does not take the   *)
(* mutex: a worker in pc "check" or "sleep" holds job_mu.                     *)
EXTENDS Integers, Sequences, FiniteSets

CONSTANTS
  Workers,         \* threads wpool_start tries to create
  Reqs,            \* requests the event loop can submit
  JobCap,          \* queue_cap: capacity of the job ring and of the done ring
  MaxOutstanding,  \* bound: submitted and not yet collected jobs
  NoReq            \* NULL

ASSUME JobCapAssumption == JobCap \in Nat \ {0}
ASSUME MaxOutstandingAssumption == MaxOutstanding \in Nat
ASSUME WorkersAssumption == IsFiniteSet(Workers)
ASSUME NoReqAssumption == NoReq \notin Reqs

VARIABLES
  jobs, job_head, job_tail, job_count,    \* job ring, under job_mu
  done, done_head, done_tail, done_count, \* completion ring, under done_mu
  shutdown,       \* atomic flag
  queued_jobs,    \* stats.queued_jobs, atomic
  async_pending,  \* a uv_async_send not yet answered by its callback
  wpc,            \* where each worker thread is
  wreq,           \* worker_main's local req
  cur,            \* wpool_drain_completions' local r while it is applied
  lpc             \* where the event-loop thread is

jobVars  == <<jobs, job_head, job_tail, job_count>>
doneVars == <<done, done_head, done_tail, done_count>>
vars == <<jobVars, doneVars, shutdown, queued_jobs, async_pending, wpc, wreq, cur, lpc>>

WorkerPCs == {"absent", "lock", "check", "sleep", "wait", "popped", "run",
              "push", "wake", "exit"}

LoopPCs == {"poll", "count", "signal", "busy", "drain", "apply", "store",
            "broadcast", "join", "freed", "uaf", "exit"}

Slots == 0 .. JobCap - 1

TypeOK ==
  /\ jobs \in [Slots -> Reqs \cup {NoReq}]
  /\ job_head \in Slots
  /\ job_tail \in Slots
  /\ job_count \in 0 .. JobCap
  /\ done \in [Slots -> Reqs \cup {NoReq}]
  /\ done_head \in Slots
  /\ done_tail \in Slots
  /\ done_count \in Nat
  /\ shutdown \in BOOLEAN
  /\ queued_jobs \in Int
  /\ async_pending \in BOOLEAN
  /\ wpc \in [Workers -> WorkerPCs]
  /\ wreq \in [Workers -> Reqs \cup {NoReq}]
  /\ cur \in Reqs \cup {NoReq}
  /\ lpc \in LoopPCs

-----------------------------------------------------------------------------
(* Definitions named Mut_... are the plausible mistakes the runs are shown to *)
(* detect; no specification uses them.                                        *)

(* Off by one: one index too many. *)
Mut_RingNext(i) == (i + 1) % (JobCap + 1)

(* The index after i on either ring. *)
RingNext(i) == (i + 1) % JobCap

(* No thread is inside job_mu. *)
JobMutexFree == \A w \in Workers : wpc[w] \notin {"check", "sleep"}

(* Jobs submitted whose completion has not been collected. *)
Outstanding ==
  job_count + Cardinality({w \in Workers : wreq[w] # NoReq}) + done_count

(* Where a callback returns to: the loop of the first uv_run, or the single  *)
(* uv_run(UV_RUN_NOWAIT) cerco_serve makes once the pool is gone.            *)
LoopTop == IF shutdown THEN "freed" ELSE "poll"

(* wpool_start.  If a thread cannot be created the pool runs with the ones   *)
(* that were; with none the server does not start.                           *)
wpool_start ==
  /\ jobs = [i \in Slots |-> NoReq]
  /\ job_head = 0 /\ job_tail = 0 /\ job_count = 0
  /\ done = [i \in Slots |-> NoReq]
  /\ done_head = 0 /\ done_tail = 0 /\ done_count = 0
  /\ shutdown = FALSE
  /\ queued_jobs = 0
  /\ async_pending = FALSE
  /\ \E created \in SUBSET Workers :
       /\ created # {}
       /\ wpc = [w \in Workers |-> IF w \in created THEN "lock" ELSE "absent"]
  /\ wreq = [w \in Workers |-> NoReq]
  /\ cur = NoReq
  /\ lpc = "poll"

-----------------------------------------------------------------------------
(* The event loop. *)

(* The shutdown flag is not consulted. *)
Mut_SubmitAccept(r) ==
  /\ lpc \in {"poll", "freed"}
  /\ JobMutexFree
  /\ Outstanding < MaxOutstanding
  /\ job_count < JobCap
  /\ jobs' = [jobs EXCEPT ![job_tail] = r]
  /\ job_tail' = RingNext(job_tail)
  /\ job_count' = job_count + 1
  /\ lpc' = "count"
  /\ UNCHANGED <<job_head, doneVars, shutdown, queued_jobs, async_pending, wpc, wreq, cur>>

(* wpool_try_submit, accepted: the section under job_mu. *)
SubmitAccept(r) ==
  /\ lpc \in {"poll", "freed"}
  /\ JobMutexFree
  /\ Outstanding < MaxOutstanding
  /\ ~shutdown
  /\ job_count < JobCap
  /\ jobs' = [jobs EXCEPT ![job_tail] = r]
  /\ job_tail' = RingNext(job_tail)
  /\ job_count' = job_count + 1
  /\ lpc' = "count"
  /\ UNCHANGED <<job_head, doneVars, shutdown, queued_jobs, async_pending, wpc, wreq, cur>>

(* wpool_try_submit, rejected: the caller answers 503. *)
SubmitReject ==
  /\ lpc \in {"poll", "freed"}
  /\ JobMutexFree
  /\ shutdown \/ job_count >= JobCap
  /\ lpc' = "busy"
  /\ UNCHANGED <<jobVars, doneVars, shutdown, queued_jobs, async_pending, wpc, wreq, cur>>

(* A rejected job is counted as queued. *)
Mut_RejectReturn ==
  /\ lpc = "busy"
  /\ queued_jobs' = queued_jobs + 1
  /\ lpc' = LoopTop
  /\ UNCHANGED <<jobVars, doneVars, shutdown, async_pending, wpc, wreq, cur>>

RejectReturn ==
  /\ lpc = "busy"
  /\ lpc' = LoopTop
  /\ UNCHANGED <<jobVars, doneVars, shutdown, queued_jobs, async_pending, wpc, wreq, cur>>

(* ... after the unlock: count the job, ... *)
SubmitCount ==
  /\ lpc = "count"
  /\ queued_jobs' = queued_jobs + 1
  /\ lpc' = "signal"
  /\ UNCHANGED <<jobVars, doneVars, shutdown, async_pending, wpc, wreq, cur>>

(* Signal only when the ring held a job already. *)
Mut_SubmitSignal ==
  /\ lpc = "signal"
  /\ IF job_count > 1 /\ \E w \in Workers : wpc[w] = "wait"
       THEN \E w \in Workers : /\ wpc[w] = "wait"
                               /\ wpc' = [wpc EXCEPT ![w] = "lock"]
       ELSE UNCHANGED wpc
  /\ lpc' = LoopTop
  /\ UNCHANGED <<jobVars, doneVars, shutdown, queued_jobs, async_pending, wreq, cur>>

(* ... then signal, which wakes one waiting worker if there is one. *)
SubmitSignal ==
  /\ lpc = "signal"
  /\ IF \E w \in Workers : wpc[w] = "wait"
       THEN \E w \in Workers : /\ wpc[w] = "wait"
                               /\ wpc' = [wpc EXCEPT ![w] = "lock"]
       ELSE UNCHANGED wpc
  /\ lpc' = LoopTop
  /\ UNCHANGED <<jobVars, doneVars, shutdown, queued_jobs, async_pending, wreq, cur>>

(* libuv runs wpool_on_async; it clears the pending flag before the call. *)
wpool_on_async ==
  /\ lpc \in {"poll", "freed"}
  /\ async_pending
  /\ async_pending' = FALSE
  /\ lpc' = "drain"
  /\ UNCHANGED <<jobVars, doneVars, shutdown, queued_jobs, wpc, wreq, cur>>

(* wpool_drain_completions: pop one completion.  Reading the ring after      *)
(* wpool_shutdown has freed it is undefined; "uaf" records it.               *)
DrainPop ==
  /\ lpc = "drain"
  /\ done_count > 0
  /\ IF shutdown
       THEN /\ lpc' = "uaf"
            /\ UNCHANGED <<doneVars, cur>>
       ELSE /\ lpc' = "apply"
            /\ cur' = done[done_head]
            /\ done_head' = RingNext(done_head)
            /\ done_count' = done_count - 1
            /\ UNCHANGED <<done, done_tail>>
  /\ UNCHANGED <<jobVars, shutdown, queued_jobs, async_pending, wpc, wreq>>

(* One completion per wake-up. *)
Mut_DrainApply ==
  /\ lpc = "apply"
  /\ lpc' = LoopTop
  /\ cur' = NoReq
  /\ UNCHANGED <<jobVars, doneVars, shutdown, queued_jobs, async_pending, wpc, wreq>>

(* ... discard it or start its response; nothing of the pool is touched. *)
DrainApply ==
  /\ lpc = "apply"
  /\ lpc' = "drain"
  /\ cur' = NoReq
  /\ UNCHANGED <<jobVars, doneVars, shutdown, queued_jobs, async_pending, wpc, wreq>>

DrainReturn ==
  /\ lpc = "drain"
  /\ done_count = 0
  /\ lpc' = LoopTop
  /\ UNCHANGED <<jobVars, doneVars, shutdown, queued_jobs, async_pending, wpc, wreq, cur>>

(* uv_run returns after uv_stop.  The hard deadline of on_sweep allows it    *)
(* whatever the pool is doing.                                               *)
LoopStop ==
  /\ lpc = "poll"
  /\ lpc' = "store"
  /\ UNCHANGED <<jobVars, doneVars, shutdown, queued_jobs, async_pending, wpc, wreq, cur>>

(* wpool_shutdown: the store and the broadcast happen outside job_mu. *)
ShutdownStore ==
  /\ lpc = "store"
  /\ shutdown' = TRUE
  /\ lpc' = "broadcast"
  /\ UNCHANGED <<jobVars, doneVars, queued_jobs, async_pending, wpc, wreq, cur>>

ShutdownBroadcast ==
  /\ lpc = "broadcast"
  /\ wpc' = [w \in Workers |-> IF wpc[w] = "wait" THEN "lock" ELSE wpc[w]]
  /\ lpc' = "join"
  /\ UNCHANGED <<jobVars, doneVars, shutdown, queued_jobs, async_pending, wreq, cur>>

(* ... join every created thread, then free the rings. *)
ShutdownJoin ==
  /\ lpc = "join"
  /\ \A w \in Workers : wpc[w] \in {"exit", "absent"}
  /\ lpc' = "freed"
  /\ UNCHANGED <<jobVars, doneVars, shutdown, queued_jobs, async_pending, wpc, wreq, cur>>

(* The last uv_run returns and cerco_serve ends. *)
ServeReturn ==
  /\ lpc = "freed"
  /\ lpc' = "exit"
  /\ UNCHANGED <<jobVars, doneVars, shutdown, queued_jobs, async_pending, wpc, wreq, cur>>

-----------------------------------------------------------------------------
(* A worker thread: worker_main. *)

Goto(w, pc) == wpc' = [wpc EXCEPT ![w] = pc]

WorkerLock(w) ==
  /\ wpc[w] = "lock"
  /\ JobMutexFree
  /\ Goto(w, "check")
  /\ UNCHANGED <<jobVars, doneVars, shutdown, queued_jobs, async_pending, wreq, cur, lpc>>

(* while (job_count == 0), the flag forgotten. *)
Mut_WorkerIdle(w) ==
  /\ wpc[w] = "check"
  /\ job_count = 0
  /\ Goto(w, "sleep")
  /\ UNCHANGED <<jobVars, doneVars, shutdown, queued_jobs, async_pending, wreq, cur, lpc>>

(* The while condition holds: about to wait, job_mu still held. *)
WorkerIdle(w) ==
  /\ wpc[w] = "check"
  /\ job_count = 0 /\ ~shutdown
  /\ Goto(w, "sleep")
  /\ UNCHANGED <<jobVars, doneVars, shutdown, queued_jobs, async_pending, wreq, cur, lpc>>

(* uv_cond_wait: release job_mu and join the waiters, atomically. *)
WorkerWait(w) ==
  /\ wpc[w] = "sleep"
  /\ Goto(w, "wait")
  /\ UNCHANGED <<jobVars, doneVars, shutdown, queued_jobs, async_pending, wreq, cur, lpc>>

(* uv_cond_wait may return without a signal. *)
SpuriousWake(w) ==
  /\ wpc[w] = "wait"
  /\ Goto(w, "lock")
  /\ UNCHANGED <<jobVars, doneVars, shutdown, queued_jobs, async_pending, wreq, cur, lpc>>

(* A worker leaves as soon as it sees the flag. *)
Mut_WorkerExit(w) ==
  /\ wpc[w] = "check"
  /\ shutdown
  /\ Goto(w, "exit")
  /\ UNCHANGED <<jobVars, doneVars, shutdown, queued_jobs, async_pending, wreq, cur, lpc>>

WorkerExit(w) ==
  /\ wpc[w] = "check"
  /\ job_count = 0 /\ shutdown
  /\ Goto(w, "exit")
  /\ UNCHANGED <<jobVars, doneVars, shutdown, queued_jobs, async_pending, wreq, cur, lpc>>

WorkerPop(w) ==
  /\ wpc[w] = "check"
  /\ job_count > 0
  /\ wreq' = [wreq EXCEPT ![w] = jobs[job_head]]
  /\ job_head' = RingNext(job_head)
  /\ job_count' = job_count - 1
  /\ Goto(w, "popped")
  /\ UNCHANGED <<jobs, job_tail, doneVars, shutdown, queued_jobs, async_pending, cur, lpc>>

WorkerCount(w) ==
  /\ wpc[w] = "popped"
  /\ queued_jobs' = queued_jobs - 1
  /\ Goto(w, "run")
  /\ UNCHANGED <<jobVars, doneVars, shutdown, async_pending, wreq, cur, lpc>>

(* The handler runs; it touches the request only. *)
WorkerHandle(w) ==
  /\ wpc[w] = "run"
  /\ Goto(w, "push")
  /\ UNCHANGED <<jobVars, doneVars, shutdown, queued_jobs, async_pending, wreq, cur, lpc>>

(* The completion is written at the head. *)
Mut_wpool_push_done(w) ==
  /\ wpc[w] = "push"
  /\ done' = [done EXCEPT ![done_head] = wreq[w]]
  /\ done_tail' = RingNext(done_tail)
  /\ done_count' = done_count + 1
  /\ wreq' = [wreq EXCEPT ![w] = NoReq]
  /\ Goto(w, "wake")
  /\ UNCHANGED <<jobVars, done_head, shutdown, queued_jobs, async_pending, cur, lpc>>

(* wpool_push_done: no check for a full ring. *)
wpool_push_done(w) ==
  /\ wpc[w] = "push"
  /\ done' = [done EXCEPT ![done_tail] = wreq[w]]
  /\ done_tail' = RingNext(done_tail)
  /\ done_count' = done_count + 1
  /\ wreq' = [wreq EXCEPT ![w] = NoReq]
  /\ Goto(w, "wake")
  /\ UNCHANGED <<jobVars, done_head, shutdown, queued_jobs, async_pending, cur, lpc>>

(* The wake-up is sent only when the ring was empty before the push. *)
Mut_wpool_wake_event_loop(w) ==
  /\ wpc[w] = "wake"
  /\ async_pending' = (async_pending \/ done_count = 1)
  /\ Goto(w, "lock")
  /\ UNCHANGED <<jobVars, doneVars, shutdown, queued_jobs, wreq, cur, lpc>>

wpool_wake_event_loop(w) ==
  /\ wpc[w] = "wake"
  /\ async_pending' = TRUE
  /\ Goto(w, "lock")
  /\ UNCHANGED <<jobVars, doneVars, shutdown, queued_jobs, wreq, cur, lpc>>

-----------------------------------------------------------------------------
Init == wpool_start

LoopNext ==
  \/ \E r \in Reqs : SubmitAccept(r)
  \/ SubmitReject \/ RejectReturn \/ SubmitCount \/ SubmitSignal
  \/ wpool_on_async \/ DrainPop \/ DrainApply \/ DrainReturn
  \/ LoopStop \/ ShutdownStore \/ ShutdownBroadcast \/ ShutdownJoin \/ ServeReturn

(* worker_main, except that it may also be woken for no reason. *)
WorkerStep(w) ==
  \/ WorkerIdle(w) \/ WorkerWait(w) \/ WorkerExit(w) \/ WorkerPop(w)
  \/ WorkerCount(w) \/ WorkerHandle(w) \/ wpool_push_done(w)
  \/ wpool_wake_event_loop(w)

WorkerNext(w) == WorkerLock(w) \/ SpuriousWake(w) \/ WorkerStep(w)

(* cerco_serve has returned, or the behaviour is undefined from here on. *)
Ended == lpc \in {"exit", "uaf"} /\ UNCHANGED vars

Next == LoopNext \/ (\E w \in Workers : WorkerNext(w)) \/ Ended

Spec == Init /\ [][Next]_vars

(* The loop thread always finishes the callback it is in, and libuv serves a *)
(* pending async handle in every iteration; a thread that can get job_mu     *)
(* again and again gets it; handlers return.  Nothing makes the loop submit, *)
(* stop, or a worker wake for no reason.                                     *)
Fairness ==
  /\ WF_vars(RejectReturn \/ SubmitCount \/ SubmitSignal)
  /\ WF_vars(DrainPop \/ DrainApply \/ DrainReturn)
  /\ WF_vars(ShutdownStore \/ ShutdownBroadcast \/ ShutdownJoin \/ ServeReturn)
  /\ SF_vars(wpool_on_async)
  /\ \A w \in Workers : SF_vars(WorkerLock(w)) /\ WF_vars(WorkerStep(w))

FairSpec == Spec /\ Fairness

-----------------------------------------------------------------------------
(* Properties. *)

(* The requests on a ring, oldest first. *)
RingSeq(ring, head, count) ==
  [i \in 1 .. count |-> ring[(head + i - 1) % JobCap]]

(* No wake-up is lost while the server runs: when a job sits in the ring and *)
(* the loop is past its uv_cond_signal, some worker is awake to take it.     *)
(* The signal is sent after job_mu is released and one signal is sent per    *)
(* job, so this rests on every worker re-reading job_count before it waits.  *)
WakeupNotLost ==
  job_count > 0 /\ lpc \notin {"count", "signal"} =>
    \E w \in Workers : wpc[w] \notin {"absent", "wait", "exit"}

(* No completion is stranded: when one is on the ring and the loop is not    *)
(* inside wpool_drain_completions, a wake-up is pending or a worker is about *)
(* to send it.  uv_async_send coalesces, so one callback answers many sends. *)
CompletionNoticed ==
  done_count > 0 /\ lpc \notin {"drain", "apply", "uaf"} =>
    async_pending \/ \E w \in Workers : wpc[w] = "wake"

(* The strengthening that makes the properties above and below inductive:    *)
(* the flag follows the loop's position; after the join no worker is alive;  *)
(* one worker at most is inside job_mu; a worker about to wait or gone has   *)
(* seen an empty ring that nobody can have filled since.                     *)
ShutdownFollowsLoop ==
  /\ lpc \in {"broadcast", "join", "freed", "uaf", "exit"} => shutdown
  /\ lpc \in {"poll", "count", "signal", "apply", "store"} => ~shutdown

NoWorkerAfterJoin ==
  shutdown /\ lpc \notin {"broadcast", "join"} =>
    \A w \in Workers : wpc[w] \in {"exit", "absent"}

MutexExclusive ==
  \A v, w \in Workers :
    wpc[v] \in {"check", "sleep"} /\ wpc[w] \in {"check", "sleep"} => v = w

WorkerSawEmptyRing ==
  \A w \in Workers :
    /\ wpc[w] = "sleep" => job_count = 0
    /\ wpc[w] = "exit" => shutdown /\ job_count = 0
    /\ wpc[w] \notin {"popped", "run", "push"} => wreq[w] = NoReq

SomeWorker == \E w \in Workers : wpc[w] # "absent"

PoolInv ==
  /\ ShutdownFollowsLoop
  /\ NoWorkerAfterJoin
  /\ MutexExclusive
  /\ WorkerSawEmptyRing
  /\ SomeWorker
  /\ WakeupNotLost
  /\ CompletionNoticed

(* stats.queued_jobs, updated by both sides outside job_mu, is the length of *)
(* the ring corrected by the updates still to come; so when on_sweep, on the *)
(* loop, reads 0 the ring is empty.                                          *)
QueuedJobsExact ==
  queued_jobs = job_count + Cardinality({w \in Workers : wpc[w] = "popped"})
                - (IF lpc = "count" THEN 1 ELSE 0)

(* The shutdown flag keeps a request parsed during the last uv_run off the   *)
(* ring that wpool_shutdown has freed.                                       *)
NoSubmitAfterFree ==
  [][shutdown /\ lpc \in {"freed", "busy"} => jobVars' = jobVars]_vars

(* Joining the workers runs every accepted job: the rings are freed only     *)
(* when the job ring is empty and no worker can touch it again.              *)
ShutdownRunsAcceptedJobs ==
  lpc \in {"freed", "uaf", "exit"} =>
    /\ job_count = 0
    /\ \A w \in Workers : wpc[w] \in {"exit", "absent"} /\ wreq[w] = NoReq

(* The rings, indices, mutex and wake-ups implement the bounded FIFO pool.   *)
Abs == INSTANCE Pool WITH Cap <- JobCap,
                          queue <- RingSeq(jobs, job_head, job_count),
                          hand <- wreq,
                          completed <- RingSeq(done, done_head, done_count)
ImplementsPool == Abs!PoolSpec

(* A submitted request is somewhere in the pool. *)
InPool(r) ==
  \/ \E i \in 1 .. job_count : RingSeq(jobs, job_head, job_count)[i] = r
  \/ \E w \in Workers : wreq[w] = r
  \/ \E i \in 1 .. done_count : RingSeq(done, done_head, done_count)[i] = r

(* Every accepted request is collected by the loop, unless the loop stops.   *)
EveryJobCollected ==
  \A r \in Reqs : InPool(r) ~> (lpc = "apply" /\ cur = r) \/ lpc = "store" \/ shutdown

(* Once the broadcast is out and no worker is at or in uv_cond_wait, the     *)
(* join ends: workers that are busy finish, see the flag and leave.          *)
(* (wpool_shutdown holds no lock, worker.c 155-157: a worker between its     *)
(* test and uv_cond_wait misses flag and broadcast, and the join never ends, *)
(* so "every join ends" is not a property of this pool.)                     *)
ShutdownJoins ==
  (lpc = "join" /\ \A w \in Workers : wpc[w] \notin {"sleep", "wait"})
    ~> lpc = "freed"

(* worker.c, wpool_push_done: "total in-flight completions can never exceed  *)
(* outstanding jobs, so this never overflows".                               *)
DoneNeverOverflows == done_count <= JobCap
=============================================================================
