-------------------------- MODULE WorkerPoolProofs --------------------------
(* Theorems about WorkerPool, for every set of workers and requests and every *)
(* capacity.                                                                  *)
EXTENDS WorkerPool, FiniteSetTheorems, SequenceTheorems, TLAPS

(* The index arithmetic of both rings stays inside the allocated arrays. *)
LEMMA RingNextInSlots ==
  ASSUME NEW i \in Slots
  PROVE  RingNext(i) \in Slots
BY JobCapAssumption DEF Slots, RingNext

(* Type correctness of the pool: the unchecked array indices and the job      *)
(* count of worker.c never leave their ranges.                                *)
THEOREM PoolTypeCorrect == Spec => []TypeOK
<1>1. Init => TypeOK
  <2> SUFFICES ASSUME wpool_start PROVE TypeOK
    BY DEF Init
  <2>1. PICK created \in SUBSET Workers :
           wpc = [w \in Workers |-> IF w \in created THEN "lock" ELSE "absent"]
    BY DEF wpool_start
  <2>2. wpc \in [Workers -> WorkerPCs]
    BY <2>1 DEF WorkerPCs
  <2>3. 0 \in Slots /\ job_count \in 0 .. JobCap /\ done_count \in Nat
    BY JobCapAssumption DEF wpool_start, Slots
  <2>4. /\ jobs \in [Slots -> Reqs \cup {NoReq}]
        /\ done \in [Slots -> Reqs \cup {NoReq}]
        /\ wreq \in [Workers -> Reqs \cup {NoReq}]
    BY DEF wpool_start
  <2>5. /\ job_head \in Slots /\ job_tail \in Slots
        /\ done_head \in Slots /\ done_tail \in Slots
        /\ queued_jobs \in Int
        /\ cur \in Reqs \cup {NoReq}
        /\ lpc \in LoopPCs
    BY <2>3 DEF wpool_start, LoopPCs
  <2>6. shutdown \in BOOLEAN /\ async_pending \in BOOLEAN
    BY DEF wpool_start
  <2>7. QED
    BY <2>2, <2>3, <2>4, <2>5, <2>6, Zenon DEF TypeOK
<1>2. TypeOK /\ [Next]_vars => TypeOK'
  <2> SUFFICES ASSUME TypeOK, [Next]_vars PROVE TypeOK'
    OBVIOUS
  <2> USE JobCapAssumption DEF TypeOK, Slots, WorkerPCs, LoopPCs
  <2>1. ASSUME NEW r \in Reqs, SubmitAccept(r) PROVE TypeOK'
    BY <2>1, RingNextInSlots DEF SubmitAccept, doneVars
  <2>2. CASE SubmitReject
    BY <2>2 DEF SubmitReject, jobVars, doneVars
  <2>3. CASE RejectReturn
    BY <2>3 DEF RejectReturn, LoopTop, jobVars, doneVars
  <2>4. CASE SubmitCount
    BY <2>4 DEF SubmitCount, jobVars, doneVars
  <2>5. CASE SubmitSignal
    <3>1. CASE UNCHANGED wpc
      BY <2>5, <3>1 DEF SubmitSignal, LoopTop, jobVars, doneVars
    <3>2. ASSUME NEW w \in Workers, wpc' = [wpc EXCEPT ![w] = "lock"] PROVE TypeOK'
      BY <2>5, <3>2 DEF SubmitSignal, LoopTop, jobVars, doneVars
    <3>3. \/ UNCHANGED wpc
          \/ \E w \in Workers : wpc' = [wpc EXCEPT ![w] = "lock"]
      BY <2>5 DEF SubmitSignal
    <3>4. QED
      BY <3>1, <3>2, <3>3, Zenon
  <2>6. CASE wpool_on_async
    BY <2>6 DEF wpool_on_async, jobVars, doneVars
  <2>7. CASE DrainPop
    <3>1. CASE lpc' = "uaf" /\ UNCHANGED <<doneVars, cur>>
      BY <2>7, <3>1 DEF DrainPop, jobVars, doneVars
    <3>2. CASE /\ lpc' = "apply"
               /\ cur' = done[done_head]
               /\ done_head' = RingNext(done_head)
               /\ done_count' = done_count - 1
               /\ UNCHANGED <<done, done_tail>>
      BY <2>7, <3>2, RingNextInSlots DEF DrainPop, jobVars
    <3>3. QED
      BY <2>7, <3>1, <3>2, Zenon DEF DrainPop
  <2>8. CASE DrainApply
    BY <2>8 DEF DrainApply, jobVars, doneVars
  <2>9. CASE DrainReturn
    BY <2>9 DEF DrainReturn, LoopTop, jobVars, doneVars
  <2>10. CASE LoopStop
    BY <2>10 DEF LoopStop, jobVars, doneVars
  <2>11. CASE ShutdownStore
    BY <2>11 DEF ShutdownStore, jobVars, doneVars
  <2>12. CASE ShutdownBroadcast
    BY <2>12 DEF ShutdownBroadcast, jobVars, doneVars
  <2>13. CASE ShutdownJoin
    BY <2>13 DEF ShutdownJoin, jobVars, doneVars
  <2>14. CASE ServeReturn
    BY <2>14 DEF ServeReturn, jobVars, doneVars
  <2>15. ASSUME NEW w \in Workers, WorkerNext(w) PROVE TypeOK'
    <3>1. CASE WorkerLock(w)
      BY <3>1 DEF WorkerLock, Goto, jobVars, doneVars
    <3>2. CASE SpuriousWake(w)
      BY <3>2 DEF SpuriousWake, Goto, jobVars, doneVars
    <3>3. CASE WorkerIdle(w)
      BY <3>3 DEF WorkerIdle, Goto, jobVars, doneVars
    <3>4. CASE WorkerWait(w)
      BY <3>4 DEF WorkerWait, Goto, jobVars, doneVars
    <3>5. CASE WorkerExit(w)
      BY <3>5 DEF WorkerExit, Goto, jobVars, doneVars
    <3>6. CASE WorkerPop(w)
      BY <3>6, RingNextInSlots DEF WorkerPop, Goto, doneVars
    <3>7. CASE WorkerCount(w)
      BY <3>7 DEF WorkerCount, Goto, jobVars, doneVars
    <3>8. CASE WorkerHandle(w)
      BY <3>8 DEF WorkerHandle, Goto, jobVars, doneVars
    <3>9. CASE wpool_push_done(w)
      BY <3>9, RingNextInSlots DEF wpool_push_done, Goto, jobVars
    <3>10. CASE wpool_wake_event_loop(w)
      BY <3>10 DEF wpool_wake_event_loop, Goto, jobVars, doneVars
    <3>11. QED
      BY <2>15, <3>1, <3>2, <3>3, <3>4, <3>5, <3>6, <3>7, <3>8, <3>9, <3>10
      DEF WorkerNext, WorkerStep
  <2>16. CASE UNCHANGED vars
    BY <2>16 DEF vars, jobVars, doneVars
  <2>17. QED
    BY <2>1, <2>2, <2>3, <2>4, <2>5, <2>6, <2>7, <2>8, <2>9, <2>10, <2>11,
       <2>12, <2>13, <2>14, <2>15, <2>16
    DEF Next, LoopNext, Ended
<1>3. QED
  BY <1>1, <1>2, PTL DEF Spec

(* The inductive invariant of the pool. *)
THEOREM PoolInvariant == Spec => []PoolInv
<1>1. Init => PoolInv
  <2> SUFFICES ASSUME wpool_start PROVE PoolInv
    BY DEF Init
  <2>1. PICK created \in SUBSET Workers :
           /\ created # {}
           /\ wpc = [w \in Workers |-> IF w \in created THEN "lock" ELSE "absent"]
    BY DEF wpool_start
  <2>2. \A w \in Workers : wpc[w] \in {"lock", "absent"}
    BY <2>1
  <2>3. SomeWorker
    BY <2>1 DEF SomeWorker
  <2>4. QED
    BY <2>2, <2>3
    DEF wpool_start, PoolInv, ShutdownFollowsLoop, NoWorkerAfterJoin, MutexExclusive,
        WorkerSawEmptyRing, WakeupNotLost, CompletionNoticed
<1>2. TypeOK /\ PoolInv /\ [Next]_vars => PoolInv'
  <2> SUFFICES ASSUME TypeOK, PoolInv, [Next]_vars PROVE PoolInv'
    OBVIOUS
  <2> USE DEF TypeOK, PoolInv, ShutdownFollowsLoop, NoWorkerAfterJoin, MutexExclusive,
              WorkerSawEmptyRing, SomeWorker, WakeupNotLost, CompletionNoticed
  <2>1. ASSUME NEW r \in Reqs, SubmitAccept(r) PROVE PoolInv'
    BY <2>1 DEF SubmitAccept, JobMutexFree, doneVars
  <2>2. CASE SubmitReject
    BY <2>2 DEF SubmitReject, jobVars, doneVars
  <2>3. CASE RejectReturn
    BY <2>3 DEF RejectReturn, LoopTop, jobVars, doneVars
  <2>4. CASE SubmitCount
    BY <2>4 DEF SubmitCount, jobVars, doneVars
  <2>5. CASE SubmitSignal
    BY <2>5 DEF SubmitSignal, LoopTop, jobVars, doneVars
  <2>6. CASE wpool_on_async
    BY <2>6 DEF wpool_on_async, jobVars, doneVars
  <2>7. CASE DrainPop
    BY <2>7 DEF DrainPop, jobVars, doneVars
  <2>8. CASE DrainApply
    BY <2>8 DEF DrainApply, jobVars, doneVars
  <2>9. CASE DrainReturn
    BY <2>9 DEF DrainReturn, LoopTop, jobVars, doneVars
  <2>10. CASE LoopStop
    BY <2>10 DEF LoopStop, jobVars, doneVars
  <2>11. CASE ShutdownStore
    BY <2>11 DEF ShutdownStore, jobVars, doneVars
  <2>12. CASE ShutdownBroadcast
    BY <2>12 DEF ShutdownBroadcast, jobVars, doneVars
  <2>13. CASE ShutdownJoin
    BY <2>13 DEF ShutdownJoin, jobVars, doneVars
  <2>14. CASE ServeReturn
    BY <2>14 DEF ServeReturn, jobVars, doneVars
  <2>15. ASSUME NEW w \in Workers, WorkerNext(w) PROVE PoolInv'
    <3>1. CASE WorkerLock(w)
      BY <3>1 DEF WorkerLock, Goto, JobMutexFree, jobVars, doneVars
    <3>2. CASE SpuriousWake(w)
      BY <3>2 DEF SpuriousWake, Goto, jobVars, doneVars
    <3>3. CASE WorkerIdle(w)
      BY <3>3 DEF WorkerIdle, Goto, jobVars, doneVars
    <3>4. CASE WorkerWait(w)
      BY <3>4 DEF WorkerWait, Goto, jobVars, doneVars
    <3>5. CASE WorkerExit(w)
      BY <3>5 DEF WorkerExit, Goto, jobVars, doneVars
    <3>6. CASE WorkerPop(w)
      BY <3>6 DEF WorkerPop, Goto, jobVars, doneVars
    <3>7. CASE WorkerCount(w)
      BY <3>7 DEF WorkerCount, Goto, jobVars, doneVars
    <3>8. CASE WorkerHandle(w)
      BY <3>8 DEF WorkerHandle, Goto, jobVars, doneVars
    <3>9. CASE wpool_push_done(w)
      BY <3>9 DEF wpool_push_done, Goto, jobVars, doneVars
    <3>10. CASE wpool_wake_event_loop(w)
      BY <3>10 DEF wpool_wake_event_loop, Goto, jobVars, doneVars
    <3>11. QED
      BY <2>15, <3>1, <3>2, <3>3, <3>4, <3>5, <3>6, <3>7, <3>8, <3>9, <3>10, Zenon
      DEF WorkerNext, WorkerStep
  <2>16. CASE UNCHANGED vars
    BY <2>16 DEF vars, jobVars, doneVars
  <2>17. QED
    BY <2>1, <2>2, <2>3, <2>4, <2>5, <2>6, <2>7, <2>8, <2>9, <2>10, <2>11, <2>12, <2>13, <2>14, <2>15, <2>16, Zenon
    DEF Next, LoopNext, Ended
<1>3. QED
  BY <1>1, <1>2, PoolTypeCorrect, PTL DEF Spec

(* worker.c sends its signal outside job_mu and one per job; no accepted job  *)
(* is ever left with every worker asleep.                                     *)
THEOREM NoLostWakeup == Spec => []WakeupNotLost
<1>1. PoolInv => WakeupNotLost
  BY DEF PoolInv
<1>2. QED
  BY <1>1, PoolInvariant, PTL

(* wpool_push_done wakes the loop after releasing done_mu and the wake-ups    *)
(* coalesce; no completion is left on the ring without one.                   *)
THEOREM NoStrandedCompletion == Spec => []CompletionNoticed
<1>1. PoolInv => CompletionNoticed
  BY DEF PoolInv
<1>2. QED
  BY <1>1, PoolInvariant, PTL

(* wpool_shutdown frees the rings only after every accepted job has run.      *)
THEOREM ShutdownDrainsQueue == Spec => []ShutdownRunsAcceptedJobs
<1>1. PoolInv => ShutdownRunsAcceptedJobs
  BY DEF PoolInv, ShutdownFollowsLoop, NoWorkerAfterJoin, SomeWorker,
         WorkerSawEmptyRing, ShutdownRunsAcceptedJobs
<1>2. QED
  BY <1>1, PoolInvariant, PTL

(* Nothing is enqueued on the freed job ring. *)
THEOREM FreedRingUntouched == Spec => NoSubmitAfterFree
<1>1. PoolInv /\ [Next]_vars =>
        [shutdown /\ lpc \in {"freed", "busy"} => jobVars' = jobVars]_vars
  <2> SUFFICES ASSUME PoolInv, Next, shutdown, lpc \in {"freed", "busy"}
               PROVE  jobVars' = jobVars
    BY DEF vars
  <2>1. \A w \in Workers : wpc[w] \in {"exit", "absent"}
    BY DEF PoolInv, NoWorkerAfterJoin
  <2>2. ASSUME NEW w \in Workers, WorkerNext(w) PROVE FALSE
    BY <2>1, <2>2
    DEF WorkerNext, WorkerStep, WorkerLock, SpuriousWake, WorkerIdle, WorkerWait,
        WorkerExit, WorkerPop, WorkerCount, WorkerHandle, wpool_push_done,
        wpool_wake_event_loop
  <2>3. ASSUME LoopNext PROVE jobVars' = jobVars
    BY <2>3
    DEF LoopNext, SubmitAccept, SubmitReject, RejectReturn, SubmitCount, SubmitSignal,
        wpool_on_async, DrainPop, DrainApply, DrainReturn, LoopStop, ShutdownStore,
        ShutdownBroadcast, ShutdownJoin, ServeReturn, jobVars
  <2>4. QED
    BY <2>2, <2>3 DEF Next, Ended, vars
<1>2. QED
  BY <1>1, PoolInvariant, PTL DEF Spec, NoSubmitAfterFree

-----------------------------------------------------------------------------
(* The set of workers between the pop and the decrement of queued_jobs. *)
Popped == {w \in Workers : wpc[w] = "popped"}

(* The set of workers in that window is finite, so it has a size. *)
LEMMA PoppedFinite ==
  IsFiniteSet(Popped) /\ Cardinality(Popped) \in Nat
<1>1. IsFiniteSet(Popped)
  BY WorkersAssumption, FS_Subset DEF Popped
<1>2. QED
  BY <1>1, FS_CardinalityType

(* A worker that pops a job enters the window, which grows by one. *)
LEMMA PoppedEnter ==
  ASSUME TypeOK, NEW w \in Workers, wpc[w] # "popped", Goto(w, "popped")
  PROVE  Cardinality(Popped') = Cardinality(Popped) + 1
<1>1. Popped' = Popped \cup {w}
  BY DEF Popped, Goto, TypeOK
<1>2. w \notin Popped
  BY DEF Popped
<1>3. QED
  BY <1>1, <1>2, PoppedFinite, FS_AddElement

(* A worker that decrements the counter leaves it, and it shrinks by one. *)
LEMMA PoppedLeave ==
  ASSUME TypeOK, NEW w \in Workers, wpc[w] = "popped", Goto(w, "run")
  PROVE  Cardinality(Popped') = Cardinality(Popped) - 1
<1>1. Popped' = Popped \ {w}
  BY DEF Popped, Goto, TypeOK
<1>2. w \in Popped
  BY DEF Popped
<1>3. QED
  BY <1>1, <1>2, PoppedFinite, FS_RemoveElement

(* Any other move of a worker leaves the window as it is. *)
LEMMA PoppedSame ==
  ASSUME TypeOK, NEW w \in Workers, NEW pc, wpc[w] # "popped", pc # "popped", Goto(w, pc)
  PROVE  Popped' = Popped
BY DEF Popped, Goto, TypeOK

(* stats.queued_jobs, decremented by the workers and incremented by the loop  *)
(* outside any lock, always equals the length of the ring once the pending    *)
(* updates are added.                                                         *)
THEOREM QueuedJobsCorrect == Spec => []QueuedJobsExact
<1> DEFINE Late(pc) == IF pc = "count" THEN 1 ELSE 0
<1>1. Init => QueuedJobsExact
  <2> SUFFICES ASSUME wpool_start PROVE QueuedJobsExact
    BY DEF Init
  <2>1. Popped = {}
    BY DEF wpool_start, Popped
  <2>2. Cardinality(Popped) = 0
    BY <2>1, FS_EmptySet
  <2>3. QED
    BY <2>2 DEF wpool_start, QueuedJobsExact, Popped
<1>2. TypeOK /\ QueuedJobsExact /\ [Next]_vars => QueuedJobsExact'
  <2> SUFFICES ASSUME TypeOK, [Next]_vars,
                      queued_jobs = job_count + Cardinality(Popped) - Late(lpc)
               PROVE  queued_jobs' = job_count' + Cardinality(Popped') - Late(lpc')
    BY DEF QueuedJobsExact, Popped
  <2> DEFINE Goal == queued_jobs' = job_count' + Cardinality(Popped') - Late(lpc')
  <2>a. job_count \in Int /\ queued_jobs \in Int /\ Cardinality(Popped) \in Int
    BY PoppedFinite, JobCapAssumption DEF TypeOK
  <2>1. ASSUME NEW r \in Reqs, SubmitAccept(r) PROVE Goal
    BY <2>a, <2>1 DEF SubmitAccept, Popped
  <2>2. CASE SubmitCount
    BY <2>a, <2>2 DEF SubmitCount, Popped, jobVars
  <2>3. CASE SubmitReject
    BY <2>a, <2>3 DEF SubmitReject, Popped, jobVars
  <2>4. CASE RejectReturn
    BY <2>a, <2>4 DEF RejectReturn, LoopTop, Popped, jobVars
  <2>5. CASE SubmitSignal
    <3>1. Popped' = Popped
      BY <2>5 DEF SubmitSignal, Popped, TypeOK
    <3>2. QED
      BY <2>a, <2>5, <3>1 DEF SubmitSignal, LoopTop, jobVars
  <2>6. CASE wpool_on_async
    BY <2>a, <2>6 DEF wpool_on_async, Popped, jobVars
  <2>7. CASE DrainPop
    BY <2>a, <2>7 DEF DrainPop, Popped, jobVars
  <2>8. CASE DrainApply
    BY <2>a, <2>8 DEF DrainApply, Popped, jobVars
  <2>9. CASE DrainReturn
    BY <2>a, <2>9 DEF DrainReturn, LoopTop, Popped, jobVars
  <2>10. CASE LoopStop
    BY <2>a, <2>10 DEF LoopStop, Popped, jobVars
  <2>11. CASE ShutdownStore
    BY <2>a, <2>11 DEF ShutdownStore, Popped, jobVars
  <2>12. CASE ShutdownBroadcast
    <3>1. Popped' = Popped
      BY <2>12 DEF ShutdownBroadcast, Popped, TypeOK
    <3>2. QED
      BY <2>a, <2>12, <3>1 DEF ShutdownBroadcast, jobVars
  <2>13. CASE ShutdownJoin
    BY <2>a, <2>13 DEF ShutdownJoin, Popped, jobVars
  <2>14. CASE ServeReturn
    BY <2>a, <2>14 DEF ServeReturn, Popped, jobVars
  <2>15. ASSUME NEW w \in Workers, WorkerNext(w) PROVE Goal
    <3>1. CASE WorkerLock(w)
      BY <2>a, <3>1, PoppedSame DEF WorkerLock, jobVars
    <3>2. CASE SpuriousWake(w)
      BY <2>a, <3>2, PoppedSame DEF SpuriousWake, jobVars
    <3>3. CASE WorkerIdle(w)
      BY <2>a, <3>3, PoppedSame DEF WorkerIdle, jobVars
    <3>4. CASE WorkerWait(w)
      BY <2>a, <3>4, PoppedSame DEF WorkerWait, jobVars
    <3>5. CASE WorkerExit(w)
      BY <2>a, <3>5, PoppedSame DEF WorkerExit, jobVars
    <3>6. CASE WorkerPop(w)
      BY <2>a, <3>6, PoppedEnter DEF WorkerPop, jobVars
    <3>7. CASE WorkerCount(w)
      BY <2>a, <3>7, PoppedLeave DEF WorkerCount, jobVars
    <3>8. CASE WorkerHandle(w)
      BY <2>a, <3>8, PoppedSame DEF WorkerHandle, jobVars
    <3>9. CASE wpool_push_done(w)
      BY <2>a, <3>9, PoppedSame DEF wpool_push_done, jobVars
    <3>10. CASE wpool_wake_event_loop(w)
      BY <2>a, <3>10, PoppedSame DEF wpool_wake_event_loop, jobVars
    <3>11. QED
      BY <2>15, <3>1, <3>2, <3>3, <3>4, <3>5, <3>6, <3>7, <3>8, <3>9, <3>10, Zenon
      DEF WorkerNext, WorkerStep
  <2>16. CASE UNCHANGED vars
    BY <2>a, <2>16 DEF vars, jobVars, Popped
  <2>17. QED
    BY <2>1, <2>2, <2>3, <2>4, <2>5, <2>6, <2>7, <2>8, <2>9, <2>10, <2>11, <2>12, <2>13, <2>14, <2>15, <2>16, Zenon
    DEF Next, LoopNext, Ended
<1>3. QED
  BY <1>1, <1>2, PoolTypeCorrect, PTL DEF Spec

-----------------------------------------------------------------------------
(* The refinement.  While no more jobs are outstanding than a ring holds, the  *)
(* rings are FIFO queues and every step of the pool is one of Pool's or none.  *)

(* x modulo the capacity, for an index that went round the ring at most once.  *)
LEMMA ModRing ==
  ASSUME NEW x \in 0 .. 2 * JobCap - 1
  PROVE  x % JobCap = IF x < JobCap THEN x ELSE x - JobCap
<1>1. CASE x < JobCap
  BY <1>1, JobCapAssumption
<1>2. CASE ~(x < JobCap)
  <2>1. x \in JobCap .. 2 * JobCap - 1
    BY <1>2, JobCapAssumption
  <2> QED
    BY <1>2, <2>1, JobCapAssumption
<1> QED
  BY <1>1, <1>2

(* Writing at the tail appends.                                                *)
LEMMA RingPush ==
  ASSUME NEW ring \in [Slots -> Reqs \cup {NoReq}], NEW head \in Slots,
         NEW count \in 0 .. JobCap - 1, NEW r \in Reqs \cup {NoReq},
         NEW tail, tail = (head + count) % JobCap
  PROVE  /\ RingSeq([ring EXCEPT ![tail] = r], head, count + 1)
              = Append(RingSeq(ring, head, count), r)
         /\ RingNext(tail) = (head + (count + 1)) % JobCap
<1> DEFINE new == [ring EXCEPT ![tail] = r]
           q == RingSeq(ring, head, count)
<1>1. JobCap \in Nat \ {0} /\ head \in 0 .. JobCap - 1
  BY JobCapAssumption DEF Slots
<1>2. /\ tail = IF head + count < JobCap THEN head + count ELSE head + count - JobCap
      /\ tail \in Slots
  <2>1. head + count \in 0 .. 2 * JobCap - 1
    BY <1>1
  <2>2. tail = IF head + count < JobCap THEN head + count ELSE head + count - JobCap
    BY <1>1, <2>1, ModRing
  <2> QED
    BY <1>1, <2>2 DEF Slots
<1>3. RingNext(tail) = (head + (count + 1)) % JobCap
  <2>1. RingNext(tail) = IF tail + 1 < JobCap THEN tail + 1 ELSE tail + 1 - JobCap
    <3>1. tail + 1 \in 0 .. 2 * JobCap - 1
      BY <1>1, <1>2 DEF Slots
    <3> QED
      BY <1>1, <3>1, ModRing DEF RingNext
  <2>2. (head + (count + 1)) % JobCap = IF head + (count + 1) < JobCap THEN head + (count + 1)
                                   ELSE head + (count + 1) - JobCap
    BY <1>1, ModRing
  <2> QED
    BY <1>1, <1>2, <2>1, <2>2
<1>4. \A i \in 1 .. count : /\ (head + i - 1) % JobCap \in Slots
                            /\ (head + i - 1) % JobCap # tail
  <2> SUFFICES ASSUME NEW i \in 1 .. count
               PROVE  (head + i - 1) % JobCap \in Slots /\ (head + i - 1) % JobCap # tail
    OBVIOUS
  <2>1. (head + i - 1) % JobCap = IF head + i - 1 < JobCap THEN head + i - 1 ELSE head + i - 1 - JobCap
    BY <1>1, ModRing
  <2> QED
    BY <1>1, <1>2, <2>1 DEF Slots
<1>5. \A i \in 1 .. count : new[(head + i - 1) % JobCap] = ring[(head + i - 1) % JobCap]
  BY <1>4
<1>6. new[tail] = r /\ (head + (count + 1) - 1) % JobCap = tail
  <2>1. head + (count + 1) - 1 = head + count
    BY <1>1
  <2> QED
    BY <1>2, <2>1
<1>7. /\ DOMAIN q = 1 .. count /\ Len(q) = count
      /\ \A i \in 1 .. count : q[i] = ring[(head + i - 1) % JobCap]
  BY <1>1 DEF RingSeq
<1>8. RingSeq(new, head, count + 1) = [i \in 1 .. count + 1 |-> new[(head + i - 1) % JobCap]]
  BY DEF RingSeq
<1> HIDE DEF new, q
<1>9. /\ q \in Seq(Reqs \cup {NoReq})
      /\ Append(q, r) \in Seq(Reqs \cup {NoReq})
      /\ Len(Append(q, r)) = count + 1
      /\ \A i \in 1 .. count : Append(q, r)[i] = q[i]
      /\ Append(q, r)[count + 1] = r
  <2>1. q \in Seq(Reqs \cup {NoReq})
    <3>1. q = [i \in 1 .. count |-> ring[(head + i - 1) % JobCap]]
      BY DEF q, RingSeq
    <3>2. \A i \in 1 .. count : ring[(head + i - 1) % JobCap] \in Reqs \cup {NoReq}
      BY <1>4
    <3> QED
      BY <3>1, <3>2
  <2> QED
    BY <1>7, <2>1, AppendProperties
<1>10. \A i \in 1 .. count + 1 :
         new[(head + i - 1) % JobCap] = IF i = count + 1 THEN r ELSE q[i]
  <2> SUFFICES ASSUME NEW i \in 1 .. count + 1
               PROVE  new[(head + i - 1) % JobCap] = IF i = count + 1 THEN r ELSE q[i]
    OBVIOUS
  <2>1. CASE i = count + 1
    BY <1>6, <2>1
  <2>2. CASE i # count + 1
    <3>1. i \in 1 .. count
      BY <2>2
    <3> QED
      BY <1>5, <1>7, <2>2, <3>1
  <2> QED
    BY <2>1, <2>2
<1>11. RingSeq(new, head, count + 1) = Append(q, r)
  <2> DEFINE p == RingSeq(new, head, count + 1)
  <2>1. \A i \in 1 .. count + 1 : p[i] = new[(head + i - 1) % JobCap]
    BY <1>8
  <2>2. p = [i \in 1 .. count + 1 |-> IF i = count + 1 THEN r ELSE q[i]]
    BY <1>8, <1>10
  <2>3. \A i \in 1 .. count : q[i] \in Reqs \cup {NoReq}
    BY <1>4, <1>7
  <2>4. p \in Seq(Reqs \cup {NoReq}) /\ Len(p) = count + 1
    <3> HIDE DEF p
    <3>1. count + 1 \in Nat
      OBVIOUS
    <3> QED
      BY <2>2, <2>3, <3>1
  <2>5. \A i \in 1 .. count + 1 : p[i] = Append(q, r)[i]
    BY <1>9, <2>2
  <2> HIDE DEF p
  <2>6. p = Append(q, r)
    BY <1>9, <2>4, <2>5, SeqEqual
  <2> QED
    BY <2>6 DEF p
<1> QED
  BY <1>3, <1>11 DEF new, q

(* Reading at the head and moving it on takes the oldest.                      *)
LEMMA RingPop ==
  ASSUME NEW ring \in [Slots -> Reqs \cup {NoReq}], NEW head \in Slots,
         NEW count \in 1 .. JobCap
  PROVE  /\ RingSeq(ring, head, count) # <<>>
         /\ Head(RingSeq(ring, head, count)) = ring[head]
         /\ Tail(RingSeq(ring, head, count)) = RingSeq(ring, RingNext(head), count - 1)
         /\ (head + count) % JobCap = (RingNext(head) + (count - 1)) % JobCap
<1> DEFINE q == RingSeq(ring, head, count)
           At(i) == (head + i - 1) % JobCap
<1>1. JobCap \in Nat \ {0} /\ head \in 0 .. JobCap - 1
  BY JobCapAssumption DEF Slots
<1>2. RingNext(head) = IF head + 1 < JobCap THEN head + 1 ELSE head + 1 - JobCap
  BY <1>1, ModRing DEF RingNext
<1>3. RingNext(head) \in 0 .. JobCap - 1
  BY <1>1, <1>2
<1>4. \A i \in 1 .. count : At(i) = IF head + i - 1 < JobCap THEN head + i - 1 ELSE head + i - 1 - JobCap
  <2> SUFFICES ASSUME NEW i \in 1 .. count
               PROVE  At(i) = IF head + i - 1 < JobCap THEN head + i - 1 ELSE head + i - 1 - JobCap
    OBVIOUS
  <2>1. head + i - 1 \in 0 .. 2 * JobCap - 1
    BY <1>1
  <2> QED
    BY <1>1, <2>1, ModRing
<1>5. \A i \in 1 .. count - 1 : (RingNext(head) + i - 1) % JobCap = At(i + 1)
  <2> SUFFICES ASSUME NEW i \in 1 .. count - 1
               PROVE  (RingNext(head) + i - 1) % JobCap = At(i + 1)
    OBVIOUS
  <2> DEFINE k == RingNext(head)
  <2>4. k = (IF head + 1 < JobCap THEN head + 1 ELSE head + 1 - JobCap) /\ k \in 0 .. JobCap - 1
    BY <1>2, <1>3
  <2> HIDE DEF k
  <2>1. k + i - 1 \in 0 .. 2 * JobCap - 1 /\ i + 1 \in 1 .. count
    BY <1>1, <2>4
  <2>2. (k + i - 1) % JobCap = IF k + i - 1 < JobCap THEN k + i - 1 ELSE k + i - 1 - JobCap
    BY <1>1, <2>1, <2>4, ModRing
  <2>3. At(i + 1) = IF head + (i + 1) - 1 < JobCap THEN head + (i + 1) - 1 ELSE head + (i + 1) - 1 - JobCap
    BY <1>4, <2>1
  <2> HIDE DEF At
  <2> QED
    BY <1>1, <2>2, <2>3, <2>4 DEF k
<1>6. (head + count) % JobCap = (RingNext(head) + (count - 1)) % JobCap
  <2> DEFINE k == RingNext(head)
  <2>3. k = (IF head + 1 < JobCap THEN head + 1 ELSE head + 1 - JobCap) /\ k \in 0 .. JobCap - 1
    BY <1>2, <1>3
  <2> HIDE DEF k
  <2>1. (head + count) % JobCap = IF head + count < JobCap THEN head + count ELSE head + count - JobCap
    <3>1. head + count \in 0 .. 2 * JobCap - 1
      BY <1>1
    <3> QED
      BY <1>1, <3>1, ModRing
  <2>2. (k + (count - 1)) % JobCap = IF k + (count - 1) < JobCap THEN k + (count - 1) ELSE k + (count - 1) - JobCap
    <3>1. k + (count - 1) \in 0 .. 2 * JobCap - 1
      BY <1>1, <2>3
    <3> QED
      BY <1>1, <2>3, <3>1, ModRing
  <2>4. (head + count) % JobCap = (k + (count - 1)) % JobCap
    BY <1>1, <2>1, <2>2, <2>3
  <2> QED
    BY <2>4 DEF k
<1>7. /\ q = [i \in 1 .. count |-> ring[At(i)]]
      /\ RingSeq(ring, RingNext(head), count - 1)
           = [i \in 1 .. count - 1 |-> ring[(RingNext(head) + i - 1) % JobCap]]
  BY DEF RingSeq
<1>8. \A i \in 1 .. count : At(i) \in Slots
  BY <1>1, <1>4 DEF Slots
<1>9. At(1) = head
  BY <1>1, <1>4
<1> HIDE DEF q, At
<1>10. q \in Seq(Reqs \cup {NoReq}) /\ Len(q) = count
  BY <1>7, <1>8
<1>11. q # <<>> /\ Head(q) = ring[head]
  BY <1>7, <1>9, <1>10
<1>12. /\ Tail(q) \in Seq(Reqs \cup {NoReq})
       /\ Len(Tail(q)) = count - 1
       /\ \A i \in 1 .. count - 1 : Tail(q)[i] = q[i + 1]
  BY <1>10, <1>11, HeadTailProperties
<1>13. \A i \in 1 .. count - 1 : q[i + 1] = ring[(RingNext(head) + i - 1) % JobCap]
  BY <1>5, <1>7
<1>14. Tail(q) = RingSeq(ring, RingNext(head), count - 1)
  <2> DEFINE p == RingSeq(ring, RingNext(head), count - 1)
  <2>1. p = [i \in 1 .. count - 1 |-> q[i + 1]]
    BY <1>7, <1>13
  <2>2. \A i \in 1 .. count - 1 : q[i + 1] \in Reqs \cup {NoReq}
    BY <1>7, <1>8
  <2> HIDE DEF p
  <2>3. p \in Seq(Reqs \cup {NoReq}) /\ Len(p) = count - 1
    <3>1. count - 1 \in Nat
      OBVIOUS
    <3> QED
      BY <2>1, <2>2, <3>1
  <2>4. \A i \in 1 .. count - 1 : p[i] = Tail(q)[i]
    BY <1>12, <2>1
  <2>5. p = Tail(q)
    BY <1>12, <2>3, <2>4, SeqEqual
  <2> QED
    BY <2>5 DEF p
<1> QED
  BY <1>6, <1>11, <1>14 DEF q


(* The workers that hold a request. *)
Held == {w \in Workers : wreq[w] # NoReq}

(* What the refinement needs of the rings: tail, head and count agree, only   *)
(* requests are queued, a worker between its pop and its push has one in      *)
(* hand, and what is outstanding fits on a ring.                              *)
RingsInv ==
  /\ job_tail = (job_head + job_count) % JobCap
  /\ done_tail = (done_head + done_count) % JobCap
  /\ RingSeq(jobs, job_head, job_count) \in Seq(Reqs)
  /\ \A w \in Workers : wpc[w] \in {"popped", "run", "push"} => wreq[w] # NoReq
  /\ job_count + Cardinality(Held) + done_count <= JobCap

(* The set of workers that hold a request is finite, so it has a size.         *)
LEMMA HeldFinite ==
  IsFiniteSet(Held) /\ Cardinality(Held) \in Nat
<1>1. IsFiniteSet(Held)
  BY WorkersAssumption, FS_Subset DEF Held
<1> QED
  BY <1>1, FS_CardinalityType

(* A worker with empty hands that takes a request makes it larger by one.      *)
LEMMA HeldEnter ==
  ASSUME TypeOK, NEW w \in Workers, NEW r, wreq[w] = NoReq, r # NoReq,
         wreq' = [wreq EXCEPT ![w] = r]
  PROVE  Cardinality(Held') = Cardinality(Held) + 1
<1>1. Held' = Held \cup {w} /\ w \notin Held
  BY DEF Held, TypeOK
<1> QED
  BY <1>1, HeldFinite, FS_AddElement

(* A worker that hands its request back makes it smaller by one.               *)
LEMMA HeldLeave ==
  ASSUME TypeOK, NEW w \in Workers, wreq[w] # NoReq,
         wreq' = [wreq EXCEPT ![w] = NoReq]
  PROVE  /\ Cardinality(Held') = Cardinality(Held) - 1
         /\ Cardinality(Held) >= 1
<1>1. Held' = Held \ {w} /\ w \in Held
  BY DEF Held, TypeOK
<1>2. Cardinality(Held') = Cardinality(Held) - 1
  BY <1>1, HeldFinite, FS_RemoveElement
<1>3. Cardinality(Held) # 0
  BY <1>1, HeldFinite, FS_EmptySet
<1> QED
  BY <1>2, <1>3, HeldFinite

(* A step that touches neither ring nor any worker's request is invisible.     *)
LEMMA RingsSame ==
  ASSUME RingsInv, UNCHANGED <<jobVars, doneVars, wreq>>,
         \A w \in Workers : wpc'[w] \in {"popped", "run", "push"}
                              => wpc[w] \in {"popped", "run", "push"}
  PROVE  RingsInv' /\ UNCHANGED Abs!poolVars
BY DEF RingsInv, Held, RingSeq, jobVars, doneVars, Abs!poolVars

(* wpool_try_submit accepts at the back of the queue.                          *)
LEMMA SubmitRefines ==
  ASSUME TypeOK, RingsInv, MaxOutstanding <= JobCap, NEW r \in Reqs, SubmitAccept(r)
  PROVE  RingsInv' /\ Abs!Accept(r)
<1> DEFINE q == RingSeq(jobs, job_head, job_count)
           p == RingSeq(jobs', job_head', job_count')
<1>1. /\ job_count \in 0 .. JobCap - 1 /\ job_head \in Slots
      /\ jobs \in [Slots -> Reqs \cup {NoReq}]
      /\ job_tail = (job_head + job_count) % JobCap
      /\ JobCap \in Nat /\ r \in Reqs \cup {NoReq}
      /\ done_count \in Nat /\ Cardinality(Held) \in Nat
  BY JobCapAssumption, HeldFinite DEF TypeOK, RingsInv, SubmitAccept
<1>2. p = Append(q, r) /\ job_tail' = (job_head' + job_count') % JobCap
  BY <1>1, RingPush DEF SubmitAccept
<1>3. q \in Seq(Reqs) /\ Len(q) = job_count
  <2>1. q \in Seq(Reqs)
    BY DEF RingsInv
  <2> QED
    BY <1>1, <2>1 DEF RingSeq
<1> HIDE DEF p, q
<1>4. p \in Seq(Reqs)
  BY <1>2, <1>3, AppendProperties
<1>5. job_count' + Cardinality(Held') + done_count' <= JobCap
  BY <1>1, MaxOutstandingAssumption DEF SubmitAccept, Outstanding, Held, doneVars
<1>6. RingsInv'
  BY <1>2, <1>4, <1>5 DEF RingsInv, SubmitAccept, doneVars, p
<1>7. UNCHANGED <<wreq, RingSeq(done, done_head, done_count)>>
  BY DEF SubmitAccept, doneVars, RingSeq
<1>8. Len(q) < JobCap
  BY <1>1, <1>3
<1> QED
  BY <1>2, <1>6, <1>7, <1>8 DEF Abs!Accept, p, q

(* A worker pops the oldest job with empty hands.                              *)
LEMMA PopRefines ==
  ASSUME TypeOK, PoolInv, RingsInv, NEW w \in Workers, WorkerPop(w)
  PROVE  RingsInv' /\ Abs!Take(w)
<1> DEFINE q == RingSeq(jobs, job_head, job_count)
           p == RingSeq(jobs', job_head', job_count')
<1>1. /\ job_count \in 1 .. JobCap /\ job_head \in Slots
      /\ jobs \in [Slots -> Reqs \cup {NoReq}]
      /\ job_tail = (job_head + job_count) % JobCap
      /\ JobCap \in Nat
      /\ done_count \in Nat /\ Cardinality(Held) \in Nat
  BY JobCapAssumption, HeldFinite DEF TypeOK, RingsInv, WorkerPop
<1>2. /\ q # <<>> /\ Head(q) = jobs[job_head] /\ Tail(q) = p
      /\ job_tail' = (job_head' + job_count') % JobCap
  BY <1>1, RingPop DEF WorkerPop
<1>3. q \in Seq(Reqs)
  BY DEF RingsInv
<1> HIDE DEF p, q
<1>4. p \in Seq(Reqs) /\ Head(q) \in Reqs
  BY <1>2, <1>3, HeadTailProperties
<1>5. wreq[w] = NoReq /\ jobs[job_head] # NoReq
  BY <1>2, <1>4, NoReqAssumption DEF PoolInv, WorkerSawEmptyRing, WorkerPop
<1>6. Cardinality(Held') = Cardinality(Held) + 1
  BY <1>5, HeldEnter DEF WorkerPop
<1>7. job_count' + Cardinality(Held') + done_count' <= JobCap
  BY <1>1, <1>6 DEF WorkerPop, RingsInv, doneVars
<1>8. \A v \in Workers : wpc'[v] \in {"popped", "run", "push"} => wreq'[v] # NoReq
  BY <1>5 DEF WorkerPop, Goto, RingsInv, TypeOK
<1>9. RingsInv'
  BY <1>2, <1>4, <1>7, <1>8 DEF RingsInv, WorkerPop, doneVars, p
<1>10. UNCHANGED RingSeq(done, done_head, done_count)
  BY DEF WorkerPop, doneVars, RingSeq
<1>11. wreq' = [wreq EXCEPT ![w] = Head(q)]
  BY <1>2 DEF WorkerPop
<1> QED
  BY <1>2, <1>5, <1>9, <1>10, <1>11 DEF Abs!Take, p, q

(* wpool_push_done appends to the completions; the ring has room for it.        *)
LEMMA PushRefines ==
  ASSUME TypeOK, RingsInv, NEW w \in Workers, wpool_push_done(w)
  PROVE  RingsInv' /\ Abs!Finish(w)
<1> DEFINE q == RingSeq(done, done_head, done_count)
           p == RingSeq(done', done_head', done_count')
<1>1. wreq[w] # NoReq /\ wreq[w] \in Reqs \cup {NoReq}
  BY DEF RingsInv, wpool_push_done, TypeOK
<1>2. Cardinality(Held') = Cardinality(Held) - 1 /\ Cardinality(Held) \in Nat
  BY <1>1, HeldLeave, HeldFinite DEF wpool_push_done
<1>3. Cardinality(Held) >= 1
  BY <1>1, HeldLeave DEF wpool_push_done
<1>4. /\ done_count \in 0 .. JobCap - 1 /\ done_head \in Slots
      /\ done \in [Slots -> Reqs \cup {NoReq}]
      /\ done_tail = (done_head + done_count) % JobCap
      /\ JobCap \in Nat /\ job_count \in Nat
  BY <1>2, <1>3, JobCapAssumption DEF TypeOK, RingsInv
<1>5. p = Append(q, wreq[w]) /\ done_tail' = (done_head' + done_count') % JobCap
  BY <1>1, <1>4, RingPush DEF wpool_push_done
<1> HIDE DEF p, q
<1>6. job_count' + Cardinality(Held') + done_count' <= JobCap
  BY <1>2, <1>4 DEF RingsInv, wpool_push_done, jobVars
<1>7. \A v \in Workers : wpc'[v] \in {"popped", "run", "push"} => wreq'[v] # NoReq
  BY DEF wpool_push_done, Goto, RingsInv, TypeOK
<1>8. UNCHANGED RingSeq(jobs, job_head, job_count)
  BY DEF wpool_push_done, jobVars, RingSeq
<1>9. RingsInv'
  BY <1>5, <1>6, <1>7, <1>8 DEF RingsInv, wpool_push_done, jobVars
<1> QED
  BY <1>1, <1>5, <1>8, <1>9 DEF Abs!Finish, wpool_push_done, p, q

(* wpool_drain_completions collects the oldest completion; once the rings are  *)
(* freed it would read freed memory, and nothing is collected.                 *)
LEMMA DrainRefines ==
  ASSUME TypeOK, RingsInv, DrainPop
  PROVE  RingsInv' /\ (Abs!Collect \/ UNCHANGED Abs!poolVars)
<1> DEFINE q == RingSeq(done, done_head, done_count)
           p == RingSeq(done', done_head', done_count')
<1>1. CASE shutdown
  <2>1. UNCHANGED <<jobVars, doneVars, wreq, wpc>>
    BY <1>1 DEF DrainPop
  <2> QED
    BY <2>1, RingsSame
<1>2. CASE ~shutdown
  <2>1. /\ done_count \in 1 .. JobCap /\ done_head \in Slots
        /\ done \in [Slots -> Reqs \cup {NoReq}]
        /\ done_tail = (done_head + done_count) % JobCap
        /\ JobCap \in Nat /\ job_count \in Nat /\ Cardinality(Held) \in Nat
    BY JobCapAssumption, HeldFinite DEF TypeOK, RingsInv, DrainPop
  <2>2. /\ q # <<>> /\ Tail(q) = p
        /\ done_tail' = (done_head' + done_count') % JobCap
    BY <1>2, <2>1, RingPop DEF DrainPop
  <2> HIDE DEF p, q
  <2>3. job_count' + Cardinality(Held') + done_count' <= JobCap
    BY <1>2, <2>1 DEF RingsInv, DrainPop, jobVars, Held
  <2>4. UNCHANGED <<RingSeq(jobs, job_head, job_count), wreq>>
    BY DEF DrainPop, jobVars, RingSeq
  <2>5. RingsInv'
    BY <2>2, <2>3, <2>4 DEF RingsInv, DrainPop, jobVars
  <2> QED
    BY <2>2, <2>4, <2>5 DEF Abs!Collect, p, q
<1> QED
  BY <1>1, <1>2

(* Every step of the pool keeps RingsInv and is a step of Pool or none.        *)
LEMMA PoolStepRefines ==
  ASSUME TypeOK, PoolInv, RingsInv, MaxOutstanding <= JobCap, [Next]_vars
  PROVE  RingsInv' /\ [Abs!PoolNext]_(Abs!poolVars)
<1> DEFINE Goal == RingsInv' /\ [Abs!PoolNext]_(Abs!poolVars)
           Quiet == /\ UNCHANGED <<jobVars, doneVars, wreq>>
                    /\ \A w \in Workers : wpc'[w] \in {"popped", "run", "push"}
                                            => wpc[w] \in {"popped", "run", "push"}
<1> SUFFICES Goal
  OBVIOUS
<1>1. ASSUME Quiet PROVE Goal
  BY <1>1, RingsSame
<1>2. ASSUME NEW r \in Reqs, SubmitAccept(r) PROVE Goal
  BY <1>2, SubmitRefines DEF Abs!PoolNext
<1>3. CASE DrainPop
  BY <1>3, DrainRefines DEF Abs!PoolNext
<1>4. ASSUME NEW w \in Workers, WorkerPop(w) PROVE Goal
  BY <1>4, PopRefines DEF Abs!PoolNext
<1>5. ASSUME NEW w \in Workers, wpool_push_done(w) PROVE Goal
  BY <1>5, PushRefines DEF Abs!PoolNext
<1>6. CASE SubmitSignal
  <2>1. Quiet
    BY <1>6 DEF SubmitSignal, TypeOK
  <2> QED
    BY <1>1, <2>1
<1>7. CASE ShutdownBroadcast
  <2>1. Quiet
    BY <1>7 DEF ShutdownBroadcast, TypeOK
  <2> QED
    BY <1>1, <2>1
<1>8. CASE \/ SubmitReject \/ RejectReturn \/ SubmitCount \/ wpool_on_async
           \/ DrainApply \/ DrainReturn \/ LoopStop \/ ShutdownStore
           \/ ShutdownJoin \/ ServeReturn \/ UNCHANGED vars
  <2>1. Quiet
    BY <1>8 DEF SubmitReject, RejectReturn, SubmitCount, wpool_on_async, DrainApply,
                DrainReturn, LoopStop, ShutdownStore, ShutdownJoin, ServeReturn, vars
  <2> QED
    BY <1>1, <2>1
<1>9. ASSUME NEW w \in Workers,
             \/ WorkerLock(w) \/ SpuriousWake(w) \/ WorkerIdle(w) \/ WorkerWait(w)
             \/ WorkerExit(w) \/ WorkerCount(w) \/ WorkerHandle(w)
             \/ wpool_wake_event_loop(w)
      PROVE  Goal
  <2>1. Quiet
    BY <1>9 DEF WorkerLock, SpuriousWake, WorkerIdle, WorkerWait, WorkerExit, WorkerCount,
                WorkerHandle, wpool_wake_event_loop, Goto, TypeOK
  <2> QED
    BY <1>1, <2>1
<1> HIDE DEF Goal
<1>10. ASSUME NEW w \in Workers, WorkerNext(w) PROVE Goal
  BY <1>4, <1>5, <1>9, <1>10, Zenon DEF WorkerNext, WorkerStep
<1>11. CASE UNCHANGED vars \/ Ended
  BY <1>8, <1>11, Zenon DEF Ended
<1>12. CASE LoopNext
  BY <1>2, <1>3, <1>6, <1>7, <1>8, <1>12, Zenon DEF LoopNext
<1>13. Next \/ UNCHANGED vars
  OBVIOUS
<1> QED
  BY <1>10, <1>11, <1>12, <1>13, Zenon DEF Next

(* The pool starts as Pool does.                                               *)
LEMMA PoolInitRefines ==
  Init => RingsInv /\ Abs!PoolInit
<1> SUFFICES ASSUME wpool_start PROVE RingsInv /\ Abs!PoolInit
  BY DEF Init
<1>1. Held = {} /\ Cardinality(Held) = 0
  BY FS_EmptySet DEF wpool_start, Held
<1>2. \A w \in Workers : wpc[w] \in {"lock", "absent"}
  BY DEF wpool_start
<1>3. 0 % JobCap = 0
  BY JobCapAssumption
<1>4. /\ RingSeq(jobs, job_head, job_count) = <<>>
      /\ RingSeq(done, done_head, done_count) = <<>>
  BY DEF wpool_start, RingSeq
<1>5. <<>> \in Seq(Reqs)
  BY EmptySeq
<1>6. RingsInv
  <2>1. /\ job_tail = (job_head + job_count) % JobCap
        /\ done_tail = (done_head + done_count) % JobCap
    BY <1>3 DEF wpool_start
  <2>2. job_count + Cardinality(Held) + done_count <= JobCap
    BY <1>1, JobCapAssumption DEF wpool_start
  <2> QED
    BY <1>2, <1>4, <1>5, <2>1, <2>2 DEF RingsInv
<1>7. Abs!PoolInit
  BY <1>4 DEF Abs!PoolInit, wpool_start
<1> QED
  BY <1>6, <1>7

(* While no more jobs are outstanding than a ring holds, the rings, indices,   *)
(* mutex and wake-ups of worker.c implement the bounded FIFO pool of Pool.     *)
(* The hypothesis is needed: wpool_push_done does not check for a full ring.   *)
THEOREM PoolRefines == MaxOutstanding <= JobCap => (Spec => ImplementsPool)
<1> SUFFICES ASSUME MaxOutstanding <= JobCap PROVE Spec => ImplementsPool
  OBVIOUS
<1>1. Init => RingsInv /\ Abs!PoolInit
  BY PoolInitRefines
<1>2. TypeOK /\ PoolInv /\ RingsInv /\ [Next]_vars
        => RingsInv' /\ [Abs!PoolNext]_(Abs!poolVars)
  BY PoolStepRefines
<1>3. QED
  BY <1>1, <1>2, PoolTypeCorrect, PoolInvariant, PTL DEF Spec, ImplementsPool, Abs!PoolSpec

(* The comment of wpool_push_done, "total in-flight completions can never      *)
(* exceed outstanding jobs, so this never overflows", holds when the jobs      *)
(* outstanding are bounded by the capacity, which wpool_try_submit, counting   *)
(* only the queued ones, does not see to.                                      *)
THEOREM DoneRingHolds == MaxOutstanding <= JobCap => (Spec => []DoneNeverOverflows)
<1> SUFFICES ASSUME MaxOutstanding <= JobCap PROVE Spec => []DoneNeverOverflows
  OBVIOUS
<1>1. Init => RingsInv
  BY PoolInitRefines
<1>2. TypeOK /\ PoolInv /\ RingsInv /\ [Next]_vars => RingsInv'
  BY PoolStepRefines
<1>3. TypeOK /\ RingsInv => DoneNeverOverflows
  BY HeldFinite, JobCapAssumption DEF TypeOK, RingsInv, DoneNeverOverflows
<1>4. QED
  BY <1>1, <1>2, <1>3, PoolTypeCorrect, PoolInvariant, PTL DEF Spec
=============================================================================
