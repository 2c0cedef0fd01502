-------------------------------- MODULE Pool --------------------------------
(* What the worker pool promises the event loop (runtime/server/worker.c,     *)
(* rules 1-4 of docs/concurrency.md): a bounded FIFO of accepted jobs, one    *)
(* request in the hands of each worker, a FIFO of completions.  WorkerPool,   *)
(* with its rings, mutex, condition variable and wake-ups, implements it; the *)
(* Server module is built on it.                                              *)
EXTENDS Naturals, Sequences

CONSTANTS
  Workers,   \* the worker threads
  Reqs,      \* the requests (cerco_req pointers) that can be submitted
  Cap,       \* capacity of the job queue
  NoReq      \* "no request"

VARIABLES
  queue,     \* accepted jobs no worker has taken yet, oldest first
  hand,      \* hand[w]: the request worker w is running, or NoReq
  completed  \* finished jobs the event loop has not collected, oldest first

poolVars == <<queue, hand, completed>>

PoolTypeOK ==
  /\ queue \in Seq(Reqs)
  /\ Len(queue) <= Cap
  /\ hand \in [Workers -> Reqs \cup {NoReq}]
  /\ completed \in Seq(Reqs)

PoolInit ==
  /\ queue = <<>>
  /\ hand = [w \in Workers |-> NoReq]
  /\ completed = <<>>

(* wpool_try_submit returns 0: the job is accepted at the back of the queue. *)
Accept(r) ==
  /\ Len(queue) < Cap
  /\ queue' = Append(queue, r)
  /\ UNCHANGED <<hand, completed>>

(* A worker takes the oldest job. *)
Take(w) ==
  /\ hand[w] = NoReq
  /\ queue # <<>>
  /\ hand' = [hand EXCEPT ![w] = Head(queue)]
  /\ queue' = Tail(queue)
  /\ UNCHANGED completed

(* A worker's handler has returned and its request is handed back. *)
Finish(w) ==
  /\ hand[w] # NoReq
  /\ completed' = Append(completed, hand[w])
  /\ hand' = [hand EXCEPT ![w] = NoReq]
  /\ UNCHANGED queue

(* The event loop collects the oldest completion. *)
Collect ==
  /\ completed # <<>>
  /\ completed' = Tail(completed)
  /\ UNCHANGED <<queue, hand>>

PoolNext ==
  \/ \E r \in Reqs : Accept(r)
  \/ \E w \in Workers : Take(w) \/ Finish(w)
  \/ Collect

PoolSpec == PoolInit /\ [][PoolNext]_poolVars
=============================================================================
