---------------------------- MODULE ServerProofs ----------------------------
(* Theorems about Server, for every set of connections, requests and workers   *)
(* and every capacity, and for clients that send nothing behind a request they *)
(* wait for an answer to.  One lemma per callback shows that it keeps          *)
(* ServerInv; most rest on LinkStep, which asks of a callback only what it may *)
(* make of each connection (ConnStep) and of the requests (CancelStep).        *)
EXTENDS ServerInductive, FiniteSetTheorems, SequenceTheorems, TLAPS

(* Clients wait for their answer: nothing follows a message in one read.       *)
SequentialClients == AfterComplete = {}

-----------------------------------------------------------------------------
(* After start_shutdown: closing, draining, or writing the last answer.        *)
Winding(k) ==
  k.closing \/ k.phase = "DRAIN" \/ (k.phase = "WRITE" /\ k.force_close)

(* What a callback that leaves the pool alone may make of a connection k.      *)
ConnStep(k, m) ==
  /\ m \in ConnType /\ ConnSound(m)
  /\ m.live => m.arena = k.arena /\ (k.closing => m.closing)
  /\ m.live \/ ~k.live \/ k.closing
  /\ m.req # k.req => m.req = NoReq /\ (m.closing => k.closing)
  /\ k.closing => Len(m.writes) <= Len(k.writes)
  /\ k.live /\ m.live /\ Winding(k) => Winding(m)
  /\ Refused(k) /\ m.live => Refused(m)
  /\ Expects(k) /\ ~m.closing => Expects(m) /\ m.req = k.req
  /\ Awaits(m) => Awaits(k) /\ m.req = k.req

(* ... and of the request objects: the request of a connection that starts to  *)
(* close is cancelled, and one that a connection awaits only then.             *)
CancelStep ==
  /\ req' \in [Reqs -> ReqType]
  /\ \A r \in Reqs :
       /\ req'[r].conn = req[r].conn
       /\ req[r].cancelled => req'[r].cancelled
       /\ req'[r].cancelled /\ ~req[r].cancelled =>
            \E c \in Conns : /\ conn[c].req = r
                             /\ conn'[c].closing \/ (shutting_down' /\ ~Awaits(conn[c]))
       /\ \A c \in Conns : conn'[c].closing /\ ~conn[c].closing /\ conn[c].req = r
                            => req'[r].cancelled

(* What AnswerOnlyToAsker says of a step.                                      *)
AskerStep ==
  \A c \in Conns : Len(conn'[c].writes) > Len(conn[c].writes) =>
    /\ ~conn[c].closing
    /\ completed' # completed => /\ conn[c].req = Head(completed)
                                 /\ conn[c].owed > 0

-----------------------------------------------------------------------------
(* The struct as memset in cerco_connection_cb leaves it satisfies the         *)
(* invariant: nothing queued, no request, not closing.                         *)
LEMMA FreeConnSound == FreeConn \in ConnType /\ ConnSound(FreeConn)
BY ServerAssumption, EmptySeq
DEF FreeConn, ConnType, ConnSound, StructSound, OpenSound, OneSound, TwoSound, Refused, Phases

(* The queue of pending writes of a connection is a sequence, so its length    *)
(* can be compared before and after a callback.                                *)
LEMMA WritesLen ==
  ASSUME NEW k \in ConnType
  PROVE  k.writes \in Seq(WriteKinds) /\ Len(k.writes) \in Nat
BY LenProperties DEF ConnType

(* A callback that leaves a connection alone takes a ConnStep on it.           *)
LEMMA SameStep ==
  ASSUME NEW k \in ConnType, ConnSound(k)
  PROVE  ConnStep(k, k)
BY WritesLen DEF ConnStep, ConnType

(* conn_close_and_free takes a ConnStep: the connection stays linked, keeps    *)
(* its request and arena, and is closing from then on.                         *)
LEMMA CloseStep ==
  ASSUME NEW k \in ConnType, ConnSound(k), k.live
  PROVE  /\ ConnStep(k, conn_close_and_free(k))
         /\ conn_close_and_free(k).live /\ conn_close_and_free(k).closing
         /\ conn_close_and_free(k).req = k.req
<1> DEFINE m == conn_close_and_free(k)
<1>1. /\ m \in ConnType /\ m.closing /\ m.live /\ m.arena = k.arena /\ m.req = k.req
      /\ m.writes = k.writes /\ m.phase = k.phase /\ (m.half <=> k.half) /\ ~m.reading /\ ~m.sse
      /\ (m.close_cb_done => m.closing)
      /\ (Refused(m) <=> Refused(k))
  <2>1. CASE k.closing
    BY <2>1 DEF conn_close_and_free, ConnSound, StructSound
  <2>2. CASE ~k.closing
    BY <2>2 DEF conn_close_and_free, ConnType, Refused
  <2>3. QED
    BY <2>1, <2>2
<1> HIDE DEF m
<1>2. StructSound(m)
  BY <1>1 DEF ConnSound, StructSound
<1>3. QED
  BY <1>1, <1>2, WritesLen DEF m, ConnStep, ConnSound, Awaits, Expects, Overtaken, Winding

(* conn_maybe_finalize, on a closing connection, takes a ConnStep whether or   *)
(* not it goes on to conn_finalize.                                            *)
LEMMA FinalizeStep ==
  ASSUME NEW k \in ConnType, ConnSound(k), k.closing
  PROVE  ConnStep(k, conn_maybe_finalize(k))
<1>1. CASE Finalizes(k)
  <2>1. conn_maybe_finalize(k) = FreeConn
    BY <1>1 DEF conn_maybe_finalize
  <2>2. ~FreeConn.live /\ ~FreeConn.closing /\ FreeConn.req = NoReq /\ Len(FreeConn.writes) = 0
    BY EmptySeq DEF FreeConn
  <2>3. QED
    BY <2>1, <2>2, FreeConnSound, WritesLen DEF ConnStep, Awaits, Expects, Overtaken, Refused
<1>2. CASE ~Finalizes(k)
  BY <1>2, SameStep DEF conn_maybe_finalize
<1>3. QED
  BY <1>1, <1>2

(* wpool_try_submit: an accepted request that was not in the pool is in one    *)
(* place of it afterwards, and no other request enters or leaves.              *)
LEMMA AcceptPool ==
  ASSUME PoolTypeOK, PoolDistinct, NEW r \in Reqs, ~InPool(r), Accept(r)
  PROVE  /\ PoolTypeOK' /\ PoolDistinct'
         /\ \A x \in Reqs : InPool(x)' <=> InPool(x) \/ x = r
<1>1. /\ queue' \in Seq(Reqs) /\ Len(queue') = Len(queue) + 1 /\ Len(queue) \in Nat
      /\ \A i \in 1 .. Len(queue) : queue'[i] = queue[i]
      /\ queue'[Len(queue) + 1] = r
  BY AppendProperties, LenProperties DEF Accept, PoolTypeOK
<1>2. hand' = hand /\ completed' = completed /\ Len(queue) < Cap
  BY DEF Accept
<1>3. \A i \in 1 .. Len(queue') : i \in 1 .. Len(queue) \/ i = Len(queue) + 1
  BY <1>1
<1>4. Len(queue) + 1 \in 1 .. Len(queue') /\ 1 .. Len(queue) \subseteq 1 .. Len(queue')
  BY <1>1
<1>5. \A x \in Reqs : InPool(x)' <=> InPool(x) \/ x = r
  BY <1>1, <1>2, <1>3, <1>4 DEF InPool
<1>6. PoolDistinct'
  <2>1. /\ \A i \in 1 .. Len(queue) : queue[i] # r
        /\ \A w \in Workers : hand[w] # r
        /\ \A i \in 1 .. Len(completed) : completed[i] # r
    BY DEF InPool
  <2>2. QED
    BY <1>1, <1>2, <1>3, <2>1 DEF PoolDistinct
<1>7. QED
  BY <1>1, <1>2, <1>5, <1>6, ServerAssumption DEF PoolTypeOK

(* A worker that pops a job moves it from the ring into its hand.              *)
LEMMA TakePool ==
  ASSUME PoolTypeOK, PoolDistinct, NEW w \in Workers, Take(w)
  PROVE  /\ PoolTypeOK' /\ PoolDistinct'
         /\ \A x \in Reqs : InPool(x)' <=> InPool(x)
<1>1. /\ queue' \in Seq(Reqs) /\ Len(queue') = Len(queue) - 1 /\ Len(queue) \in Nat \ {0}
      /\ \A i \in 1 .. Len(queue') : queue'[i] = queue[i + 1]
      /\ Head(queue) \in Reqs /\ Head(queue) = queue[1]
  BY HeadTailProperties, EmptySeq DEF Take, PoolTypeOK
<1>2. /\ hand' = [hand EXCEPT ![w] = queue[1]] /\ completed' = completed /\ hand[w] = NoReq
      /\ hand \in [Workers -> Reqs \cup {NoReq}]
  BY <1>1 DEF Take, PoolTypeOK
<1>3. /\ \A i \in 1 .. Len(queue') : i + 1 \in 1 .. Len(queue)
      /\ \A i \in 1 .. Len(queue) : i = 1 \/ (i - 1 \in 1 .. Len(queue') /\ i = (i - 1) + 1)
      /\ 1 \in 1 .. Len(queue)
  BY <1>1
<1>4. ASSUME NEW x \in Reqs PROVE InPool(x)' <=> InPool(x)
  <2>1. ASSUME InPool(x)' PROVE InPool(x)
    BY <1>1, <1>2, <1>3, <2>1 DEF InPool
  <2>2. ASSUME NEW i \in 1 .. Len(queue), queue[i] = x PROVE InPool(x)'
    <3>1. CASE i = 1
      BY <1>2, <2>2, <3>1 DEF InPool
    <3>2. CASE i - 1 \in 1 .. Len(queue')
      <4>1. queue'[i - 1] = x
        BY <1>1, <2>2, <3>2
      <4>2. QED
        BY <3>2, <4>1 DEF InPool
    <3>3. QED
      BY <1>3, <3>1, <3>2
  <2>3. ASSUME NEW v \in Workers, hand[v] = x PROVE InPool(x)'
    <3>1. v # w
      BY <1>2, <2>3, ServerAssumption
    <3>2. hand'[v] = x
      BY <1>2, <2>3, <3>1
    <3>3. QED
      BY <3>2 DEF InPool
  <2>4. ASSUME NEW i \in 1 .. Len(completed), completed[i] = x PROVE InPool(x)'
    BY <1>2, <2>4 DEF InPool
  <2>5. QED
    BY <2>1, <2>2, <2>3, <2>4 DEF InPool
<1>5. PoolDistinct'
  <2>3. \A v \in Workers : hand'[v] = IF v = w THEN queue[1] ELSE hand[v]
    BY <1>2
  <2>4. \A i \in 1 .. Len(queue') : queue'[i] # queue[1]
    BY <1>1, <1>3 DEF PoolDistinct
  <2>5. \A i, j \in 1 .. Len(queue') : queue'[i] = queue'[j] => i = j
    BY <1>1, <1>3 DEF PoolDistinct
  <2>6. \A u, v \in Workers : hand'[u] = hand'[v] /\ hand'[u] # NoReq => u = v
    BY <1>3, <2>3 DEF PoolDistinct
  <2>7. \A i \in 1 .. Len(queue'), v \in Workers : queue'[i] # hand'[v]
    BY <1>1, <1>3, <2>3, <2>4 DEF PoolDistinct
  <2>8. \A v \in Workers, j \in 1 .. Len(completed') : hand'[v] # completed'[j]
    BY <1>2, <1>3, <2>3 DEF PoolDistinct
  <2>9. \A i \in 1 .. Len(queue'), j \in 1 .. Len(completed') : queue'[i] # completed'[j]
    BY <1>1, <1>2, <1>3 DEF PoolDistinct
  <2>10. QED
    BY <1>2, <2>5, <2>6, <2>7, <2>8, <2>9 DEF PoolDistinct
<1>6. QED
  BY <1>1, <1>2, <1>4, <1>5, ServerAssumption DEF PoolTypeOK

(* wpool_push_done moves a worker's request to the completions.                *)
LEMMA FinishPool ==
  ASSUME PoolTypeOK, PoolDistinct, NEW w \in Workers, Finish(w)
  PROVE  /\ PoolTypeOK' /\ PoolDistinct'
         /\ \A x \in Reqs : InPool(x)' <=> InPool(x)
<1>1. hand[w] \in Reqs /\ hand \in [Workers -> Reqs \cup {NoReq}]
  BY DEF Finish, PoolTypeOK
<1>2. /\ completed' \in Seq(Reqs) /\ Len(completed') = Len(completed) + 1
      /\ Len(completed) \in Nat
      /\ \A i \in 1 .. Len(completed) : completed'[i] = completed[i]
      /\ completed'[Len(completed) + 1] = hand[w]
  BY <1>1, AppendProperties, LenProperties DEF Finish, PoolTypeOK
<1>3. queue' = queue /\ hand' = [hand EXCEPT ![w] = NoReq]
  BY DEF Finish
<1>4. /\ \A i \in 1 .. Len(completed') : i \in 1 .. Len(completed) \/ i = Len(completed) + 1
      /\ Len(completed) + 1 \in 1 .. Len(completed')
      /\ 1 .. Len(completed) \subseteq 1 .. Len(completed')
  BY <1>2
<1>5. ASSUME NEW x \in Reqs PROVE InPool(x)' <=> InPool(x)
  BY <1>1, <1>2, <1>3, <1>4, ServerAssumption DEF InPool
<1>6. PoolDistinct'
  <2>1. \A i \in 1 .. Len(queue) : queue[i] \in Reqs
    BY ElementOfSeq DEF PoolTypeOK
  <2>2. \A i \in 1 .. Len(completed') : completed'[i] \in Reqs
    BY <1>2, ElementOfSeq
  <2>3. QED
    BY <1>1, <1>2, <1>3, <1>4, <2>1, <2>2, ServerAssumption DEF PoolDistinct
<1>7. QED
  BY <1>1, <1>2, <1>3, <1>5, <1>6 DEF PoolTypeOK

(* wpool_drain_completions takes the oldest completion out of the pool, and    *)
(* only it.                                                                    *)
LEMMA CollectPool ==
  ASSUME PoolTypeOK, PoolDistinct, Collect
  PROVE  /\ PoolTypeOK' /\ PoolDistinct'
         /\ Head(completed) \in Reqs /\ InPool(Head(completed))
         /\ \A x \in Reqs : InPool(x)' <=> InPool(x) /\ x # Head(completed)
<1>1. /\ completed' \in Seq(Reqs) /\ Len(completed') = Len(completed) - 1
      /\ Len(completed) \in Nat \ {0}
      /\ \A i \in 1 .. Len(completed') : completed'[i] = completed[i + 1]
      /\ Head(completed) \in Reqs /\ Head(completed) = completed[1]
  BY HeadTailProperties, EmptySeq DEF Collect, PoolTypeOK
<1>2. queue' = queue /\ hand' = hand
  BY DEF Collect
<1>3. /\ \A i \in 1 .. Len(completed') : i + 1 \in 1 .. Len(completed) /\ i + 1 # 1
      /\ \A i \in 1 .. Len(completed) : i = 1 \/ (i - 1 \in 1 .. Len(completed') /\ i = (i - 1) + 1)
      /\ 1 \in 1 .. Len(completed)
  BY <1>1
<1>4. InPool(Head(completed))
  BY <1>1, <1>3 DEF InPool
<1>5. ASSUME NEW x \in Reqs, InPool(x)' PROVE InPool(x) /\ x # Head(completed)
  BY <1>1, <1>2, <1>3, <1>5 DEF InPool, PoolDistinct
<1>6. ASSUME NEW x \in Reqs, InPool(x), x # Head(completed) PROVE InPool(x)'
  <2>1. ASSUME NEW i \in 1 .. Len(completed), completed[i] = x PROVE InPool(x)'
    <3>1. i - 1 \in 1 .. Len(completed') /\ completed'[i - 1] = x
      BY <1>1, <1>3, <1>6, <2>1
    <3>2. QED
      BY <3>1 DEF InPool
  <2>2. QED
    BY <1>2, <1>6, <2>1 DEF InPool
<1>7. PoolDistinct'
  BY <1>1, <1>2, <1>3 DEF PoolDistinct
<1>8. QED
  BY <1>1, <1>2, <1>4, <1>5, <1>6, <1>7 DEF PoolTypeOK

(* A connection whose message is complete, before it is answered.              *)
Unanswered(q) ==
  /\ q \in ConnType
  /\ q.live /\ ~q.closing /\ ~q.close_cb_done /\ ~q.half /\ ~q.sse
  /\ q.owed = 1 /\ q.req # NoReq /\ q.req = q.arena
  /\ q.parser \in {"start", "upgrade"} /\ q.phase = "BODY" /\ q.writes = <<>>
  /\ ~Refused(q)

(* on_message_complete, on the connection being parsed, leaves it with one     *)
(* unanswered message and nothing queued.                                      *)
LEMMA CompletedUnanswered ==
  ASSUME TypeOK, NEW k \in ConnType, ConnSound(k), Parsed(k), k.parser = "body",
         k.owed < MaxOwed, NEW keep \in BOOLEAN, NEW up \in BOOLEAN
  PROVE  /\ Unanswered(Completed(k, keep, up))
         /\ Completed(k, keep, up).arena = k.arena /\ Completed(k, keep, up).req = k.req
         /\ k.owed = 0 /\ k.req \in Reqs /\ ~Awaits(k) /\ ~Winding(k)
<1>1. /\ k.live /\ ~k.closing /\ ~k.half /\ k.phase # "DRAIN"
      /\ StructSound(k) /\ OpenSound(k)
  BY DEF Parsed, ConnSound
<1>2. k.owed \in 0 .. MaxOwed /\ k.owed # 1
  BY <1>1 DEF OpenSound, OneSound, TwoSound, Refused, ConnType
<1>3. k.owed = 0 /\ k.owed + 1 = 1 /\ 1 \in 0 .. MaxOwed
  BY <1>1, <1>2, ServerAssumption DEF OpenSound, OneSound, TwoSound, Refused
<1>4. k.req \in Reqs /\ k.req # NoReq /\ k.req = k.arena
  BY <1>1 DEF OpenSound, OneSound, TwoSound, Refused, StructSound, ConnType
<1>5. ~k.sse /\ k.writes = <<>> /\ k.phase = "BODY" /\ ~k.close_cb_done
  BY <1>1, <1>3 DEF OpenSound, OneSound, TwoSound, Refused, Parsed, StructSound
<1>6. req[k.req].path \in BOOLEAN
  BY <1>4 DEF TypeOK, ReqType
<1>7. /\ Completed(k, keep, up) \in ConnType
      /\ Completed(k, keep, up).owed = 1
      /\ Completed(k, keep, up).parser \in {"start", "upgrade"}
      /\ Completed(k, keep, up).status_sent = k.status_sent
      /\ Completed(k, keep, up).live = k.live /\ Completed(k, keep, up).closing = k.closing
      /\ Completed(k, keep, up).close_cb_done = k.close_cb_done
      /\ Completed(k, keep, up).half = k.half /\ Completed(k, keep, up).sse = k.sse
      /\ Completed(k, keep, up).req = k.req /\ Completed(k, keep, up).arena = k.arena
      /\ Completed(k, keep, up).phase = k.phase /\ Completed(k, keep, up).writes = k.writes
  BY <1>3, <1>6 DEF Completed, ConnType
<1>8. ~Refused(Completed(k, keep, up))
  BY <1>3, <1>7 DEF Parsed, Refused
<1>9. QED
  BY <1>1, <1>3, <1>4, <1>5, <1>7, <1>8 DEF Unanswered, Awaits, Winding

(* uv_write on a connection that is not half-closed appends one write to its   *)
(* queue and changes nothing else.                                             *)
LEMMA WriteOpen ==
  ASSUME NEW k \in ConnType, ~k.half, NEW kind \in WriteKinds
  PROVE  LET m == Write(k, kind)
         IN  /\ m \in ConnType
             /\ m = [k EXCEPT !.writes = m.writes]
             /\ m.writes # <<>>
             /\ k.writes = <<>> => Tail(m.writes) = <<>> /\ Head(m.writes) = kind
             /\ Len(m.writes) = Len(k.writes) + 1
             /\ \A i \in 1 .. Len(k.writes) : m.writes[i] = k.writes[i]
             /\ m.writes[Len(k.writes) + 1] = kind
<1>1. k.writes \in Seq(WriteKinds)
  BY DEF ConnType
<1> DEFINE s == Append(k.writes, kind)
<1>2. /\ s \in Seq(WriteKinds) /\ s # <<>> /\ Len(s) = Len(k.writes) + 1
      /\ \A i \in 1 .. Len(k.writes) : s[i] = k.writes[i]
      /\ s[Len(k.writes) + 1] = kind
  BY <1>1, AppendProperties
<1>3. k.writes = <<>> => Tail(s) = <<>> /\ Head(s) = kind
  BY <1>1, HeadTailAppend
<1>4. Write(k, kind) = [k EXCEPT !.writes = s]
  BY DEF Write
<1>5. [k EXCEPT !.writes = s] \in ConnType /\ [k EXCEPT !.writes = s].writes = s
  BY <1>2 DEF ConnType
<1>6. QED
  BY <1>2, <1>3, <1>4, <1>5

(* conn_send_simple answers the message.                                       *)
LEMMA SimpleAnswers ==
  ASSUME NEW q, Unanswered(q)
  PROVE  LET m == conn_send_simple(q, FALSE)
         IN  /\ m \in ConnType /\ ConnSound(m) /\ Parsed(m)
             /\ m.arena = q.arena /\ m.req = q.req /\ ~Awaits(m)
<1> DEFINE p == [q EXCEPT !.keep_alive = ~FALSE, !.force_close = FALSE, !.status_sent = TRUE]
           m == conn_send_simple(q, FALSE)
<1>1. /\ p \in ConnType
      /\ p.live /\ ~p.closing /\ ~p.close_cb_done /\ ~p.half /\ ~p.sse
      /\ p.owed = 1 /\ p.req # NoReq /\ p.req = q.req /\ p.arena = q.arena /\ q.req = q.arena
      /\ p.parser \in {"start", "upgrade"} /\ p.phase = "BODY" /\ p.writes = <<>>
      /\ ~Refused(p)
  BY DEF Unanswered, ConnType, Refused
<1>2. m = Write(p, "simple") /\ "simple" \in WriteKinds
  BY DEF conn_send_simple, WriteKinds
<1> HIDE DEF m, p
<1>3. /\ m \in ConnType
      /\ m = [p EXCEPT !.writes = m.writes]
      /\ m.writes # <<>> /\ Tail(m.writes) = <<>> /\ Head(m.writes) = "simple"
  BY <1>1, <1>2, WriteOpen
<1>4. /\ m.live /\ ~m.closing /\ ~m.close_cb_done /\ ~m.half /\ ~m.sse
      /\ m.owed = 1 /\ m.req # NoReq /\ m.req = q.req /\ m.arena = q.arena /\ q.req = q.arena
      /\ m.parser \in {"start", "upgrade"} /\ m.phase = "BODY"
      /\ ~Refused(m)
  BY <1>1, <1>3 DEF ConnType, Refused
<1>5. ConnSound(m) /\ Parsed(m) /\ ~Awaits(m)
  BY <1>3, <1>4 DEF ConnSound, StructSound, OpenSound, OneSound, OneAnswer, Parsed, Awaits
<1>6. QED
  BY <1>3, <1>4, <1>5 DEF m

(* conn_start_response answers the message.                                    *)
LEMMA ResponseAnswers ==
  ASSUME NEW q, Unanswered(q)
  PROVE  LET m == conn_start_response(q)
         IN  /\ m \in ConnType /\ ConnSound(m) /\ Parsed(m)
             /\ m.arena = q.arena /\ m.req = q.req /\ ~Awaits(m)
<1> DEFINE p == [q EXCEPT !.phase = "WRITE"]
           m == conn_start_response(q)
<1>1. /\ p \in ConnType
      /\ p.live /\ ~p.closing /\ ~p.close_cb_done /\ ~p.half /\ ~p.sse
      /\ p.owed = 1 /\ p.req # NoReq /\ p.req = q.req /\ p.arena = q.arena /\ q.req = q.arena
      /\ p.parser \in {"start", "upgrade"} /\ p.phase = "WRITE" /\ p.writes = <<>>
      /\ ~Refused(p)
  BY DEF Unanswered, ConnType, Phases, Refused
<1>2. m = Write(p, "response") /\ "response" \in WriteKinds
  BY DEF conn_start_response, WriteKinds
<1> HIDE DEF m, p
<1>3. /\ m \in ConnType
      /\ m = [p EXCEPT !.writes = m.writes]
      /\ m.writes # <<>> /\ Tail(m.writes) = <<>> /\ Head(m.writes) = "response"
  BY <1>1, <1>2, WriteOpen
<1>4. /\ m.live /\ ~m.closing /\ ~m.close_cb_done /\ ~m.half /\ ~m.sse
      /\ m.owed = 1 /\ m.req # NoReq /\ m.req = q.req /\ m.arena = q.arena /\ q.req = q.arena
      /\ m.parser \in {"start", "upgrade"} /\ m.phase = "WRITE"
      /\ ~Refused(m)
  BY <1>1, <1>3 DEF ConnType, Refused
<1>5. ConnSound(m) /\ Parsed(m) /\ ~Awaits(m)
  BY <1>3, <1>4 DEF ConnSound, StructSound, OpenSound, OneSound, OneAnswer, Parsed, Awaits
<1>6. QED
  BY <1>3, <1>4, <1>5 DEF m

(* send_live_sse makes the connection a stream.                                *)
LEMMA StreamAnswers ==
  ASSUME NEW q, Unanswered(q)
  PROVE  LET m == send_live_sse(q)
         IN  /\ m \in ConnType /\ ConnSound(m) /\ Parsed(m)
             /\ m.arena = q.arena /\ m.req = q.req /\ ~Awaits(m)
<1> DEFINE h == Write(q, "sse")
           p == [h EXCEPT !.sse = TRUE]
           m == Write(p, "sse")
<1>1. "sse" \in WriteKinds /\ q \in ConnType /\ ~q.half
  BY DEF WriteKinds, Unanswered
<1>2. /\ h \in ConnType
      /\ h = [q EXCEPT !.writes = h.writes]
      /\ Len(h.writes) = 1 /\ h.writes[1] = "sse"
  <2>1. q.writes = <<>> /\ Len(q.writes) = 0
    BY EmptySeq DEF Unanswered
  <2>2. /\ h \in ConnType
        /\ h = [q EXCEPT !.writes = h.writes]
        /\ Len(h.writes) = Len(q.writes) + 1 /\ h.writes[Len(q.writes) + 1] = "sse"
    BY <1>1, WriteOpen
  <2>3. QED
    BY <2>1, <2>2
<1>3. send_live_sse(q) = m
  <2>1. ~h.closing
    BY <1>1, <1>2 DEF ConnType, Unanswered
  <2>2. QED
    BY <2>1 DEF send_live_sse
<1> HIDE DEF h
<1>4. /\ p \in ConnType /\ p.writes = h.writes
      /\ p.live /\ ~p.closing /\ ~p.close_cb_done /\ ~p.half /\ p.sse
      /\ p.owed = 1 /\ p.req # NoReq /\ p.req = q.req /\ p.arena = q.arena /\ q.req = q.arena
      /\ p.parser \in {"start", "upgrade"} /\ p.phase = "BODY"
      /\ ~Refused(p)
  BY <1>2 DEF ConnType, Unanswered, Refused
<1> HIDE DEF p, m
<1>5. /\ m \in ConnType
      /\ m = [p EXCEPT !.writes = m.writes]
      /\ Len(m.writes) = 2 /\ m.writes[1] = "sse" /\ m.writes[2] = "sse"
  <2>1. /\ m \in ConnType
        /\ m = [p EXCEPT !.writes = m.writes]
        /\ Len(m.writes) = Len(p.writes) + 1 /\ m.writes[Len(p.writes) + 1] = "sse"
        /\ \A i \in 1 .. Len(p.writes) : m.writes[i] = p.writes[i]
    BY <1>1, <1>4, WriteOpen DEF m
  <2>2. Len(p.writes) = 1 /\ p.writes[1] = "sse"
    BY <1>2, <1>4
  <2>3. QED
    BY <2>1, <2>2
<1>6. /\ m.live /\ ~m.closing /\ ~m.close_cb_done /\ ~m.half /\ m.sse
      /\ m.owed = 1 /\ m.req # NoReq /\ m.req = q.req /\ m.arena = q.arena /\ q.req = q.arena
      /\ m.parser \in {"start", "upgrade"} /\ m.phase = "BODY"
      /\ ~Refused(m)
  BY <1>4, <1>5 DEF ConnType, Refused
<1>7. ConnSound(m) /\ Parsed(m) /\ ~Awaits(m)
  BY <1>5, <1>6 DEF ConnSound, StructSound, OpenSound, OneSound, Stream, Parsed, Awaits
<1>8. QED
  BY <1>3, <1>5, <1>6, <1>7

(* The answer to a message that cannot be parsed, and the one at the limit.    *)
LEMMA RefusalSound ==
  ASSUME NEW k \in ConnType, ConnSound(k), k.live, ~k.closing, ~k.half,
         k.owed = 0, k.writes = <<>>, ~Refused(k)
  PROVE  LET m == conn_send_simple(k, TRUE)
         IN  /\ m \in ConnType /\ ConnSound(m) /\ m.live /\ ~m.closing
             /\ m.arena = k.arena /\ m.req = k.req /\ m.owed = 0 /\ ~Awaits(m)
<1> DEFINE p == [k EXCEPT !.keep_alive = ~TRUE, !.force_close = TRUE, !.status_sent = TRUE]
           m == conn_send_simple(k, TRUE)
<1>1. /\ p \in ConnType
      /\ p.live /\ ~p.closing /\ p.close_cb_done = k.close_cb_done /\ ~p.half
      /\ p.sse = k.sse /\ p.owed = 0 /\ p.req = k.req /\ p.arena = k.arena
      /\ p.parser = k.parser /\ p.phase = k.phase /\ p.writes = <<>>
      /\ p.force_close /\ p.status_sent
  BY DEF ConnType
<1>2. m = Write(p, "simple") /\ "simple" \in WriteKinds
  BY DEF conn_send_simple, WriteKinds
<1> HIDE DEF m, p
<1>3. /\ m \in ConnType
      /\ m = [p EXCEPT !.writes = m.writes]
      /\ m.writes # <<>> /\ Tail(m.writes) = <<>> /\ Head(m.writes) = "simple"
  BY <1>1, <1>2, WriteOpen
<1>4. /\ m.live /\ ~m.closing /\ m.close_cb_done = k.close_cb_done /\ ~m.half
      /\ m.sse = k.sse /\ m.owed = 0 /\ m.req = k.req /\ m.arena = k.arena
      /\ m.parser = k.parser /\ m.phase = k.phase
      /\ m.force_close /\ m.status_sent
  BY <1>1, <1>3 DEF ConnType
<1>5. ~m.sse /\ OneSound(k) /\ StructSound(k)
  BY <1>4 DEF ConnSound, OpenSound, OneSound
<1>6. StructSound(m) /\ ~Awaits(m)
  BY <1>3, <1>4, <1>5 DEF StructSound, Awaits
<1>7. CASE Refused(m)
  <2>1. Len(p.writes) = 0
    BY <1>1, EmptySeq
  <2>2. Len(m.writes) = 1 /\ m.writes[1] = "simple"
    <3>1. Len(m.writes) = Len(p.writes) + 1 /\ m.writes[Len(p.writes) + 1] = "simple"
      BY <1>1, <1>2, WriteOpen
    <3>2. QED
      BY <2>1, <3>1
  <2>3. TwoSound(m)
    BY <1>4, <1>5, <2>2 DEF TwoSound, OneSound
  <2>4. QED
    BY <1>3, <1>4, <1>6, <1>7, <2>3 DEF m, ConnSound, OpenSound
<1>8. CASE ~Refused(m)
  <2>1. OneSound(m)
    BY <1>3, <1>4, <1>5 DEF OneSound, OneAnswer
  <2>2. QED
    BY <1>3, <1>4, <1>6, <1>8, <2>1 DEF m, ConnSound, OpenSound
<1>9. QED
  BY <1>7, <1>8

(* The 400 to an upgrade, whose message was dispatched before: a second answer *)
(* is queued, or the one the pool owes is overtaken by it.                     *)
LEMMA UpgradeRefused ==
  ASSUME NEW k \in ConnType, ConnSound(k), k.live, ~k.closing, ~k.half,
         k.owed = 1, k.parser = "upgrade", ~Refused(k)
  PROVE  LET m == conn_send_simple(k, TRUE)
         IN  /\ m \in ConnType /\ ConnSound(m) /\ m.live /\ ~m.closing
             /\ m.arena = k.arena /\ m.req = k.req /\ ~Awaits(m)
             /\ m.phase = k.phase /\ m.force_close
             /\ Awaits(k) => Overtaken(m)
<1> DEFINE p == [k EXCEPT !.keep_alive = ~TRUE, !.force_close = TRUE, !.status_sent = TRUE]
           m == conn_send_simple(k, TRUE)
<1>1. /\ p \in ConnType
      /\ p.live /\ ~p.closing /\ p.close_cb_done = k.close_cb_done /\ ~p.half
      /\ p.sse = k.sse /\ p.owed = 1 /\ p.req = k.req /\ p.arena = k.arena
      /\ p.parser = "upgrade" /\ p.phase = k.phase /\ p.writes = k.writes
      /\ p.force_close /\ p.status_sent
  BY DEF ConnType
<1>2. m = Write(p, "simple") /\ "simple" \in WriteKinds
  BY DEF conn_send_simple, WriteKinds
<1> HIDE DEF m, p
<1>3. /\ m \in ConnType
      /\ m = [p EXCEPT !.writes = m.writes]
      /\ m.writes # <<>>
      /\ Len(m.writes) = Len(k.writes) + 1 /\ m.writes[Len(k.writes) + 1] = "simple"
      /\ \A i \in 1 .. Len(k.writes) : m.writes[i] = k.writes[i]
  BY <1>1, <1>2, WriteOpen
<1>4. /\ m.live /\ ~m.closing /\ m.close_cb_done = k.close_cb_done /\ ~m.half
      /\ m.sse = k.sse /\ m.owed = 1 /\ m.req = k.req /\ m.arena = k.arena
      /\ m.parser = "upgrade" /\ m.phase = k.phase
      /\ m.force_close /\ m.status_sent
  BY <1>1, <1>3 DEF ConnType
<1>5. Refused(m) /\ OneSound(k) /\ StructSound(k) /\ Len(k.writes) \in Nat
  BY <1>4, WritesLen DEF Refused, ConnSound, OpenSound
<1>6. StructSound(m) /\ ~Awaits(m)
  BY <1>3, <1>4, <1>5 DEF StructSound, Awaits
<1>7. \A i \in 1 .. Len(m.writes) : i \in 1 .. Len(k.writes) \/ i = Len(k.writes) + 1
  BY <1>3, <1>5
<1>8. k.writes = <<>> => Len(k.writes) = 0
  BY EmptySeq
<1>9. TwoSound(m)
  <2>1. CASE k.sse
    <3>1. Stream(k)
      BY <2>1, <1>5, <1>8 DEF OneSound, Stream
    <3>2. QED
      BY <2>1, <3>1, <1>3, <1>4, <1>5, <1>7 DEF TwoSound, OneSound, Stream
  <2>2. CASE ~k.sse
    <3>1. k.writes = <<>> \/ OneAnswer(k)
      BY <2>2, <1>5 DEF OneSound, Stream
    <3>2. OneAnswer(k) => Len(k.writes) = 1 /\ k.writes[1] # "sse"
      <4> SUFFICES ASSUME OneAnswer(k) PROVE Len(k.writes) = 1 /\ k.writes[1] # "sse"
        OBVIOUS
      <4>1. k.writes \in Seq(WriteKinds) /\ k.writes # <<>> /\ Len(Tail(k.writes)) = 0
        BY EmptySeq DEF OneAnswer, ConnType
      <4>2. Len(Tail(k.writes)) = Len(k.writes) - 1 /\ Head(k.writes) = k.writes[1]
        BY <4>1, HeadTailProperties
      <4>3. QED
        BY <1>5, <4>1, <4>2 DEF OneAnswer
    <3>3. QED
      BY <2>2, <3>1, <3>2, <1>3, <1>4, <1>5, <1>7, <1>8 DEF TwoSound, OneSound
  <2>3. QED
    BY <2>1, <2>2
<1>10. Awaits(k) => Overtaken(m)
  <2> SUFFICES ASSUME Awaits(k) PROVE Overtaken(m)
    OBVIOUS
  <2>1. k.writes = <<>> /\ ~k.sse
    BY DEF Awaits
  <2>2. Len(m.writes) = 1
    BY <2>1, <1>3, <1>8
  <2>3. k.phase = "BODY"
    BY <2>1, <1>5 DEF OneSound, OneAnswer
  <2>4. QED
    BY <2>1, <2>2, <2>3, <1>4, <1>5 DEF Overtaken
<1>11. QED
  BY <1>3, <1>4, <1>5, <1>6, <1>9, <1>10 DEF m, ConnSound, OpenSound

(* The end of a write on a connection that is being closed: it stays so until  *)
(* it is finalized.                                                            *)
LEMMA WriteEndsClosing ==
  ASSUME NEW k \in ConnType, ConnSound(k), k.closing, k.writes # <<>>, NEW ok \in BOOLEAN
  PROVE  ConnStep(k, WriteCallback(k, ok))
<1> DEFINE rest == [k EXCEPT !.writes = Tail(k.writes)]
           done == [rest EXCEPT !.req = NoReq]
<1>1. /\ Tail(k.writes) \in Seq(WriteKinds) /\ Head(k.writes) \in WriteKinds
      /\ Len(Tail(k.writes)) <= Len(k.writes) /\ Len(k.writes) \in Nat
  BY HeadTailProperties, WritesLen
<1>2. k.live /\ (k.half => Refused(k))
  BY DEF ConnSound, StructSound, FreeConn
<1>3. /\ rest \in ConnType /\ rest.closing /\ (Refused(rest) <=> Refused(k)) /\ rest.live /\ rest.arena = k.arena
      /\ ConnSound(rest) /\ rest.req = k.req /\ rest.writes = Tail(k.writes)
  BY <1>1, <1>2 DEF ConnType, ConnSound, StructSound, Refused
<1>4. /\ done \in ConnType /\ done.closing /\ (Refused(done) <=> Refused(k)) /\ done.live /\ done.arena = k.arena
      /\ ConnSound(done) /\ done.req = NoReq /\ done.writes = Tail(k.writes)
  BY <1>1, <1>2 DEF ConnType, ConnSound, StructSound, Refused
<1>5. conn_close_and_free(rest) = rest
  BY <1>3 DEF conn_close_and_free
<1> HIDE DEF rest, done
<1>6. ASSUME NEW x \in {rest, done}
      PROVE  ConnStep(k, conn_maybe_finalize(x))
  <2>1. ConnStep(x, conn_maybe_finalize(x))
    BY <1>3, <1>4, FinalizeStep
  <2>2. /\ x.closing /\ x.live /\ x.arena = k.arena /\ (Refused(x) <=> Refused(k))
        /\ x.req \in {k.req, NoReq} /\ x.writes = Tail(k.writes)
    BY <1>3, <1>4
  <2>3. /\ conn_maybe_finalize(x).live => conn_maybe_finalize(x).closing
        /\ conn_maybe_finalize(x).req \in {k.req, NoReq}
    BY <2>1, <2>2 DEF ConnStep
  <2>4. Len(conn_maybe_finalize(x).writes) <= Len(k.writes)
    <3>1. Len(conn_maybe_finalize(x).writes) <= Len(Tail(k.writes))
      BY <2>1, <2>2 DEF ConnStep
    <3>2. Len(conn_maybe_finalize(x).writes) \in Nat /\ Len(Tail(k.writes)) \in Nat
      BY <2>1, <2>2, <1>1, WritesLen, LenProperties DEF ConnStep
    <3>3. QED
      BY <1>1, <3>1, <3>2
  <2>5. QED
    BY <2>1, <2>2, <2>3, <2>4 DEF ConnStep, Awaits, Expects, Overtaken, Winding
<1>7. WriteCallback(k, ok) \in {conn_maybe_finalize(rest), conn_maybe_finalize(done)}
  <2>1. CASE Head(k.writes) = "response"
    <3>1. WriteCallback(k, ok) = on_response_written(rest, ok)
      BY <2>1 DEF WriteCallback, rest
    <3>2. QED
      BY <3>1, <1>3, <1>5 DEF on_response_written, done
  <2>2. CASE Head(k.writes) = "simple"
    <3>1. WriteCallback(k, ok) = on_simple_written(rest, ok)
      BY <2>2 DEF WriteCallback, rest
    <3>2. QED
      BY <3>1, <1>3 DEF on_simple_written
  <2>3. CASE Head(k.writes) = "sse"
    <3>1. WriteCallback(k, ok) = conn_on_sse_written(rest, ok)
      BY <2>3 DEF WriteCallback, rest
    <3>2. QED
      BY <3>1, <1>3 DEF conn_on_sse_written
  <2>4. QED
    BY <1>1, <2>1, <2>2, <2>3 DEF WriteKinds
<1>8. QED
  BY <1>6, <1>7

(* The end of a chunk of a stream.                                             *)
LEMMA WriteEndsStream ==
  ASSUME NEW k \in ConnType, ConnSound(k), ~k.closing, k.writes # <<>>, Stream(k), ~Refused(k),
         NEW ok \in BOOLEAN
  PROVE  ConnStep(k, WriteCallback(k, ok)) /\ WriteCallback(k, ok).live
<1> DEFINE rest == [k EXCEPT !.writes = Tail(k.writes)]
<1>1. /\ Tail(k.writes) \in Seq(WriteKinds) /\ k.writes \in Seq(WriteKinds)
      /\ Head(k.writes) = k.writes[1]
      /\ Len(Tail(k.writes)) = Len(k.writes) - 1 /\ Len(k.writes) \in Nat \ {0}
      /\ \A i \in 1 .. Len(Tail(k.writes)) : Tail(k.writes)[i] = k.writes[i + 1]
  BY HeadTailProperties, EmptySeq DEF ConnType
<1>2. Head(k.writes) = "sse" /\ \A i \in 1 .. Len(Tail(k.writes)) : Tail(k.writes)[i] = "sse"
  <2>1. \A i \in 1 .. Len(Tail(k.writes)) : i + 1 \in 1 .. Len(k.writes)
    BY <1>1
  <2>2. 1 \in 1 .. Len(k.writes)
    BY <1>1
  <2>3. QED
    BY <1>1, <2>1, <2>2 DEF Stream
<1>3. k.live /\ ~k.half /\ k.phase # "DRAIN" /\ OneSound(k) /\ StructSound(k)
  BY DEF ConnSound, OpenSound, StructSound, FreeConn
<1>4. /\ rest \in ConnType /\ ~Refused(rest) /\ rest.writes = Tail(k.writes) /\ rest.sse
      /\ rest.live /\ ~rest.closing /\ rest.arena = k.arena /\ rest.req = k.req
      /\ rest.phase = k.phase /\ rest.force_close = k.force_close
      /\ StructSound(rest)
  BY <1>1, <1>3 DEF ConnType, StructSound, Stream, Refused
<1>5. OneSound(rest)
  <2>1. /\ rest.owed = k.owed /\ rest.req = k.req /\ rest.parser = k.parser
    BY <1>1 DEF ConnType
  <2>2. Stream(rest)
    BY <1>2, <1>4 DEF Stream
  <2>3. k.owed = 1 /\ k.phase # "WRITE"
    BY <1>2, <1>3 DEF OneSound, Stream, OneAnswer
  <2>4. QED
    BY <1>3, <1>4, <2>1, <2>2, <2>3 DEF OneSound
<1>6. ConnSound(rest)
  BY <1>4, <1>5 DEF ConnSound, OpenSound
<1>7. ConnStep(k, rest)
  BY <1>4, <1>6, <1>3 DEF ConnStep, Awaits, Expects, Overtaken, Winding, Stream
<1>8. WriteCallback(k, ok) = conn_on_sse_written(rest, ok)
  BY <1>2 DEF WriteCallback
<1> HIDE DEF rest
<1>9. CASE ok
  BY <1>4, <1>7, <1>8, <1>9 DEF conn_on_sse_written, conn_maybe_finalize, Finalizes
<1>10. CASE ~ok
  <2>1. WriteCallback(k, ok) = conn_close_and_free(rest)
    BY <1>4, <1>8, <1>10 DEF conn_on_sse_written
  <2>2. ConnStep(rest, conn_close_and_free(rest)) /\ conn_close_and_free(rest).live
        /\ conn_close_and_free(rest).closing /\ conn_close_and_free(rest).req = rest.req
    BY <1>4, <1>6, CloseStep
  <2>3. QED
    BY <2>1, <2>2, <1>3, <1>4 DEF ConnStep, Awaits, Expects, Overtaken, Winding
<1>11. QED
  BY <1>9, <1>10

(* The end of an answer: the connection is kept, half-closed or closed, and    *)
(* no longer owes an answer unless it is closing.                              *)
LEMMA WriteEndsAnswer ==
  ASSUME NEW k \in ConnType, ConnSound(k), ~k.closing, OneAnswer(k), ~k.sse, ~Refused(k),
         NEW ok \in BOOLEAN
  PROVE  ConnStep(k, WriteCallback(k, ok)) /\ WriteCallback(k, ok).live
<1> DEFINE rest == [k EXCEPT !.writes = Tail(k.writes)]
           a == Answered(rest)
<1>1. k.live /\ ~k.half /\ k.phase # "DRAIN" /\ OneSound(k) /\ StructSound(k)
      /\ ~k.close_cb_done /\ Tail(k.writes) = <<>> /\ <<>> \in Seq(WriteKinds)
  BY EmptySeq DEF ConnSound, OpenSound, StructSound, FreeConn, OneAnswer
<1>2. k.owed \in {0, 1}
  BY <1>1 DEF OneSound, ConnType
<1>3. /\ rest \in ConnType /\ rest.writes = <<>> /\ ~rest.sse /\ ~rest.half
      /\ rest.live /\ ~rest.closing /\ ~rest.close_cb_done
      /\ rest.arena = k.arena /\ rest.req = k.req /\ rest.phase = k.phase
      /\ rest.parser = k.parser /\ rest.owed = k.owed
      /\ rest.force_close = k.force_close /\ rest.keep_alive = k.keep_alive
      /\ StructSound(rest) /\ ~Refused(rest)
      /\ rest.status_sent = k.status_sent
  BY <1>1 DEF ConnType, StructSound, Refused
<1> HIDE DEF rest
<1>4. /\ a \in ConnType /\ a.writes = <<>> /\ ~a.sse /\ ~a.half
      /\ a.live /\ ~a.closing /\ ~a.close_cb_done
      /\ a.arena = k.arena /\ a.req = k.req
      /\ a.parser = k.parser /\ a.owed = 0
      /\ a.status_sent = k.status_sent /\ a.force_close = k.force_close
  BY <1>2, <1>3, ServerAssumption DEF ConnType, Answered
<1> HIDE DEF a
<1> DEFINE closed == conn_close_and_free(rest)
           drained == conn_close_graceful(a)
           idle == [a EXCEPT !.phase = "IDLE", !.req = NoReq, !.status_sent = FALSE,
                             !.force_close = FALSE, !.reading = TRUE]
           open == [a EXCEPT !.phase = "IDLE", !.status_sent = FALSE, !.reading = TRUE]
<1>5. /\ ConnStep(k, closed) /\ closed.live /\ conn_maybe_finalize(closed) = closed
  <2>1. /\ closed \in ConnType /\ closed.closing /\ closed.live /\ closed.arena = k.arena
        /\ closed.req = k.req
        /\ StructSound(closed) /\ ~closed.close_cb_done
    BY <1>3 DEF conn_close_and_free, ConnType, StructSound, Refused
  <2>2. QED
    BY <2>1, <1>1
    DEF ConnStep, ConnSound, Awaits, Expects, Overtaken, Winding, conn_maybe_finalize, Finalizes
<1>6. ConnStep(k, drained) /\ drained.live
  <2>1. /\ drained \in ConnType /\ drained.live /\ ~drained.closing /\ drained.half
        /\ drained.phase = "DRAIN" /\ drained.writes = <<>> /\ ~drained.sse
        /\ ~drained.close_cb_done
        /\ drained.arena = k.arena /\ drained.req = k.req
        /\ drained.parser = k.parser /\ drained.owed = 0
        /\ ~Refused(drained)
    BY <1>4 DEF conn_close_graceful, ConnType, Phases, Refused
  <2>2. ConnSound(drained)
    BY <2>1, <1>1 DEF ConnSound, StructSound, OpenSound, OneSound
  <2>3. QED
    BY <2>1, <2>2, <1>1 DEF ConnStep, Awaits, Expects, Overtaken, Winding, OneAnswer
<1>7. ASSUME ~k.force_close PROVE k.owed = 1 /\ k.parser \in {"start", "upgrade"} /\ k.req # NoReq
  BY <1>1, <1>7 DEF OneSound, OneAnswer
<1>8. ASSUME ~k.force_close PROVE ConnStep(k, idle) /\ idle.live
  <2>1. /\ idle \in ConnType /\ idle.live /\ ~idle.closing /\ ~idle.half
        /\ idle.phase = "IDLE" /\ idle.writes = <<>> /\ ~idle.sse
        /\ ~idle.close_cb_done
        /\ idle.arena = k.arena /\ idle.req = NoReq
        /\ idle.parser = k.parser /\ idle.owed = 0 /\ ~Refused(idle)
    BY <1>4 DEF ConnType, Phases, Refused
  <2>2. ConnSound(idle)
    BY <2>1, <1>1, <1>7, <1>8 DEF ConnSound, StructSound, OpenSound, OneSound
  <2>3. QED
    BY <2>1, <2>2, <1>1, <1>8 DEF ConnStep, Awaits, Expects, Overtaken, Winding, OneAnswer
<1>9. ASSUME ~k.force_close PROVE ConnStep(k, open) /\ open.live
  <2>1. /\ open \in ConnType /\ open.live /\ ~open.closing /\ ~open.half
        /\ open.phase = "IDLE" /\ open.writes = <<>> /\ ~open.sse
        /\ ~open.close_cb_done
        /\ open.arena = k.arena /\ open.req = k.req
        /\ open.parser = k.parser /\ open.owed = 0 /\ ~Refused(open)
    BY <1>4 DEF ConnType, Phases, Refused
  <2>2. ConnSound(open)
    BY <2>1, <1>1, <1>7, <1>9 DEF ConnSound, StructSound, OpenSound, OneSound
  <2>3. QED
    BY <2>1, <2>2, <1>1, <1>9 DEF ConnStep, Awaits, Expects, Overtaken, Winding, OneAnswer
<1> HIDE DEF closed, drained, idle, open
<1>10. CASE Head(k.writes) = "response"
  <2>1. WriteCallback(k, ok) = on_response_written(rest, ok)
    BY <1>10 DEF WriteCallback, rest
  <2>2. \/ on_response_written(rest, ok) = conn_maybe_finalize(closed)
        \/ on_response_written(rest, ok) = drained
        \/ ~k.force_close /\ on_response_written(rest, ok) = idle
    BY <1>3 DEF on_response_written, closed, drained, idle, a
  <2>3. QED
    BY <2>1, <2>2, <1>5, <1>6, <1>8
<1>11. CASE Head(k.writes) = "simple"
  <2>1. WriteCallback(k, ok) = on_simple_written(rest, ok)
    BY <1>11 DEF WriteCallback, rest
  <2>2. \/ on_simple_written(rest, ok) = closed
        \/ on_simple_written(rest, ok) = drained
        \/ ~k.force_close /\ on_simple_written(rest, ok) = open
    BY <1>3 DEF on_simple_written, closed, drained, open, a
  <2>3. QED
    BY <2>1, <2>2, <1>5, <1>6, <1>9
<1>12. Head(k.writes) \in WriteKinds
  BY HeadTailProperties DEF ConnType, OneAnswer
<1>13. QED
  BY <1>10, <1>11, <1>12 DEF WriteKinds, OneAnswer

(* The end of a write on a connection that was refused an upgrade: a chunk of  *)
(* its stream leaves it as it is, the first answer half-closes it.             *)
LEMMA WriteEndsRefused ==
  ASSUME NEW k \in ConnType, ConnSound(k), ~k.closing, k.writes # <<>>, Refused(k),
         NEW ok \in BOOLEAN
  PROVE  ConnStep(k, WriteCallback(k, ok)) /\ WriteCallback(k, ok).live
<1> DEFINE rest == [k EXCEPT !.writes = Tail(k.writes)]
           a == Answered(rest)
<1>1. /\ Tail(k.writes) \in Seq(WriteKinds) /\ k.writes \in Seq(WriteKinds)
      /\ Head(k.writes) = k.writes[1] /\ Head(k.writes) \in WriteKinds
      /\ Len(Tail(k.writes)) = Len(k.writes) - 1 /\ Len(k.writes) \in Nat \ {0}
      /\ \A i \in 1 .. Len(Tail(k.writes)) : Tail(k.writes)[i] = k.writes[i + 1]
  BY HeadTailProperties, EmptySeq DEF ConnType
<1>2. k.live /\ TwoSound(k) /\ StructSound(k) /\ ~k.close_cb_done /\ k.force_close
  BY DEF ConnSound, StructSound, OpenSound, FreeConn, Refused
<1>3. \A i \in 1 .. Len(Tail(k.writes)) : i + 1 \in 1 .. Len(k.writes)
  BY <1>1
<1>4. /\ rest \in ConnType /\ rest.writes = Tail(k.writes) /\ Refused(rest)
      /\ rest.live /\ ~rest.closing /\ ~rest.close_cb_done /\ rest.force_close
      /\ rest.arena = k.arena /\ rest.req = k.req /\ rest.phase = k.phase
      /\ (rest.half <=> k.half) /\ (rest.sse <=> k.sse) /\ rest.owed = k.owed
      /\ StructSound(rest)
  BY <1>1, <1>2 DEF ConnType, StructSound, Refused
<1> HIDE DEF rest
(* What is left of the queue has the shape TwoSound asks for.                  *)
<1>5. /\ ~k.sse => Len(rest.writes) <= 1 /\ \A i \in 1 .. Len(rest.writes) : rest.writes[i] # "sse"
      /\ k.sse => \A i, j \in 1 .. Len(rest.writes) :
                    rest.writes[i] # "sse" /\ rest.writes[j] # "sse" => i = j
  <2>1. CASE ~k.sse
    BY <2>1, <1>1, <1>2, <1>3, <1>4 DEF TwoSound
  <2>2. CASE k.sse
    <3> SUFFICES ASSUME NEW i \in 1 .. Len(rest.writes), NEW j \in 1 .. Len(rest.writes),
                        rest.writes[i] # "sse", rest.writes[j] # "sse"
                 PROVE  i = j
      BY <2>2
    <3>1. k.writes[i + 1] # "sse" /\ k.writes[j + 1] # "sse"
      BY <1>1, <1>4
    <3>2. i + 1 = j + 1
      BY <2>2, <1>2, <1>3, <1>4, <3>1 DEF TwoSound
    <3>3. QED
      BY <3>2
  <2>3. QED
    BY <2>1, <2>2
<1>6. k.owed \in {0, 1}
  BY <1>2 DEF TwoSound, ConnType
<1>7. /\ a \in ConnType /\ a.writes = rest.writes /\ Refused(a)
      /\ a.live /\ ~a.closing /\ ~a.close_cb_done /\ a.phase = k.phase
      /\ a.arena = k.arena /\ a.req = k.req /\ a.owed = 0 /\ (a.sse <=> k.sse)
  <2>1. a = [rest EXCEPT !.owed = 0] /\ 0 \in 0 .. MaxOwed
    BY <1>4, <1>6, ServerAssumption DEF Answered
  <2>2. QED
    BY <1>4, <2>1 DEF ConnType, Refused
<1> HIDE DEF a
<1> DEFINE closed == conn_close_and_free(rest)
           drained == conn_close_graceful(a)
<1>8. /\ ConnStep(k, closed) /\ closed.live /\ conn_maybe_finalize(closed) = closed
  <2>1. /\ closed \in ConnType /\ closed.closing /\ closed.live /\ closed.arena = k.arena
        /\ closed.req = k.req /\ ~closed.close_cb_done /\ Refused(closed)
        /\ ~closed.reading /\ ~closed.sse /\ closed.phase = k.phase /\ (closed.half <=> k.half)
    BY <1>4 DEF conn_close_and_free, ConnType, Refused
  <2> HIDE DEF closed
  <2>2. StructSound(closed)
    BY <2>1, <1>2 DEF StructSound
  <2>3. QED
    BY <2>1, <2>2, <1>2
    DEF ConnStep, ConnSound, Awaits, Expects, Overtaken, Winding, conn_maybe_finalize, Finalizes
<1>9. ConnStep(k, drained) /\ drained.live
  <2>1. /\ drained \in ConnType /\ drained.live /\ ~drained.closing /\ drained.half
        /\ drained.phase = "DRAIN" /\ drained.writes = rest.writes /\ (drained.sse <=> k.sse)
        /\ ~drained.close_cb_done /\ Refused(drained)
        /\ drained.arena = k.arena /\ drained.req = k.req /\ drained.owed = 0
    BY <1>7 DEF conn_close_graceful, ConnType, Phases, Refused
  <2> HIDE DEF drained
  <2>2. StructSound(drained)
    BY <2>1, <1>2 DEF StructSound
  <2>3. Len(rest.writes) \in Nat
    BY <1>4, WritesLen
  <2>4. TwoSound(drained)
    BY <2>1, <2>3, <1>5 DEF TwoSound
  <2>5. ConnSound(drained)
    BY <2>1, <2>2, <2>4 DEF ConnSound, OpenSound
  <2>6. Overtaken(k) => Overtaken(drained)
    BY <2>1, <1>5 DEF Overtaken
  <2>7. ~Awaits(k) /\ ~Awaits(drained)
    BY <2>1 DEF Awaits
  <2>8. QED
    BY <2>1, <2>5, <2>6, <2>7, <1>2 DEF ConnStep, Expects, Winding
<1>10. CASE Head(k.writes) = "response"
  <2>1. WriteCallback(k, ok) = on_response_written(rest, ok)
    BY <1>10 DEF WriteCallback, rest
  <2>2. \/ on_response_written(rest, ok) = conn_maybe_finalize(closed)
        \/ on_response_written(rest, ok) = drained
    BY <1>4 DEF on_response_written, closed, drained, a
  <2>3. QED
    BY <2>1, <2>2, <1>8, <1>9
<1>11. CASE Head(k.writes) = "simple"
  <2>1. WriteCallback(k, ok) = on_simple_written(rest, ok)
    BY <1>11 DEF WriteCallback, rest
  <2>2. on_simple_written(rest, ok) \in {closed, drained}
    BY <1>4 DEF on_simple_written, closed, drained, a
  <2>3. QED
    BY <2>1, <2>2, <1>8, <1>9
<1>12. CASE Head(k.writes) = "sse"
  <2>1. WriteCallback(k, ok) = conn_on_sse_written(rest, ok)
    BY <1>12 DEF WriteCallback, rest
  <2>2. conn_on_sse_written(rest, ok) \in {closed, rest}
    BY <1>4 DEF conn_on_sse_written, conn_maybe_finalize, Finalizes, closed
  <2>3. k.sse
    BY <1>1, <1>2, <1>12 DEF TwoSound
  <2>4. ASSUME k.owed = 1 PROVE \E i \in 1 .. Len(rest.writes) : rest.writes[i] # "sse"
    <3>1. PICK i \in 1 .. Len(k.writes) : k.writes[i] # "sse"
      BY <1>2, <2>4 DEF TwoSound
    <3>2. i # 1 /\ i - 1 \in 1 .. Len(rest.writes) /\ (i - 1) + 1 = i
      BY <1>1, <1>4, <1>12, <3>1
    <3>3. rest.writes[i - 1] = k.writes[i]
      BY <1>1, <1>4, <3>2
    <3>4. QED
      BY <3>1, <3>2, <3>3
  <2>5. TwoSound(rest)
    BY <1>2, <1>4, <1>5, <2>3, <2>4 DEF TwoSound
  <2>6. ConnSound(rest) /\ ~Awaits(rest) /\ ~Overtaken(k) /\ ~Awaits(k)
    BY <1>4, <2>3, <2>5 DEF ConnSound, OpenSound, Awaits, Overtaken
  <2>7. ConnStep(k, rest)
    BY <2>6, <1>2, <1>4 DEF ConnStep, Expects, Winding
  <2>8. QED
    BY <2>1, <2>2, <2>7, <1>4, <1>8
<1>13. QED
  BY <1>1, <1>10, <1>11, <1>12 DEF WriteKinds

(* The end of any write.                                                       *)
LEMMA WriteEndStep ==
  ASSUME NEW k \in ConnType, ConnSound(k), k.writes # <<>>, NEW ok \in BOOLEAN
  PROVE  /\ ConnStep(k, WriteCallback(k, ok))
         /\ k.live /\ (~k.closing => WriteCallback(k, ok).live)
<1>1. k.live
  BY DEF ConnSound, StructSound, FreeConn
<1>2. ~k.closing => Refused(k) \/ Stream(k) \/ (OneAnswer(k) /\ ~k.sse)
  BY DEF ConnSound, OpenSound, OneSound
<1>3. QED
  BY <1>1, <1>2, WriteEndsClosing, WriteEndsStream, WriteEndsAnswer, WriteEndsRefused

(* A connection past its deadline.                                             *)
LEMMA SweptStep ==
  ASSUME NEW k \in ConnType, ConnSound(k), k.live, ~k.closing
  PROVE  /\ ConnStep(k, Swept(k, TRUE))
         /\ Swept(k, TRUE).live /\ Swept(k, TRUE).closing
<1> DEFINE p == [k EXCEPT !.force_close = TRUE]
<1>1. /\ p \in ConnType /\ p.live /\ ~p.closing /\ p.arena = k.arena
      /\ p.req = k.req /\ StructSound(p) /\ (Refused(k) => Refused(p))
  BY DEF ConnType, ConnSound, StructSound, Refused
<1>2. Swept(k, TRUE) = conn_close_and_free(p)
  BY DEF Swept
<1> HIDE DEF p
<1>3. LET m == conn_close_and_free(p)
      IN  /\ m \in ConnType /\ m.closing /\ m.live /\ m.arena = k.arena
          /\ m.req = k.req /\ StructSound(m) /\ (Refused(p) => Refused(m))
  BY <1>1 DEF conn_close_and_free, ConnType, StructSound, Refused
<1>4. QED
  BY <1>1, <1>2, <1>3 DEF ConnStep, ConnSound, Awaits, Expects, Overtaken, Winding

(* A reload broadcast to one connection.                                       *)
LEMMA ReloadedStep ==
  ASSUME NEW k \in ConnType, ConnSound(k)
  PROVE  ConnStep(k, Reloaded(k)) /\ (Reloaded(k).live <=> k.live)
<1>1. CASE ~(k.sse /\ ~k.closing)
  BY <1>1, SameStep DEF Reloaded
<1>2. CASE k.sse /\ ~k.closing /\ ~Refused(k)
  <2>1. k.live /\ ~k.half /\ k.phase # "DRAIN" /\ OneSound(k) /\ StructSound(k)
        /\ k.owed = 1 /\ ~k.close_cb_done /\ "sse" \in WriteKinds
    BY <1>2 DEF ConnSound, StructSound, OpenSound, OneSound, OneAnswer, FreeConn, WriteKinds
  <2>2. Stream(k) /\ k.phase # "WRITE"
    <3>1. Len(<<>>) = 0
      BY EmptySeq
    <3>2. k.writes = <<>> => Stream(k)
      BY <1>2, <3>1 DEF Stream
    <3>3. Stream(k)
      BY <1>2, <2>1, <3>2 DEF OneSound
    <3>4. k.writes # <<>> => Head(k.writes) = k.writes[1] /\ 1 \in 1 .. Len(k.writes)
      BY EmptySeq DEF ConnType
    <3>5. QED
      BY <2>1, <3>3, <3>4 DEF OneSound, OneAnswer, Stream
  <2> DEFINE m == Write(k, "sse")
  <2>3. Reloaded(k) = m
    BY <1>2 DEF Reloaded
  <2> HIDE DEF m
  <2>4. /\ m \in ConnType /\ m = [k EXCEPT !.writes = m.writes]
        /\ Len(m.writes) = Len(k.writes) + 1 /\ m.writes[Len(k.writes) + 1] = "sse"
        /\ \A i \in 1 .. Len(k.writes) : m.writes[i] = k.writes[i]
    BY <2>1, WriteOpen DEF m
  <2>5. /\ m.live /\ ~m.closing /\ m.sse /\ ~m.half /\ ~m.close_cb_done
        /\ m.phase = k.phase /\ m.arena = k.arena /\ m.req = k.req /\ m.owed = k.owed
        /\ m.parser = k.parser /\ m.force_close = k.force_close /\ ~Refused(m)
    BY <1>2, <2>1, <2>4 DEF ConnType, Refused
  <2>6. Stream(m)
    <3>1. Len(k.writes) \in Nat
      BY LenProperties DEF ConnType
    <3>2. \A i \in 1 .. Len(m.writes) : i \in 1 .. Len(k.writes) \/ i = Len(k.writes) + 1
      BY <2>4, <3>1
    <3>3. QED
      BY <2>2, <2>4, <2>5, <3>2 DEF Stream
  <2>7. ConnSound(m)
    BY <2>1, <2>2, <2>5, <2>6 DEF ConnSound, StructSound, OpenSound, OneSound
  <2>8. QED
    BY <1>2, <2>1, <2>3, <2>4, <2>5, <2>7 DEF ConnStep, Awaits, Expects, Overtaken, Winding
<1>3. CASE k.sse /\ ~k.closing /\ Refused(k)
  <2>1. k.live /\ TwoSound(k) /\ StructSound(k) /\ ~k.close_cb_done
    BY <1>3 DEF ConnSound, OpenSound, StructSound, FreeConn
  <2>2. CASE k.half
    <3>1. Reloaded(k) = conn_close_and_free(k)
      BY <1>3, <2>2 DEF Reloaded, Write
    <3>2. QED
      BY <2>1, <3>1, CloseStep
  <2>3. CASE ~k.half
    <3> DEFINE m == Write(k, "sse")
    <3>1. Reloaded(k) = m /\ "sse" \in WriteKinds /\ Len(k.writes) \in Nat
      BY <1>3, WritesLen DEF Reloaded, WriteKinds
    <3>2. /\ m \in ConnType /\ m = [k EXCEPT !.writes = m.writes] /\ m.writes # <<>>
          /\ Len(m.writes) = Len(k.writes) + 1 /\ m.writes[Len(k.writes) + 1] = "sse"
          /\ \A i \in 1 .. Len(k.writes) : m.writes[i] = k.writes[i]
      BY <2>3, <3>1, WriteOpen
    <3> HIDE DEF m
    <3>3. /\ m.live /\ ~m.closing /\ m.sse /\ ~m.half /\ ~m.close_cb_done
          /\ m.phase = k.phase /\ m.arena = k.arena /\ m.req = k.req /\ m.owed = k.owed
          /\ (m.force_close <=> k.force_close) /\ Refused(m)
      BY <1>3, <2>1, <2>3, <3>2 DEF ConnType, Refused
    <3>4. /\ \A i \in 1 .. Len(m.writes) : m.writes[i] # "sse" => i \in 1 .. Len(k.writes)
          /\ \A i \in 1 .. Len(k.writes) : i \in 1 .. Len(m.writes)
      BY <3>1, <3>2
    <3>5. TwoSound(m)
      <4>1. k.owed = 1 => \E i \in 1 .. Len(m.writes) : m.writes[i] # "sse"
        <5> SUFFICES ASSUME k.owed = 1 PROVE \E i \in 1 .. Len(m.writes) : m.writes[i] # "sse"
          OBVIOUS
        <5>1. PICK i \in 1 .. Len(k.writes) : k.writes[i] # "sse"
          BY <2>1 DEF TwoSound
        <5>2. m.writes[i] # "sse" /\ i \in 1 .. Len(m.writes)
          BY <3>2, <3>4, <5>1
        <5>3. QED
          BY <5>2
      <4>2. \A i, j \in 1 .. Len(m.writes) : m.writes[i] # "sse" /\ m.writes[j] # "sse" => i = j
        <5> SUFFICES ASSUME NEW i \in 1 .. Len(m.writes), NEW j \in 1 .. Len(m.writes),
                            m.writes[i] # "sse", m.writes[j] # "sse"
                     PROVE  i = j
          OBVIOUS
        <5>1. i \in 1 .. Len(k.writes) /\ j \in 1 .. Len(k.writes)
          BY <3>4
        <5>2. k.writes[i] # "sse" /\ k.writes[j] # "sse"
          BY <3>2, <5>1
        <5>3. QED
          BY <1>3, <2>1, <5>1, <5>2 DEF TwoSound
      <4>3. QED
        BY <2>1, <3>3, <4>1, <4>2 DEF TwoSound
    <3>6. StructSound(m)
      BY <2>1, <2>3, <3>3 DEF StructSound
    <3>7. ~Expects(k) /\ ~Expects(m) /\ ~Awaits(m)
      BY <1>3, <3>3 DEF Expects, Awaits, Overtaken
    <3>8. QED
      BY <1>3, <2>1, <3>1, <3>2, <3>3, <3>5, <3>6, <3>7 DEF ConnStep, ConnSound, OpenSound, Winding
  <2>4. QED
    BY <2>2, <2>3
<1>4. QED
  BY <1>1, <1>2, <1>3

(* A connection that awaits the pool is in the BODY phase, and not refused.    *)
LEMMA AwaitsBody ==
  ASSUME NEW k, ConnSound(k), Awaits(k)
  PROVE  k.phase = "BODY" /\ ~Refused(k)
<1>1. ~Refused(k)
  BY EmptySeq DEF Awaits, ConnSound, OpenSound, TwoSound
<1>2. QED
  BY <1>1 DEF Awaits, ConnSound, OpenSound, OneSound, OneAnswer

(* What start_shutdown makes of a connection: a ConnStep that leaves it        *)
(* closing, draining, or writing its last answer; one whose request is in the  *)
(* pool is closed.                                                             *)
LEMMA ShutdownStep ==
  ASSUME NEW k \in ConnType, ConnSound(k), k.live
  PROVE  /\ ConnStep(k, ShutdownConn(k)) /\ ShutdownConn(k).live
         /\ Winding(ShutdownConn(k)) /\ ShutdownConn(k).req = k.req
         /\ k.phase \in {"IDLE", "HEADERS", "BODY"} => ShutdownConn(k).closing
         /\ Awaits(k) => k.phase = "BODY"
<1>1. Awaits(k) => k.phase = "BODY"
  BY AwaitsBody
<1>2. CASE k.phase \in {"IDLE", "HEADERS", "BODY"}
  <2>1. ShutdownConn(k) = conn_close_and_free(k)
    BY <1>2 DEF ShutdownConn
  <2>2. QED
    BY <1>2, <1>1, <2>1, CloseStep DEF Winding
<1>3. CASE k.phase \notin {"IDLE", "HEADERS", "BODY"} /\ k.req # NoReq
  <2> DEFINE m == [k EXCEPT !.force_close = TRUE]
  <2>1. ShutdownConn(k) = m
    BY <1>3 DEF ShutdownConn
  <2>2. /\ m \in ConnType /\ m.live /\ (m.closing <=> k.closing) /\ m.arena = k.arena
        /\ m.req = k.req /\ m.phase = k.phase /\ m.force_close
        /\ m.writes = k.writes /\ m.owed = k.owed /\ (m.sse <=> k.sse)
        /\ (m.half <=> k.half) /\ m.parser = k.parser /\ (m.reading <=> k.reading)
        /\ (m.status_sent <=> k.status_sent) /\ (m.close_cb_done <=> k.close_cb_done)
    BY DEF ConnType
  <2> HIDE DEF m
  <2>3. ConnSound(m)
    <3>1. Refused(k) => Refused(m)
      BY <2>2 DEF Refused
    <3>2. StructSound(m)
      BY <2>2, <3>1 DEF ConnSound, StructSound
    <3>3. ASSUME ~k.closing, Refused(k) PROVE OpenSound(m)
      BY <2>2, <3>1, <3>3 DEF ConnSound, OpenSound, TwoSound
    <3>4. ASSUME ~k.closing, ~Refused(k), ~Refused(m) PROVE OpenSound(m)
      BY <2>2, <3>4 DEF ConnSound, OpenSound, OneSound, OneAnswer, Stream
    <3>5. ASSUME ~k.closing, ~Refused(k), Refused(m) PROVE OpenSound(m)
      <4>1. k.parser = "upgrade" /\ k.status_sent /\ ~k.force_close /\ OneSound(k)
        BY <2>2, <3>5 DEF Refused, ConnSound, OpenSound
      <4>2. k.phase \in {"WRITE", "DRAIN"}
        BY <1>3, <4>1 DEF OneSound, ConnType, Phases
      <4>3. CASE k.phase = "DRAIN"
        <5>1. k.writes = <<>> /\ k.owed = 0 /\ ~k.sse
          BY <3>5, <4>1, <4>3 DEF ConnSound, StructSound, OneSound, ConnType
        <5>2. QED
          BY <2>2, <3>5, <4>3, <5>1, EmptySeq DEF OpenSound, TwoSound
      <4>4. CASE k.phase = "WRITE"
        <5>1. OneAnswer(k) /\ k.owed = 1
          BY <4>1, <4>4 DEF OneSound
        <5>2. Len(k.writes) = 1 /\ k.writes[1] # "sse"
          <6>1. k.writes \in Seq(WriteKinds)
            BY WritesLen
          <6>2. Len(Tail(k.writes)) = Len(k.writes) - 1 /\ Head(k.writes) = k.writes[1]
            BY <5>1, <6>1, HeadTailProperties DEF OneAnswer
          <6>3. Len(Tail(k.writes)) = 0 /\ Head(k.writes) # "sse" /\ Len(k.writes) \in Nat
            BY <5>1, EmptySeq, WritesLen DEF OneAnswer
          <6>4. QED
            BY <6>2, <6>3
        <5>3. 1 \in 1 .. Len(k.writes) /\ \A i \in 1 .. Len(k.writes) : i = 1
          BY <5>2
        <5>4. QED
          BY <2>2, <3>5, <4>4, <5>1, <5>2, <5>3 DEF OpenSound, TwoSound
      <4>5. QED
        BY <4>2, <4>3, <4>4
    <3>6. QED
      BY <2>2, <3>2, <3>3, <3>4, <3>5 DEF ConnSound
  <2>4. ~k.closing => k.phase # "WORK"
    BY DEF ConnSound, OpenSound, OneSound, TwoSound
  <2>5. Winding(m)
    BY <1>3, <2>2, <2>4 DEF Winding, ConnType, Phases
  <2>6. QED
    BY <1>3, <1>1, <2>1, <2>2, <2>3, <2>5 DEF ConnStep, Awaits, Expects, Overtaken, Refused
<1>4. CASE k.phase \notin {"IDLE", "HEADERS", "BODY"} /\ k.req = NoReq
  <2>1. ShutdownConn(k) = k
    BY <1>4 DEF ShutdownConn
  <2>2. Winding(k)
    <3>1. ~k.closing => k.phase # "WORK"
      BY DEF ConnSound, OpenSound, OneSound, TwoSound
    <3>2. k.phase = "WRITE" /\ ~k.closing => k.force_close
      BY <1>4 DEF ConnSound, OpenSound, OneSound, Refused
    <3>3. QED
      BY <1>4, <3>1, <3>2 DEF Winding, ConnType, Phases
  <2>3. QED
    BY <1>4, <1>1, <2>1, <2>2, SameStep
<1>5. QED
  BY <1>2, <1>3, <1>4

(* Cancelling the requests of the connections a callback starts to close       *)
(* (conn_close_and_free) is a CancelStep.                                      *)
LEMMA CancelClosingStep ==
  ASSUME TypeOK, \A c \in Conns : ConnStep(conn[c], conn'[c]),
         req' \in [Reqs -> ReqType],
         \A r \in Reqs : /\ req'[r].conn = CancelClosing(conn')[r].conn
                         /\ req'[r].cancelled <=> CancelClosing(conn')[r].cancelled
  PROVE  CancelStep
<1> SUFFICES ASSUME NEW r \in Reqs
             PROVE  /\ req'[r].conn = req[r].conn
                    /\ req[r].cancelled => req'[r].cancelled
                    /\ req'[r].cancelled /\ ~req[r].cancelled =>
                         \E c \in Conns : conn[c].req = r /\ conn'[c].closing
                    /\ \A c \in Conns : conn'[c].closing /\ ~conn[c].closing /\ conn[c].req = r
                            => req'[r].cancelled
  BY DEF CancelStep
<1>1. req[r] \in ReqType
  BY DEF TypeOK
<1> DEFINE hit == \E c \in Conns : /\ conn'[c].closing /\ ~conn[c].closing
                                   /\ conn'[c].req = r
<1>2. CancelClosing(conn')[r] = IF hit THEN [req[r] EXCEPT !.cancelled = TRUE] ELSE req[r]
  BY DEF CancelClosing
<1>3. /\ req'[r].conn = req[r].conn
      /\ req'[r].cancelled <=> (hit \/ req[r].cancelled)
  BY <1>1, <1>2 DEF ReqType
<1>4. \A c \in Conns : conn'[c].closing /\ ~conn[c].closing => conn'[c].req = conn[c].req
  BY DEF ConnStep
<1>5. QED
  BY <1>3, <1>4

(* The heart of the proof: a step in which every connection takes a ConnStep,  *)
(* the requests a CancelStep, and the pool gains nothing and loses only        *)
(* cancelled requests keeps connections, requests and pool in agreement.       *)
LEMMA LinkStep ==
  ASSUME TypeOK, LinkInv, CancelStep, \A c \in Conns : ConnStep(conn[c], conn'[c]),
         shutting_down => shutting_down', PoolDistinct',
         \A r \in Reqs : InPool(r)' => InPool(r),
         \A r \in Reqs : InPool(r) /\ ~req[r].cancelled => InPool(r)'
  PROVE  LinkInv'
<1>1. /\ \A c \in Conns : conn[c] \in ConnType /\ ConnSound(conn[c])
      /\ \A c \in Conns : conn'[c] \in ConnType /\ ConnSound(conn'[c])
  BY DEF TypeOK, LinkInv, ConnStep
<1>3. ArenaOwned'
  <2> SUFFICES ASSUME NEW c \in Conns, conn'[c].arena # NoReq
               PROVE  req'[conn'[c].arena].conn = c
    BY DEF ArenaOwned
  <2>1. conn'[c].live
    BY <1>1 DEF ConnSound, StructSound, FreeConn
  <2>2. conn'[c].arena = conn[c].arena /\ conn[c].arena \in Reqs
    BY <1>1, <2>1 DEF ConnStep, ConnType
  <2>3. QED
    BY <2>2 DEF LinkInv, ArenaOwned, CancelStep
<1>4. ASSUME NEW c \in Conns, NEW r \in Reqs, conn[c].req = r
      PROVE  conn[c].arena = r /\ req[r].conn = c
  BY <1>1, <1>4, ServerAssumption DEF ConnSound, StructSound, LinkInv, ArenaOwned
<1>5. ASSUME NEW r \in Reqs, InPool(r)' PROVE PoolRequest(r)'
  <2>1. PoolRequest(r)
    BY <1>5 DEF LinkInv
  <2>2. req'[r].conn \in Conns /\ req'[r].conn = req[r].conn
    BY <2>1 DEF PoolRequest, CancelStep
  <2>3. ASSUME ~req'[r].cancelled
        PROVE  LET k == conn'[req[r].conn] IN Expects(k) /\ k.req = r
    <3>1. ~req[r].cancelled
      BY <2>3 DEF CancelStep
    <3>2. LET k == conn[req[r].conn] IN Expects(k) /\ k.req = r
      BY <2>1, <3>1 DEF PoolRequest
    <3>3. ~conn'[req[r].conn].closing
      BY <2>2, <2>3, <3>2 DEF CancelStep, Expects, Awaits, Overtaken
    <3>4. QED
      BY <2>2, <3>2, <3>3 DEF ConnStep
  <2>4. ASSUME req'[r].cancelled, NEW c \in Conns, conn'[c].arena = r
        PROVE  conn'[c].closing \/ Refused(conn'[c])
    <3>1. conn'[c].live /\ conn[c].arena = r
      BY <1>1, <2>4, ServerAssumption DEF ConnSound, StructSound, FreeConn, ConnStep
    <3>2. CASE req[r].cancelled
      BY <2>1, <3>1, <3>2 DEF PoolRequest, ConnStep
    <3>3. CASE ~req[r].cancelled
      <4>1. PICK d \in Conns : conn[d].req = r /\ (conn'[d].closing \/ (shutting_down' /\ ~Awaits(conn[d])))
        BY <2>4, <3>3 DEF CancelStep
      <4>2. req[r].conn = d
        BY <1>4, <4>1
      <4>3. req[r].conn = c
        BY <3>1, ServerAssumption DEF LinkInv, ArenaOwned
      <4>4. Expects(conn[d])
        BY <2>1, <3>3, <4>2 DEF PoolRequest
      <4>5. ~Awaits(conn[d]) => Refused(conn[d])
        BY <4>4 DEF Expects, Overtaken
      <4>6. Refused(conn[d]) => Refused(conn'[d])
        BY <3>1, <4>2, <4>3 DEF ConnStep
      <4>7. QED
        BY <4>1, <4>2, <4>3, <4>5, <4>6
    <3>4. QED
      BY <3>2, <3>3
  <2>5. QED
    BY <2>2, <2>3, <2>4 DEF PoolRequest
<1>6. AwaitedInPool'
  <2> SUFFICES ASSUME NEW c \in Conns, Awaits(conn[c])'
               PROVE  (InPool(conn[c].req) /\ ~req[conn[c].req].cancelled)'
    BY DEF AwaitedInPool
  <2>1. Awaits(conn[c]) /\ conn'[c].req = conn[c].req
    BY DEF ConnStep
  <2>2. PICK r \in Reqs : r = conn[c].req
    <3>1. ~Refused(conn[c])
      BY <1>1, <2>1, AwaitsBody
    <3>2. QED
      BY <1>1, <2>1, <3>1 DEF Awaits, ConnSound, OpenSound, OneSound, ConnType
  <2>3. InPool(r) /\ ~req[r].cancelled
    BY <2>1, <2>2 DEF LinkInv, AwaitedInPool
  <2>4. ~req'[r].cancelled
    <3> SUFFICES ASSUME req'[r].cancelled PROVE FALSE
      OBVIOUS
    <3>1. PICK d \in Conns : conn[d].req = r /\ (conn'[d].closing \/ (shutting_down' /\ ~Awaits(conn[d])))
      BY <2>2, <2>3 DEF CancelStep
    <3>2. d = c
      BY <1>4, <2>2, <3>1
    <3>3. QED
      BY <2>1, <3>1, <3>2 DEF Awaits
  <2>5. QED
    <3>1. InPool(r)'
      BY <2>3
    <3>2. QED
      BY <2>1, <2>2, <2>4, <3>1 DEF InPool
<1>7. OpenNotCancelled'
  <2> SUFFICES ASSUME ~shutting_down', NEW c \in Conns,
                      conn'[c].req # NoReq, ~conn'[c].closing
               PROVE  ~req'[conn'[c].req].cancelled
    BY DEF OpenNotCancelled
  <2>1. conn'[c].req = conn[c].req /\ conn[c].req \in Reqs
    BY <1>1 DEF ConnStep, ConnType
  <2>2. ~conn[c].closing
    <3>1. conn'[c].live
      BY <1>1 DEF ConnSound, StructSound, FreeConn
    <3>2. QED
      BY <3>1 DEF ConnStep
  <2>3. ~req[conn[c].req].cancelled
    BY <2>1, <2>2 DEF LinkInv, OpenNotCancelled
  <2> SUFFICES ASSUME req'[conn[c].req].cancelled PROVE FALSE
    BY <2>1
  <2>4. PICK d \in Conns : conn[d].req = conn[c].req /\ conn'[d].closing
    BY <2>1, <2>3 DEF CancelStep
  <2>5. d = c
    BY <1>4, <2>1, <2>4
  <2>6. QED
    BY <2>4, <2>5
<1>8. QED
  BY <1>1, <1>3, <1>5, <1>6, <1>7 DEF LinkInv

-----------------------------------------------------------------------------
(* Finitely many connections are linked in srv->conns, so they can be counted. *)
LEMMA LiveFinite == IsFiniteSet(Live) /\ Cardinality(Live) \in Nat
<1>1. IsFiniteSet(Live)
  BY ServerAssumption, FS_Subset DEF Live
<1>2. QED
  BY <1>1, FS_CardinalityType

(* A callback that neither accepts nor finalizes keeps the linked connections. *)
LEMMA LiveSame ==
  ASSUME \A c \in Conns : conn'[c].live <=> conn[c].live
  PROVE  Live' = Live
BY DEF Live

(* cerco_connection_cb links one connection more.                              *)
LEMMA LiveEnters ==
  ASSUME NEW c \in Conns, ~conn[c].live, conn'[c].live,
         \A d \in Conns \ {c} : conn'[d] = conn[d]
  PROVE  Cardinality(Live') = Cardinality(Live) + 1
<1>1. Live' = Live \cup {c} /\ c \notin Live
  BY DEF Live
<1>2. QED
  BY <1>1, LiveFinite, FS_AddElement

(* conn_finalize unlinks one connection.                                       *)
LEMMA LiveLeaves ==
  ASSUME NEW c \in Conns, conn[c].live, ~conn'[c].live,
         \A d \in Conns \ {c} : conn'[d] = conn[d]
  PROVE  Cardinality(Live') = Cardinality(Live) - 1
<1>1. Live' = Live \ {c} /\ c \in Live
  BY DEF Live
<1>2. QED
  BY <1>1, LiveFinite, FS_RemoveElement

(* A counter that equals the number of linked connections never goes below 0.  *)
LEMMA CountIsNat ==
  ASSUME NConnsExact' PROVE n_conns' \in Nat
<1>1. IsFiniteSet(Live')
  BY ServerAssumption, FS_Subset DEF Live
<1>2. QED
  BY <1>1, FS_CardinalityType DEF NConnsExact

-----------------------------------------------------------------------------
(* Cancelling keeps the request objects well formed.                           *)
LEMMA CancelClosingType ==
  ASSUME TypeOK, NEW new
  PROVE  CancelClosing(new) \in [Reqs -> ReqType]
BY DEF TypeOK, CancelClosing, ReqType

(* A callback that does not call the pool leaves what the proof reads of it.   *)
LEMMA PoolSame ==
  ASSUME TypeOK, ServerInv, UNCHANGED poolVars
  PROVE  /\ PoolDistinct' /\ PoolTypeOK' /\ completed' = completed
         /\ \A r \in Reqs : InPool(r)' <=> InPool(r)
BY DEF poolVars, PoolDistinct, PoolTypeOK, InPool, TypeOK, ServerInv, LinkInv

(* A callback of one connection that submits nothing keeps the invariant when  *)
(* it takes a ConnStep there, a CancelStep on the requests, and counts the     *)
(* connection out of n_conns exactly when it finalizes it.                     *)
LEMMA OneConnStep ==
  ASSUME TypeOK, ServerInv, NEW c \in Conns, NEW m,
         conn' = [conn EXCEPT ![c] = m], ConnStep(conn[c], m), CancelStep,
         UNCHANGED <<shutting_down, running>>,
         PoolDistinct', PoolTypeOK', \A r \in Reqs : InPool(r)' => InPool(r),
         \A r \in Reqs : InPool(r) /\ ~req[r].cancelled => InPool(r)',
         m.live => conn[c].live,
         completed' = completed \/ Len(m.writes) <= Len(conn[c].writes),
         n_conns' = IF conn[c].live /\ ~m.live THEN n_conns - 1 ELSE n_conns,
         executing' = NoConn \/ (executing = c /\ executing' = c /\ Parsed(m))
  PROVE  TypeOK' /\ ServerInv' /\ AskerStep
<1>1. \A d \in Conns : conn'[d] = IF d = c THEN m ELSE conn[d]
  BY DEF TypeOK
<1>2. \A d \in Conns : ConnStep(conn[d], conn'[d])
  BY <1>1, SameStep DEF TypeOK, ServerInv, LinkInv
<1>4. LinkInv'
  BY <1>2, LinkStep DEF ServerInv
<1>5. NConnsExact'
  <2>1. CASE conn[c].live <=> m.live
    <3>1. Live' = Live
      BY <1>1, <2>1, LiveSame
    <3>2. QED
      BY <2>1, <3>1 DEF ServerInv, NConnsExact
  <2>2. CASE conn[c].live /\ ~m.live
    <3>1. Cardinality(Live') = Cardinality(Live) - 1
      BY <1>1, <2>2, LiveLeaves
    <3>2. QED
      BY <2>2, <3>1 DEF ServerInv, NConnsExact
  <2>3. QED
    BY <2>1, <2>2
<1>6. NoNewWorkAfterShutdown'
  <2> SUFFICES ASSUME shutting_down', NEW d \in Conns, conn'[d].live
               PROVE  Winding(conn'[d])
    BY DEF NoNewWorkAfterShutdown, Winding, Live
  <2>1. conn[d].live
    BY <1>1
  <2>2. Winding(conn[d])
    BY <2>1 DEF ServerInv, NoNewWorkAfterShutdown, Winding, Live
  <2>3. QED
    BY <1>2, <2>1, <2>2 DEF ConnStep
<1>7. ExecutingInv'
  BY <1>1, ServerAssumption DEF ServerInv, ExecutingInv
<1>8. TypeOK'
  <2>1. conn' \in [Conns -> ConnType]
    BY <1>2 DEF ConnStep, TypeOK
  <2>2. n_conns' \in Nat
    BY <1>5, CountIsNat
  <2>3. QED
    BY <2>1, <2>2 DEF TypeOK, CancelStep
<1>9. AskerStep
  <2> SUFFICES ASSUME NEW d \in Conns, Len(conn'[d].writes) > Len(conn[d].writes)
               PROVE  ~conn[d].closing /\ completed' = completed
    BY DEF AskerStep
  <2>1. Len(conn[d].writes) \in Nat /\ Len(conn'[d].writes) \in Nat
    BY <1>2, WritesLen DEF TypeOK, ConnStep
  <2>2. QED
    BY <1>1, <1>2, <2>1 DEF ConnStep
<1>10. QED
  BY <1>4, <1>5, <1>6, <1>7, <1>8, <1>9 DEF ServerInv

(* A callback that closes its connection cancels the request with it, and is   *)
(* a CancelStep.                                                               *)
LEMMA BecomeCancels ==
  ASSUME TypeOK, NEW c \in Conns, NEW m, Become(c, m), ConnStep(conn[c], m),
         \A d \in Conns : ConnSound(conn[d])
  PROVE  conn' = [conn EXCEPT ![c] = m] /\ CancelStep
<1>1. conn' = [conn EXCEPT ![c] = m] /\ req' = CancelClosing(conn')
  BY DEF Become
<1>2. \A d \in Conns : ConnStep(conn[d], conn'[d])
  BY <1>1, SameStep DEF TypeOK
<1>3. req' \in [Reqs -> ReqType]
  BY <1>1, CancelClosingType
<1>4. QED
  BY <1>1, <1>2, <1>3, CancelClosingStep

(* ... as is one that closes nothing and leaves the requests alone.            *)
LEMMA RequestsKept ==
  ASSUME TypeOK, UNCHANGED req,
         \A d \in Conns : conn'[d].closing => conn[d].closing
  PROVE  CancelStep
BY DEF TypeOK, CancelStep

-----------------------------------------------------------------------------
(* conn_on_read at end of file, or with a full buffer, keeps the invariant.    *)
LEMMA OnReadCloses ==
  ASSUME TypeOK, ServerInv, NEW c \in Conns, OnReadEnd(c) \/ OnReadFull(c)
  PROVE  TypeOK' /\ ServerInv' /\ AskerStep
<1> DEFINE m == conn_close_and_free(conn[c])
<1>1. /\ Become(c, m) /\ conn[c].live /\ n_conns' = n_conns /\ executing' = NoConn
      /\ UNCHANGED <<shutting_down, running, poolVars>>
  BY DEF OnReadEnd, OnReadFull, AtPoll
<1>2. conn[c] \in ConnType /\ ConnSound(conn[c]) /\ \A d \in Conns : ConnSound(conn[d])
  BY DEF TypeOK, ServerInv, LinkInv
<1>3. ConnStep(conn[c], m) /\ m.live
  BY <1>1, <1>2, CloseStep
<1> HIDE DEF m
<1>4. conn' = [conn EXCEPT ![c] = m] /\ CancelStep
  BY <1>1, <1>2, <1>3, BecomeCancels
<1>5. QED
  BY <1>1, <1>3, <1>4, PoolSame, OneConnStep

(* Every write callback keeps the invariant, whether the write succeeded.      *)
LEMMA WriteDoneKeeps ==
  ASSUME TypeOK, ServerInv, NEW c \in Conns, NEW ok \in BOOLEAN, WriteDone(c, ok)
  PROVE  TypeOK' /\ ServerInv' /\ AskerStep
<1> DEFINE m == WriteCallback(conn[c], ok)
<1>1. /\ Become(c, m) /\ n_conns' = Uncount(m) /\ executing' = NoConn
      /\ conn[c].writes # <<>>
      /\ UNCHANGED <<shutting_down, running, poolVars>>
  BY DEF WriteDone, AtPoll
<1>2. conn[c] \in ConnType /\ ConnSound(conn[c]) /\ \A d \in Conns : ConnSound(conn[d])
  BY DEF TypeOK, ServerInv, LinkInv
<1>3. ConnStep(conn[c], m) /\ conn[c].live
  BY <1>1, <1>2, WriteEndStep
<1> HIDE DEF m
<1>4. conn' = [conn EXCEPT ![c] = m] /\ CancelStep
  BY <1>1, <1>2, <1>3, BecomeCancels
<1>5. QED
  BY <1>1, <1>3, <1>4, PoolSame, OneConnStep DEF Uncount

(* conn_on_stream_closed, which finalizes unless a write is pending, keeps it. *)
LEMMA StreamClosedKeeps ==
  ASSUME TypeOK, ServerInv, NEW c \in Conns, conn_on_stream_closed(c)
  PROVE  TypeOK' /\ ServerInv' /\ AskerStep
<1> DEFINE k == [conn[c] EXCEPT !.close_cb_done = TRUE]
           m == conn_maybe_finalize(k)
<1>1. /\ conn' = [conn EXCEPT ![c] = m] /\ n_conns' = Uncount(m) /\ executing' = NoConn
      /\ conn[c].closing
      /\ UNCHANGED <<req, shutting_down, running, poolVars>>
  BY DEF conn_on_stream_closed, AtPoll
<1>2. conn[c] \in ConnType /\ ConnSound(conn[c]) /\ conn[c].live
  BY <1>1 DEF TypeOK, ServerInv, LinkInv, ConnSound, StructSound, FreeConn
<1>3. /\ k \in ConnType /\ k.live /\ k.closing /\ k.req = conn[c].req /\ k.arena = conn[c].arena
      /\ k.writes = conn[c].writes /\ StructSound(k) /\ (Refused(k) <=> Refused(conn[c]))
  <2>1. /\ k \in ConnType /\ k.live /\ k.closing /\ k.req = conn[c].req
        /\ k.arena = conn[c].arena /\ k.writes = conn[c].writes /\ k.parser = conn[c].parser
        /\ (k.status_sent <=> conn[c].status_sent) /\ (k.force_close <=> conn[c].force_close)
        /\ (k.half <=> conn[c].half) /\ k.phase = conn[c].phase
        /\ ~k.reading /\ ~k.sse
    BY <1>1, <1>2 DEF ConnType, ConnSound, StructSound
  <2> HIDE DEF k
  <2>2. Refused(k) <=> Refused(conn[c])
    BY <2>1 DEF Refused
  <2>3. StructSound(k)
    BY <1>1, <1>2, <2>1, <2>2 DEF ConnSound, StructSound
  <2>4. QED
    BY <2>1, <2>2, <2>3
<1> HIDE DEF k
<1>4. ConnStep(k, m)
  BY <1>3, FinalizeStep DEF ConnSound
<1> HIDE DEF m
<1>5. ConnStep(conn[c], m)
  <2>1. ~Expects(conn[c]) /\ ~Expects(k) /\ Winding(k)
    BY <1>1, <1>3 DEF Expects, Awaits, Overtaken, Winding
  <2>2. QED
    BY <1>1, <1>2, <1>3, <1>4, <2>1 DEF ConnStep, Expects
<1>6. CancelStep
  <2>1. \A d \in Conns : conn'[d].closing => conn[d].closing
    BY <1>1 DEF TypeOK
  <2>2. QED
    BY <1>1, <2>1, RequestsKept
<1>7. QED
  BY <1>1, <1>2, <1>5, <1>6, PoolSame, OneConnStep DEF Uncount

(* Entering and leaving llhttp_execute changes nothing but executing, and      *)
(* keeps the invariant if the connection entered is open.                      *)
LEMMA ExecutingMoves ==
  ASSUME TypeOK, ServerInv, UNCHANGED <<conn, req, n_conns, shutting_down, running, poolVars>>,
         executing' \in Conns \cup {NoConn},
         executing' # NoConn => running /\ ~shutting_down /\ Parsed(conn[executing'])
  PROVE  TypeOK' /\ ServerInv' /\ AskerStep
<1>1. PoolDistinct' /\ PoolTypeOK' /\ \A r \in Reqs : InPool(r)' <=> InPool(r)
  BY PoolSame
<1>2. CancelStep
  BY RequestsKept
<1>3. \A c \in Conns : ConnStep(conn[c], conn'[c])
  BY SameStep DEF TypeOK, ServerInv, LinkInv
<1>4. LinkInv'
  BY <1>1, <1>2, <1>3, LinkStep DEF ServerInv
<1>5. Live' = Live
  BY LiveSame
<1>6. NConnsExact' /\ NoNewWorkAfterShutdown'
  BY <1>5 DEF ServerInv, NConnsExact, NoNewWorkAfterShutdown
<1>7. AskerStep
  <2>1. \A c \in Conns : Len(conn[c].writes) \in Nat
    BY WritesLen DEF TypeOK
  <2>2. QED
    BY <2>1 DEF AskerStep
<1>8. QED
  BY <1>1, <1>4, <1>6, <1>7 DEF ServerInv, ExecutingInv, TypeOK

(* conn_on_read hands bytes to llhttp_execute only for an open connection, and *)
(* never after start_shutdown: every connection then closes, drains or is      *)
(* writing its last answer, which still owes one.                              *)
LEMMA OnReadBytesKeeps ==
  ASSUME TypeOK, ServerInv, NEW c \in Conns, OnReadBytes(c)
  PROVE  TypeOK' /\ ServerInv' /\ AskerStep
<1>1. /\ running /\ executing' = c /\ conn[c].live /\ conn[c].reading
      /\ ~conn[c].status_sent /\ conn[c].phase # "DRAIN" /\ conn[c].owed = 0
      /\ UNCHANGED <<conn, req, n_conns, shutting_down, running, poolVars>>
  BY DEF OnReadBytes, AtPoll
<1>2. StructSound(conn[c]) /\ (~conn[c].closing => OpenSound(conn[c]))
  BY DEF ServerInv, LinkInv, ConnSound
<1>3. ~conn[c].closing /\ ~conn[c].half /\ conn[c].phase # "WRITE" /\ ~Refused(conn[c])
  <2>1. ~Refused(conn[c]) /\ ~conn[c].closing
    BY <1>1, <1>2 DEF Refused, StructSound
  <2>2. QED
    BY <1>1, <1>2, <2>1 DEF StructSound, OpenSound, OneSound
<1>4. ~shutting_down
  BY <1>1, <1>3 DEF ServerInv, NoNewWorkAfterShutdown, Live
<1>5. Parsed(conn[c])
  BY <1>1, <1>3 DEF Parsed
<1>6. QED
  BY <1>1, <1>4, <1>5, ExecutingMoves

(* llhttp_execute returns at the end of the bytes.                             *)
LEMMA ExecuteReturnsKeeps ==
  ASSUME TypeOK, ServerInv, ExecuteReturns
  PROVE  TypeOK' /\ ServerInv' /\ AskerStep
BY ExecutingMoves DEF ExecuteReturns

(* Inside llhttp_execute the connection is open; before its message is         *)
(* complete, nothing is queued and no answer is awaited.                       *)
LEMMA ParsedOpen ==
  ASSUME TypeOK, ServerInv, NEW c \in Conns, executing = c
  PROVE  /\ conn[c] \in ConnType /\ ConnSound(conn[c]) /\ Parsed(conn[c])
         /\ running /\ ~shutting_down /\ executing # NoConn
         /\ conn[c].live /\ ~conn[c].closing /\ ~conn[c].half
         /\ ~Refused(conn[c]) /\ OneSound(conn[c])
         /\ conn[c].owed = 0 =>
              /\ conn[c].writes = <<>> /\ ~conn[c].sse /\ ~Expects(conn[c])
              /\ ~Winding(conn[c])
<1>1. conn[c] \in ConnType /\ ConnSound(conn[c]) /\ executing # NoConn
  BY ServerAssumption DEF TypeOK, ServerInv, LinkInv
<1>2. Parsed(conn[c]) /\ running /\ ~shutting_down
  BY <1>1 DEF ServerInv, ExecutingInv
<1>3. OneSound(conn[c])
  BY <1>1, <1>2 DEF Parsed, ConnSound, OpenSound
<1>4. QED
  BY <1>1, <1>2, <1>3 DEF Parsed, OneSound, Expects, Awaits, Overtaken, Winding

(* The 4xx of conn_on_read for bytes the parser rejects is the only answer     *)
(* queued, or it is the second one, to an upgrade; here clients that send      *)
(* nothing behind a complete message are used.                                 *)
LEMMA ExecuteFailsKeeps ==
  ASSUME SequentialClients, TypeOK, ServerInv, NEW c \in Conns, ExecuteFails(c)
  PROVE  TypeOK' /\ ServerInv' /\ AskerStep
<1> DEFINE m == conn_send_simple(conn[c], TRUE)
<1>1. /\ executing = c
      /\ conn[c].owed = 0 \/ conn[c].parser = "upgrade"
      /\ Become(c, m) /\ executing' = NoConn
      /\ UNCHANGED <<n_conns, shutting_down, running, poolVars>>
  BY DEF ExecuteFails, SequentialClients
<1>2. /\ conn[c] \in ConnType /\ ConnSound(conn[c]) /\ Parsed(conn[c])
      /\ conn[c].live /\ ~conn[c].closing /\ ~conn[c].half
      /\ ~Refused(conn[c]) /\ OneSound(conn[c])
  BY <1>1, ParsedOpen
<1>3. /\ m \in ConnType /\ ConnSound(m) /\ m.live /\ ~m.closing
      /\ m.arena = conn[c].arena /\ m.req = conn[c].req /\ ~Awaits(m)
      /\ (Expects(conn[c]) => Expects(m)) /\ (Winding(conn[c]) => Winding(m))
  <2>1. CASE conn[c].owed = 0
    <3>1. conn[c].writes = <<>> /\ ~Expects(conn[c]) /\ ~Winding(conn[c])
      BY <1>1, <2>1, ParsedOpen
    <3>2. QED
      BY <1>2, <2>1, <3>1, RefusalSound
  <2>2. CASE conn[c].owed # 0
    <3>1. conn[c].owed = 1 /\ conn[c].parser = "upgrade"
      BY <1>1, <1>2, <2>2 DEF OneSound, ConnType
    <3>2. /\ m \in ConnType /\ ConnSound(m) /\ m.live /\ ~m.closing
          /\ m.arena = conn[c].arena /\ m.req = conn[c].req /\ ~Awaits(m)
          /\ m.phase = conn[c].phase /\ m.force_close
          /\ Awaits(conn[c]) => Overtaken(m)
      BY <1>2, <3>1, UpgradeRefused
    <3> HIDE DEF m
    <3>3. Expects(conn[c]) => Awaits(conn[c])
      BY <1>2 DEF Expects, Overtaken
    <3>4. Expects(conn[c]) => Expects(m)
      BY <3>2, <3>3 DEF Expects
    <3>5. Winding(conn[c]) => Winding(m)
      BY <1>2, <3>2 DEF Winding
    <3>6. QED
      BY <3>2, <3>4, <3>5
  <2>3. QED
    BY <2>1, <2>2
<1> HIDE DEF m
<1>4. ConnStep(conn[c], m)
  BY <1>2, <1>3 DEF ConnStep
<1>5. conn' = [conn EXCEPT ![c] = m] /\ CancelStep
  BY <1>1, <1>4, BecomeCancels DEF ServerInv, LinkInv
<1>6. QED
  BY <1>1, <1>2, <1>3, <1>4, <1>5, PoolSame, OneConnStep

(* A parser callback that changes its connection only, keeps it open and does  *)
(* not submit to the pool keeps the invariant.                                 *)
LEMMA ParserStep ==
  ASSUME TypeOK, ServerInv, NEW c \in Conns, executing = c, conn[c].owed = 0,
         NEW m \in ConnType, ConnSound(m), Parsed(m), m.arena = conn[c].arena,
         m.req = conn[c].req, ~Awaits(m), conn' = [conn EXCEPT ![c] = m],
         UNCHANGED <<n_conns, executing, shutting_down, running, poolVars>>,
         req' \in [Reqs -> ReqType],
         \A r \in Reqs : /\ req'[r].conn = CancelClosing(conn')[r].conn
                         /\ req'[r].cancelled <=> CancelClosing(conn')[r].cancelled
  PROVE  TypeOK' /\ ServerInv' /\ AskerStep
<1>1. /\ conn[c] \in ConnType /\ ConnSound(conn[c])
      /\ conn[c].live /\ ~conn[c].closing /\ ~Expects(conn[c]) /\ ~Winding(conn[c])
      /\ ~Refused(conn[c])
  BY ParsedOpen
<1>2. m.live
  BY DEF Parsed
<1>3. ConnStep(conn[c], m)
  BY <1>1, <1>2 DEF ConnStep, Parsed
<1>4. \A d \in Conns : ConnStep(conn[d], conn'[d])
  BY <1>3, SameStep DEF TypeOK, ServerInv, LinkInv
<1>5. CancelStep
  BY <1>4, CancelClosingStep
<1>6. QED
  BY <1>1, <1>2, <1>3, <1>5, PoolSame, OneConnStep

(* Where no connection starts to close, no request is cancelled.               *)
LEMMA NothingCloses ==
  ASSUME TypeOK, UNCHANGED req, \A c \in Conns : conn'[c].closing => conn[c].closing
  PROVE  req' \in [Reqs -> ReqType] /\ req' = CancelClosing(conn')
BY DEF TypeOK, CancelClosing

(* on_message_begin with c->req set, which conn_send_simple leaves behind on a *)
(* kept-alive connection, keeps the invariant.                                 *)
LEMMA MessageOpenKeeps ==
  ASSUME SequentialClients, TypeOK, ServerInv, NEW c \in Conns, on_message_begin_open(c)
  PROVE  TypeOK' /\ ServerInv' /\ AskerStep
<1> DEFINE m == [conn[c] EXCEPT !.force_close = TRUE, !.parser = "headers"]
<1>1. /\ executing = c /\ conn[c].owed = 0 /\ conn[c].req # NoReq
      /\ conn' = [conn EXCEPT ![c] = m]
      /\ UNCHANGED <<req, n_conns, executing, shutting_down, running, poolVars>>
  BY DEF on_message_begin_open, SequentialClients, TypeOK
<1>2. /\ conn[c] \in ConnType /\ ConnSound(conn[c]) /\ Parsed(conn[c])
      /\ ~conn[c].closing /\ conn[c].writes = <<>> /\ ~conn[c].sse
  BY <1>1, ParsedOpen
<1>3. /\ conn[c].live /\ ~conn[c].half /\ ~conn[c].close_cb_done /\ conn[c].req = conn[c].arena
      /\ conn[c].phase \notin {"WORK", "WRITE", "DRAIN"} /\ ~conn[c].status_sent
  BY <1>1, <1>2 DEF ConnSound, StructSound, OpenSound, OneSound, TwoSound, Refused, Parsed
<1>4. /\ m \in ConnType /\ m.arena = conn[c].arena /\ m.req = conn[c].req
      /\ m.owed = 0 /\ ~m.closing /\ ~m.close_cb_done /\ ~m.half /\ m.live /\ ~m.sse
      /\ m.phase = conn[c].phase /\ m.parser = "headers" /\ ~m.status_sent
      /\ m.writes = <<>>
  BY <1>1, <1>2, <1>3 DEF ConnType
<1> HIDE DEF m
<1>5. ConnSound(m) /\ Parsed(m)
  BY <1>1, <1>3, <1>4 DEF ConnSound, StructSound, OpenSound, OneSound, TwoSound, Refused, Parsed
<1>6. ~Awaits(m)
  BY <1>4 DEF Awaits
<1>7. req' \in [Reqs -> ReqType] /\ req' = CancelClosing(conn')
  BY <1>1, <1>2, <1>4, NothingCloses DEF TypeOK
<1>8. QED
  BY <1>1, <1>4, <1>5, <1>6, <1>7, ParserStep

(* on_headers_complete keeps the invariant.                                    *)
LEMMA HeadersKeeps ==
  ASSUME TypeOK, ServerInv, NEW c \in Conns, on_headers_complete(c)
  PROVE  TypeOK' /\ ServerInv' /\ AskerStep
<1> DEFINE m == [conn[c] EXCEPT !.phase = "BODY", !.parser = "body"]
<1>1. /\ executing = c /\ conn[c].parser = "headers"
      /\ conn' = [conn EXCEPT ![c] = m]
      /\ UNCHANGED <<req, n_conns, executing, shutting_down, running, poolVars>>
  BY DEF on_headers_complete, TypeOK
<1>2. /\ conn[c] \in ConnType /\ ConnSound(conn[c]) /\ Parsed(conn[c]) /\ ~conn[c].closing
  BY <1>1, ParsedOpen
<1>3. conn[c].owed = 0 /\ conn[c].req # NoReq
  BY <1>1, <1>2 DEF ConnSound, OpenSound, OneSound, TwoSound, Refused, ConnType
<1>4. conn[c].writes = <<>> /\ ~conn[c].sse
  BY <1>1, <1>3, ParsedOpen
<1>5. /\ m \in ConnType /\ m.arena = conn[c].arena /\ m.req = conn[c].req
      /\ m.owed = 0 /\ ~m.closing
      /\ ConnSound(m) /\ Parsed(m)
  BY <1>1, <1>2, <1>3, <1>4
  DEF ConnType, ConnSound, StructSound, OpenSound, OneSound, TwoSound, Refused, Parsed, OneAnswer, Phases
<1> HIDE DEF m
<1>6. ~Awaits(m)
  BY <1>5 DEF Awaits
<1>7. req' \in [Reqs -> ReqType] /\ req' = CancelClosing(conn')
  BY <1>1, <1>2, <1>5, NothingCloses DEF TypeOK
<1>8. QED
  BY <1>1, <1>3, <1>5, <1>6, <1>7, ParserStep

(* Setting r->path leaves what the invariant reads of the requests.            *)
LEMMA PathSet ==
  ASSUME NEW f \in [Reqs -> ReqType], NEW q \in Reqs
  PROVE  LET g == [f EXCEPT ![q].path = TRUE]
         IN  /\ g \in [Reqs -> ReqType]
             /\ \A r \in Reqs : g[r].conn = f[r].conn /\ (g[r].cancelled <=> f[r].cancelled)
BY DEF ReqType

(* When a message is complete the parsed connection has exactly that message   *)
(* to answer.                                                                  *)
LEMMA MessageUnanswered ==
  ASSUME TypeOK, ServerInv, NEW c \in Conns, MessageCompletes(c), NEW keep \in BOOLEAN, NEW up \in BOOLEAN
  PROVE  /\ executing = c /\ Unanswered(Completed(conn[c], keep, up))
         /\ Completed(conn[c], keep, up).arena = conn[c].arena
         /\ Completed(conn[c], keep, up).req = conn[c].req
         /\ conn[c].owed = 0 /\ conn[c].req \in Reqs
<1>1. executing = c /\ conn[c].parser = "body" /\ conn[c].owed < MaxOwed
  BY DEF MessageCompletes
<1>2. conn[c] \in ConnType /\ ConnSound(conn[c]) /\ Parsed(conn[c])
  BY <1>1, ParsedOpen
<1>3. QED
  BY <1>1, <1>2, CompletedUnanswered

(* The three ways conn_request_dispatch answers on the loop thread, by         *)
(* conn_send_simple, inline, or as a live-reload stream, keep the invariant.   *)
LEMMA DispatchAnswers ==
  ASSUME TypeOK, ServerInv, NEW c \in Conns, NEW keep \in BOOLEAN, NEW up \in BOOLEAN,
         DispatchSimple(c, keep, up) \/ DispatchInline(c, keep, up) \/ DispatchLive(c, keep, up)
  PROVE  TypeOK' /\ ServerInv' /\ AskerStep
<1> DEFINE q == Completed(conn[c], keep, up)
<1>1. MessageCompletes(c)
  BY DEF DispatchSimple, DispatchInline, DispatchLive
<1>2. /\ executing = c /\ Unanswered(q) /\ q.arena = conn[c].arena /\ q.req = conn[c].req
      /\ conn[c].owed = 0 /\ conn[c].req \in Reqs
  BY <1>1, MessageUnanswered
<1>3. \E m : /\ m \in ConnType /\ ConnSound(m) /\ Parsed(m)
             /\ m.arena = q.arena /\ m.req = q.req /\ ~Awaits(m)
             /\ conn' = [conn EXCEPT ![c] = m]
             /\ req' = [CancelClosing(conn') EXCEPT ![conn[c].req].path = TRUE]
             /\ UNCHANGED <<n_conns, executing, shutting_down, running, poolVars>>
  <2>1. CASE DispatchSimple(c, keep, up)
    <3>1. /\ conn' = [conn EXCEPT ![c] = conn_send_simple(q, FALSE)]
          /\ req' = [CancelClosing(conn') EXCEPT ![conn[c].req].path = TRUE]
          /\ UNCHANGED <<n_conns, executing, shutting_down, running, poolVars>>
      BY <2>1 DEF DispatchSimple, TypeOK
    <3> HIDE DEF q
    <3>2. QED
      BY <1>2, <3>1, SimpleAnswers
  <2>2. CASE DispatchInline(c, keep, up)
    <3>1. /\ conn' = [conn EXCEPT ![c] = conn_start_response(q)]
          /\ req' = [CancelClosing(conn') EXCEPT ![conn[c].req].path = TRUE]
          /\ UNCHANGED <<n_conns, executing, shutting_down, running, poolVars>>
      BY <2>2 DEF DispatchInline, TypeOK
    <3> HIDE DEF q
    <3>2. QED
      BY <1>2, <3>1, ResponseAnswers
  <2>3. CASE DispatchLive(c, keep, up)
    <3>1. /\ conn' = [conn EXCEPT ![c] = send_live_sse(q)]
          /\ req' = [CancelClosing(conn') EXCEPT ![conn[c].req].path = TRUE]
          /\ UNCHANGED <<n_conns, executing, shutting_down, running, poolVars>>
      BY <2>3 DEF DispatchLive, TypeOK
    <3> HIDE DEF q
    <3>2. QED
      BY <1>2, <3>1, StreamAnswers
  <2>4. QED
    BY <2>1, <2>2, <2>3
<1> HIDE DEF q
<1>4. PICK m : /\ m \in ConnType /\ ConnSound(m) /\ Parsed(m)
               /\ m.arena = q.arena /\ m.req = q.req /\ ~Awaits(m)
               /\ conn' = [conn EXCEPT ![c] = m]
               /\ req' = [CancelClosing(conn') EXCEPT ![conn[c].req].path = TRUE]
               /\ UNCHANGED <<n_conns, executing, shutting_down, running, poolVars>>
  BY <1>3
<1>5. /\ req' \in [Reqs -> ReqType]
      /\ \A r \in Reqs : /\ req'[r].conn = CancelClosing(conn')[r].conn
                         /\ req'[r].cancelled <=> CancelClosing(conn')[r].cancelled
  <2> DEFINE f == CancelClosing(conn')
  <2>1. f \in [Reqs -> ReqType]
    BY CancelClosingType
  <2> HIDE DEF f
  <2>2. req' = [f EXCEPT ![conn[c].req].path = TRUE]
    BY <1>4 DEF f
  <2>3. /\ req' \in [Reqs -> ReqType]
        /\ \A r \in Reqs : req'[r].conn = f[r].conn /\ (req'[r].cancelled <=> f[r].cancelled)
    BY <1>2, <2>1, <2>2, PathSet
  <2>4. QED
    BY <2>3 DEF f
<1>6. QED
  BY <1>2, <1>4, <1>5, ParserStep

(* A connection that awaits the pool has a request.                            *)
LEMMA AwaitedRequest ==
  ASSUME TypeOK, ServerInv, NEW c \in Conns, Awaits(conn[c])
  PROVE  conn[c].req \in Reqs
<1>1. conn[c] \in ConnType /\ ConnSound(conn[c])
  BY DEF TypeOK, ServerInv, LinkInv
<1>2. ~Refused(conn[c])
  BY <1>1, AwaitsBody
<1>3. QED
  BY <1>1, <1>2 DEF Awaits, ConnSound, OpenSound, OneSound, ConnType

(* The request in a connection's arena, and its current request, name that     *)
(* connection as their own.                                                    *)
LEMMA OwnerOf ==
  ASSUME TypeOK, LinkInv, NEW c \in Conns, NEW r \in Reqs,
         conn[c].arena = r \/ conn[c].req = r
  PROVE  req[r].conn = c /\ conn[c].arena = r
BY ServerAssumption DEF TypeOK, LinkInv, ConnSound, StructSound, ArenaOwned

(* A connection that enters the list unread, with nothing awaited and no       *)
(* arena, and is counted, keeps the invariant.                                 *)
LEMMA AcceptedKeeps ==
  ASSUME TypeOK, ServerInv, NEW c \in Conns, ~conn[c].live, NEW m \in ConnType,
         ConnSound(m), m.live, ~m.closing, m.arena = NoReq, m.owed = 0,
         ~shutting_down, executing = NoConn, n_conns' = n_conns + 1,
         conn' = [conn EXCEPT ![c] = m],
         UNCHANGED <<req, executing, shutting_down, running, poolVars>>
  PROVE  TypeOK' /\ ServerInv' /\ AskerStep
<1>1. \A d \in Conns : conn'[d] = IF d = c THEN m ELSE conn[d]
  BY DEF TypeOK
<1>2. PoolDistinct' /\ PoolTypeOK' /\ \A r \in Reqs : InPool(r)' <=> InPool(r)
  BY PoolSame
<1>3. m.req = NoReq /\ ~Awaits(m)
  BY DEF ConnSound, StructSound, Awaits
<1>4. ~Expects(conn[c])
  BY DEF Expects, Awaits, Overtaken
<1>5. LinkInv'
  <2>1. \A d \in Conns : ConnSound(conn'[d])
    BY <1>1 DEF ServerInv, LinkInv
  <2>2. ArenaOwned'
    BY <1>1 DEF ServerInv, LinkInv, ArenaOwned
  <2>3. ASSUME NEW r \in Reqs, InPool(r)' PROVE PoolRequest(r)'
    BY <1>1, <1>2, <1>4, <2>3, ServerAssumption DEF ServerInv, LinkInv, PoolRequest
  <2>4. AwaitedInPool'
    <3> SUFFICES ASSUME NEW d \in Conns, Awaits(conn[d])'
                 PROVE  (InPool(conn[d].req) /\ ~req[conn[d].req].cancelled)'
      BY DEF AwaitedInPool
    <3>1. d # c /\ Awaits(conn[d]) /\ conn'[d] = conn[d]
      BY <1>1, <1>3
    <3>2. InPool(conn[d].req) /\ ~req[conn[d].req].cancelled
      BY <3>1 DEF ServerInv, LinkInv, AwaitedInPool
    <3>3. QED
      BY <3>1, <3>2 DEF InPool, poolVars
  <2>5. OpenNotCancelled'
    BY <1>1, <1>3 DEF ServerInv, LinkInv, OpenNotCancelled
  <2>6. QED
    BY <1>2, <2>1, <2>2, <2>3, <2>4, <2>5 DEF LinkInv
<1>6. NConnsExact'
  <2>1. Cardinality(Live') = Cardinality(Live) + 1
    BY <1>1, LiveEnters
  <2>2. QED
    BY <2>1 DEF ServerInv, NConnsExact
<1>7. ExecutingInv' /\ NoNewWorkAfterShutdown'
  BY DEF ExecutingInv, NoNewWorkAfterShutdown
<1>8. TypeOK'
  BY <1>1, <1>2 DEF TypeOK
<1>9. AskerStep
  <2> SUFFICES ASSUME NEW d \in Conns, Len(conn'[d].writes) > Len(conn[d].writes)
               PROVE  d = c /\ completed' = completed
    BY DEF AskerStep, ServerInv, LinkInv, ConnSound, StructSound, FreeConn
  <2>1. Len(conn[d].writes) \in Nat
    BY WritesLen DEF TypeOK
  <2>2. QED
    BY <1>1, <2>1, PoolSame
<1>10. QED
  BY <1>5, <1>6, <1>7, <1>8, <1>9 DEF ServerInv

(* cerco_connection_cb keeps the invariant, below the limit and at it (503).   *)
LEMMA ConnectionKeeps ==
  ASSUME TypeOK, ServerInv, NEW c \in Conns, cerco_connection_cb(c)
  PROVE  TypeOK' /\ ServerInv' /\ AskerStep
<1> DEFINE k == [FreeConn EXCEPT !.live = TRUE]
           p == [k EXCEPT !.reading = TRUE]
           s == conn_send_simple(k, TRUE)
<1>1. /\ ~conn[c].live /\ ~shutting_down /\ executing = NoConn /\ n_conns' = n_conns + 1
      /\ UNCHANGED <<req, executing, shutting_down, running, poolVars>>
      /\ conn' = [conn EXCEPT ![c] = s] \/ conn' = [conn EXCEPT ![c] = p]
  BY DEF cerco_connection_cb, AtPoll
<1>2. /\ k \in ConnType /\ k.live /\ ~k.closing /\ ~k.half /\ k.owed = 0
      /\ k.writes = <<>> /\ k.arena = NoReq /\ k.req = NoReq /\ ~k.close_cb_done /\ ~k.sse
      /\ k.phase = "HEADERS" /\ k.parser = "start"
  BY FreeConnSound DEF FreeConn, ConnType
<1>3. /\ p \in ConnType /\ p.live /\ ~p.closing /\ ~p.half /\ p.owed = 0
      /\ p.writes = <<>> /\ p.arena = NoReq /\ p.req = NoReq /\ ~p.close_cb_done /\ ~p.sse
      /\ p.phase = "HEADERS" /\ p.parser = "start"
  BY <1>2 DEF ConnType
<1> HIDE DEF p
<1>4. ConnSound(p)
  BY <1>3 DEF ConnSound, StructSound, OpenSound, OneSound, TwoSound, Refused
<1> HIDE DEF k
<1>5. ConnSound(k)
  BY <1>2 DEF ConnSound, StructSound, OpenSound, OneSound, TwoSound, Refused
<1>6. /\ s \in ConnType /\ ConnSound(s) /\ s.live /\ ~s.closing /\ s.arena = NoReq /\ s.owed = 0
  <2>1. ~Refused(k)
    BY <1>2 DEF Refused
  <2>2. QED
    BY <1>2, <1>5, <2>1, RefusalSound
<1> HIDE DEF s
<1>7. QED
  BY <1>1, <1>3, <1>4, <1>6, AcceptedKeeps

(* The request of an open connection that does not wait for an answer is not   *)
(* in the pool: its memory may be used for the next message.                   *)
LEMMA NotInPool ==
  ASSUME TypeOK, LinkInv, NEW c \in Conns, NEW r \in Reqs, conn[c].arena = r,
         ~conn[c].closing, ~Refused(conn[c]), conn[c].req = r => conn[c].owed = 0
  PROVE  ~InPool(r)
<1> SUFFICES ASSUME InPool(r) PROVE FALSE
  OBVIOUS
<1>1. PoolRequest(r)
  BY DEF LinkInv
<1>2. req[r].conn = c
  BY OwnerOf
<1>3. QED
  BY <1>1, <1>2 DEF PoolRequest, Expects, Awaits, Overtaken

(* on_message_begin sets up a request in memory no worker can still refer to,  *)
(* and keeps the invariant.                                                    *)
LEMMA MessageBeginKeeps ==
  ASSUME TypeOK, ServerInv, NEW c \in Conns, NEW r \in Reqs, on_message_begin(c, r)
  PROVE  TypeOK' /\ ServerInv' /\ AskerStep
<1> DEFINE m == [conn[c] EXCEPT !.req = r, !.arena = r, !.phase = "HEADERS",
                                !.parser = "headers"]
           q == [conn |-> c, cancelled |-> FALSE, path |-> FALSE]
<1>1. /\ executing = c /\ conn[c].req = NoReq
      /\ conn' = [conn EXCEPT ![c] = m] /\ req' = [req EXCEPT ![r] = q]
      /\ conn[c].arena = r \/ (~InPool(r) /\ \A d \in Conns : conn[d].arena # r)
      /\ UNCHANGED <<n_conns, executing, shutting_down, running, poolVars>>
  BY DEF on_message_begin, TypeOK
<1>2. /\ conn[c] \in ConnType /\ ConnSound(conn[c]) /\ Parsed(conn[c])
      /\ running /\ ~shutting_down
      /\ conn[c].live /\ ~conn[c].closing /\ ~conn[c].half /\ LinkInv
      /\ ~Refused(conn[c]) /\ OneSound(conn[c])
  BY <1>1, ParsedOpen DEF ServerInv
<1>3. conn[c].owed = 0 /\ ~conn[c].close_cb_done
  BY <1>1, <1>2 DEF ConnSound, OneSound, StructSound, ConnType
<1>4. conn[c].writes = <<>> /\ ~conn[c].sse /\ ~conn[c].status_sent
  BY <1>1, <1>2, <1>3, ParsedOpen DEF Parsed
<1>5. /\ m \in ConnType /\ m.arena = r /\ m.req = r
      /\ m.owed = 0 /\ ~m.closing /\ ~m.close_cb_done /\ ~m.half /\ m.live /\ ~m.sse
      /\ m.phase = "HEADERS" /\ m.parser = "headers" /\ ~m.status_sent /\ m.writes = <<>>
  BY <1>1, <1>2, <1>3, <1>4 DEF ConnType, Phases
<1>6. q \in ReqType /\ q.conn = c /\ ~q.cancelled
  BY DEF ReqType
<1> HIDE DEF m, q
<1>7. ConnSound(m) /\ Parsed(m) /\ ~Awaits(m)
  BY <1>5, ServerAssumption DEF ConnSound, StructSound, OpenSound, OneSound, TwoSound, Refused, Parsed, Awaits
<1>8. /\ \A d \in Conns : conn'[d] = IF d = c THEN m ELSE conn[d]
      /\ \A x \in Reqs : req'[x] = IF x = r THEN q ELSE req[x]
  BY <1>1 DEF TypeOK
<1>9. ~InPool(r)
  BY <1>1, <1>2, <1>3, NotInPool
<1>10. \A d \in Conns : d # c => conn[d].arena # r /\ conn[d].req # r
  BY <1>1, <1>2, OwnerOf
<1>11. PoolDistinct' /\ PoolTypeOK' /\ \A x \in Reqs : InPool(x)' <=> InPool(x)
  BY <1>1, PoolSame
<1>12. LinkInv'
  <2>1. \A d \in Conns : ConnSound(conn'[d])
    BY <1>2, <1>7, <1>8 DEF LinkInv
  <2>2. ArenaOwned'
    <3> SUFFICES ASSUME NEW d \in Conns, conn'[d].arena # NoReq
                 PROVE  req'[conn'[d].arena].conn = d
      BY DEF ArenaOwned
    <3>1. CASE d = c
      BY <1>5, <1>6, <1>8, <3>1
    <3>2. CASE d # c
      <4>1. conn'[d].arena = conn[d].arena /\ conn[d].arena \in Reqs /\ conn[d].arena # r
        BY <1>8, <1>10, <3>2 DEF TypeOK, ConnType
      <4>2. QED
        BY <1>2, <1>8, <4>1 DEF LinkInv, ArenaOwned
    <3>3. QED
      BY <3>1, <3>2
  <2>3. ASSUME NEW x \in Reqs, InPool(x)' PROVE PoolRequest(x)'
    <3>1. x # r /\ req'[x] = req[x] /\ PoolRequest(x)
      BY <1>2, <1>8, <1>9, <1>11, <2>3 DEF LinkInv
    <3>2. ~req[x].cancelled => req[x].conn # c
      BY <1>1, <3>1, ServerAssumption DEF PoolRequest
    <3>3. QED
      BY <1>5, <1>8, <3>1, <3>2 DEF PoolRequest
  <2>4. AwaitedInPool'
    <3> SUFFICES ASSUME NEW d \in Conns, Awaits(conn[d])'
                 PROVE  (InPool(conn[d].req) /\ ~req[conn[d].req].cancelled)'
      BY DEF AwaitedInPool
    <3>1. d # c /\ Awaits(conn[d]) /\ conn'[d] = conn[d]
      BY <1>7, <1>8
    <3>2. PICK x \in Reqs : x = conn[d].req
      BY <3>1, AwaitedRequest
    <3>3. InPool(x) /\ ~req[x].cancelled
      BY <1>2, <3>1, <3>2 DEF LinkInv, AwaitedInPool
    <3>4. InPool(x)' /\ ~req'[x].cancelled
      BY <1>8, <1>10, <1>11, <3>1, <3>2, <3>3
    <3>5. QED
      BY <3>1, <3>2, <3>4 DEF InPool
  <2>5. OpenNotCancelled'
    BY <1>1, <1>2, <1>5, <1>6, <1>8, <1>10 DEF LinkInv, OpenNotCancelled, TypeOK, ConnType
  <2>6. QED
    BY <1>11, <2>1, <2>2, <2>3, <2>4, <2>5 DEF LinkInv
<1>13. Live' = Live
  BY <1>2, <1>5, <1>8, LiveSame
<1>14. NConnsExact' /\ NoNewWorkAfterShutdown' /\ ExecutingInv'
  BY <1>1, <1>2, <1>7, <1>8, <1>13
  DEF ServerInv, NConnsExact, NoNewWorkAfterShutdown, ExecutingInv
<1>15. TypeOK'
  BY <1>1, <1>5, <1>6, <1>8, <1>11 DEF TypeOK
<1>16. AskerStep
  <2>1. \A d \in Conns : Len(conn[d].writes) \in Nat
    BY WritesLen DEF TypeOK
  <2>2. QED
    BY <1>2, <1>4, <1>5, <1>8, <2>1 DEF AskerStep
<1>17. QED
  BY <1>12, <1>14, <1>15, <1>16 DEF ServerInv

(* A request submitted to the pool was not in it, is not cancelled, and its    *)
(* connection waits for it.                                                    *)
LEMMA DispatchWorkKeeps ==
  ASSUME TypeOK, ServerInv, NEW c \in Conns, NEW keep \in BOOLEAN, NEW up \in BOOLEAN, DispatchWork(c, keep, up)
  PROVE  TypeOK' /\ ServerInv' /\ AskerStep
<1> DEFINE m == Completed(conn[c], keep, up)
<1>1. /\ MessageCompletes(c) /\ Accept(conn[c].req)
      /\ conn' = [conn EXCEPT ![c] = m]
      /\ req' = [req EXCEPT ![conn[c].req].path = TRUE]
      /\ UNCHANGED <<n_conns, executing, shutting_down, running>>
  BY DEF DispatchWork, TypeOK
<1>2. /\ executing = c /\ Unanswered(m) /\ m.arena = conn[c].arena /\ m.req = conn[c].req
      /\ conn[c].owed = 0 /\ conn[c].req \in Reqs
  BY <1>1, MessageUnanswered
<1> HIDE DEF m
<1>3. PICK r \in Reqs : r = conn[c].req
  BY <1>2
<1>4. /\ m \in ConnType /\ ConnSound(m) /\ Parsed(m) /\ Awaits(m) /\ m.live
      /\ ~m.closing /\ m.phase = "BODY" /\ m.req = r /\ m.arena = r
  BY <1>2, <1>3 DEF Unanswered, ConnSound, StructSound, OpenSound, OneSound, TwoSound, Refused, Parsed, Awaits
<1>5. /\ conn[c].live /\ ~conn[c].closing /\ LinkInv /\ ~shutting_down /\ running
      /\ ~Refused(conn[c])
  BY <1>2, ParsedOpen DEF ServerInv
<1>6. req[r].conn = c /\ conn[c].arena = r /\ ~InPool(r) /\ ~req[r].cancelled
  BY <1>2, <1>3, <1>5, OwnerOf, NotInPool, ServerAssumption DEF LinkInv, OpenNotCancelled
<1>7. PoolDistinct' /\ PoolTypeOK' /\ \A x \in Reqs : InPool(x)' <=> InPool(x) \/ x = r
  BY <1>1, <1>3, <1>5, <1>6, AcceptPool DEF LinkInv, TypeOK
<1>8. /\ req' \in [Reqs -> ReqType]
      /\ \A x \in Reqs : req'[x].conn = req[x].conn /\ (req'[x].cancelled <=> req[x].cancelled)
  BY <1>1, <1>2, PathSet DEF TypeOK
<1>9. \A d \in Conns : conn'[d] = IF d = c THEN m ELSE conn[d]
  BY <1>1 DEF TypeOK
<1>10. LinkInv'
  <2>1. \A d \in Conns : ConnSound(conn'[d])
    BY <1>4, <1>5, <1>9 DEF LinkInv
  <2>2. ArenaOwned'
    <3> SUFFICES ASSUME NEW d \in Conns, conn'[d].arena # NoReq
                 PROVE  req'[conn'[d].arena].conn = d
      BY DEF ArenaOwned
    <3>1. conn'[d].arena = conn[d].arena /\ conn[d].arena \in Reqs
      BY <1>4, <1>6, <1>9 DEF TypeOK, ConnType
    <3>2. QED
      BY <1>5, <1>8, <3>1 DEF LinkInv, ArenaOwned
  <2>3. ASSUME NEW x \in Reqs, InPool(x)' PROVE PoolRequest(x)'
    <3>1. CASE x = r
      BY <1>4, <1>6, <1>8, <1>9, <3>1 DEF PoolRequest, Expects
    <3>2. CASE x # r
      <4>1. PoolRequest(x)
        BY <1>5, <1>7, <2>3, <3>2 DEF LinkInv
      <4>2. ~req[x].cancelled => req[x].conn # c
        BY <1>3, <3>2, <4>1 DEF PoolRequest
      <4>3. QED
        BY <1>4, <1>8, <1>9, <3>2, <4>1, <4>2 DEF PoolRequest
    <3>3. QED
      BY <3>1, <3>2
  <2>4. AwaitedInPool'
    <3> SUFFICES ASSUME NEW d \in Conns, Awaits(conn[d])'
                 PROVE  (InPool(conn[d].req) /\ ~req[conn[d].req].cancelled)'
      BY DEF AwaitedInPool
    <3>1. CASE d = c
      <4>1. InPool(r)' /\ conn'[d].req = r /\ ~req'[r].cancelled
        BY <1>4, <1>6, <1>7, <1>8, <1>9, <3>1
      <4>2. QED
        BY <4>1 DEF InPool
    <3>2. CASE d # c
      <4>1. Awaits(conn[d]) /\ conn'[d] = conn[d]
        BY <1>9, <3>2
      <4>2. PICK x \in Reqs : x = conn[d].req
        BY <4>1, AwaitedRequest
      <4>3. InPool(x)' /\ ~req'[x].cancelled
        BY <1>5, <1>7, <1>8, <4>1, <4>2 DEF LinkInv, AwaitedInPool
      <4>4. QED
        BY <4>1, <4>2, <4>3 DEF InPool
    <3>3. QED
      BY <3>1, <3>2
  <2>5. OpenNotCancelled'
    BY <1>1, <1>4, <1>5, <1>6, <1>8, <1>9 DEF LinkInv, OpenNotCancelled, TypeOK, ConnType
  <2>6. QED
    BY <1>7, <2>1, <2>2, <2>3, <2>4, <2>5 DEF LinkInv
<1>11. Live' = Live
  BY <1>4, <1>5, <1>9, LiveSame
<1>12. NConnsExact' /\ NoNewWorkAfterShutdown' /\ ExecutingInv'
  BY <1>1, <1>2, <1>4, <1>5, <1>9, <1>11
  DEF ServerInv, NConnsExact, NoNewWorkAfterShutdown, ExecutingInv
<1>13. TypeOK'
  BY <1>1, <1>4, <1>7, <1>8, <1>9 DEF TypeOK
<1>14. AskerStep
  <2>1. \A d \in Conns : Len(conn[d].writes) \in Nat
    BY WritesLen DEF TypeOK
  <2>2. m.writes = <<>> /\ conn[c].writes = <<>>
    BY <1>2, ParsedOpen DEF Unanswered
  <2>3. QED
    BY <1>9, <2>1, <2>2 DEF AskerStep
<1>15. QED
  BY <1>10, <1>12, <1>13, <1>14 DEF ServerInv

(* A completion wpool_drain_completions discards was cancelled; finishing the  *)
(* teardown it deferred keeps the invariant and the count.                     *)
LEMMA DiscardKeeps ==
  ASSUME TypeOK, ServerInv, CollectDiscard
  PROVE  TypeOK' /\ ServerInv' /\ AskerStep
<1> DEFINE r == Head(completed)
<1>1. PoolDistinct' /\ PoolTypeOK' /\ r \in Reqs /\ InPool(r)
      /\ \A x \in Reqs : InPool(x)' <=> InPool(x) /\ x # r
  BY CollectPool DEF CollectDiscard, TypeOK, ServerInv, LinkInv
<1>2. PoolRequest(r)
  BY <1>1 DEF ServerInv, LinkInv
<1>3. PICK c \in Conns : c = req[r].conn
  BY <1>2 DEF PoolRequest
<1> DEFINE m == conn_maybe_finalize(conn[c])
<1>4. /\ Discarded(r) /\ executing' = NoConn
      /\ conn' = [conn EXCEPT ![c] = m]
      /\ n_conns' = IF conn[c].live THEN Uncount(m) ELSE n_conns
      /\ UNCHANGED <<req, shutting_down, running>>
  BY <1>3 DEF CollectDiscard, AtPoll
<1>5. req[r].cancelled
  BY <1>2, <1>3, <1>4 DEF Discarded, PoolRequest, Expects, Awaits, Overtaken
<1> HIDE DEF r
<1>6. conn[c] \in ConnType /\ ConnSound(conn[c])
  BY DEF TypeOK, ServerInv, LinkInv
<1>7. /\ ConnStep(conn[c], m) /\ (m.live => conn[c].live)
      /\ (~conn[c].live => ~m.live) /\ (m.closing => conn[c].closing)
      /\ Len(m.writes) <= Len(conn[c].writes)
  <2>1. CASE Finalizes(conn[c])
    <3>1. conn[c].closing /\ conn[c].live /\ m = FreeConn
      BY <2>1 DEF Finalizes, conn_maybe_finalize
    <3>2. QED
      BY <1>6, <3>1, FinalizeStep DEF FreeConn, ConnStep
  <2>2. CASE ~Finalizes(conn[c])
    BY <1>6, <2>2, SameStep, WritesLen DEF conn_maybe_finalize
  <2>3. QED
    BY <2>1, <2>2
<1> HIDE DEF m
<1>8. CancelStep
  <2>1. \A d \in Conns : conn'[d].closing => conn[d].closing
    BY <1>4, <1>7 DEF TypeOK
  <2>2. QED
    BY <1>4, <2>1, RequestsKept
<1>9. \A x \in Reqs : InPool(x) /\ ~req[x].cancelled => InPool(x)'
  BY <1>1, <1>5
<1>10. QED
  BY <1>1, <1>4, <1>7, <1>8, <1>9, OneConnStep DEF Uncount

(* The response of a request that was overtaken by the 400 to its upgrade is   *)
(* queued behind it, or closes the connection that drains by now.              *)
LEMMA OvertakenResponds ==
  ASSUME NEW k \in ConnType, ConnSound(k), Overtaken(k)
  PROVE  LET m == conn_start_response(k)
         IN  /\ m \in ConnType /\ ConnSound(m) /\ m.live /\ m.arena = k.arena
             /\ m.req = k.req /\ ~Awaits(m)
             /\ ~k.half => ~m.closing
             /\ k.half => m.closing /\ m.writes = k.writes
<1> DEFINE p == [k EXCEPT !.phase = "WRITE"]
           m == conn_start_response(k)
<1>1. m = Write(p, "response") /\ "response" \in WriteKinds /\ "response" # "sse"
  BY DEF conn_start_response, WriteKinds
<1>2. /\ p \in ConnType /\ p.live /\ ~p.closing /\ (p.half <=> k.half) /\ ~p.sse
      /\ p.arena = k.arena /\ p.req = k.req /\ p.owed = k.owed /\ p.writes = k.writes
      /\ p.phase = "WRITE" /\ Refused(p) /\ (p.close_cb_done <=> k.close_cb_done)
  BY DEF ConnType, Phases, Overtaken, Refused
<1>3. /\ StructSound(k) /\ TwoSound(k) /\ Len(k.writes) <= 1 /\ Len(k.writes) \in Nat
      /\ ~k.close_cb_done
  BY WritesLen DEF Overtaken, ConnSound, OpenSound, StructSound
<1> HIDE DEF p, m
<1>4. CASE k.half
  <2>1. m = [p EXCEPT !.closing = TRUE, !.sse = FALSE, !.reading = FALSE]
    BY <1>1, <1>2, <1>4 DEF Write, conn_close_and_free
  <2>2. /\ m \in ConnType /\ m.live /\ m.closing /\ m.half /\ ~m.sse /\ ~m.reading
        /\ m.arena = k.arena /\ m.req = k.req /\ m.writes = k.writes /\ m.phase = "WRITE"
        /\ Refused(m) /\ ~m.close_cb_done
    BY <1>2, <1>3, <1>4, <2>1 DEF ConnType, Refused
  <2>3. StructSound(m)
    BY <1>3, <2>2 DEF StructSound
  <2>4. QED
    BY <1>4, <2>2, <2>3 DEF m, ConnSound, Awaits
<1>5. CASE ~k.half
  <2>1. /\ m \in ConnType /\ m = [p EXCEPT !.writes = m.writes] /\ m.writes # <<>>
        /\ Len(m.writes) = Len(p.writes) + 1 /\ m.writes[Len(p.writes) + 1] = "response"
        /\ \A i \in 1 .. Len(p.writes) : m.writes[i] = p.writes[i]
    BY <1>1, <1>2, <1>5, WriteOpen
  <2>2. /\ m.live /\ ~m.closing /\ ~m.half /\ ~m.sse /\ ~m.close_cb_done
        /\ m.arena = k.arena /\ m.req = k.req /\ m.owed = k.owed /\ m.phase = "WRITE"
        /\ Refused(m)
    BY <1>2, <1>3, <1>5, <2>1 DEF ConnType, Refused
  <2>3. /\ Len(m.writes) <= 2 /\ Len(k.writes) + 1 \in 1 .. Len(m.writes)
        /\ \A i \in 1 .. Len(m.writes) : i \in 1 .. Len(k.writes) \/ i = Len(k.writes) + 1
    BY <1>2, <1>3, <2>1
  <2>4. \A i \in 1 .. Len(k.writes) : k.writes[i] # "sse"
    BY <1>2, <1>3 DEF TwoSound, Overtaken
  <2>5. /\ \A i \in 1 .. Len(m.writes) : m.writes[i] # "sse"
        /\ \E i \in 1 .. Len(m.writes) : m.writes[i] # "sse"
    BY <1>1, <1>2, <2>1, <2>3, <2>4
  <2>6. TwoSound(m)
    BY <1>3, <2>2, <2>3, <2>5 DEF TwoSound
  <2>7. StructSound(m)
    BY <1>3, <2>2 DEF StructSound
  <2>8. QED
    BY <1>5, <2>1, <2>2, <2>6, <2>7 DEF m, ConnSound, OpenSound, Awaits
<1>6. QED
  BY <1>4, <1>5

(* A completion that is not discarded belongs to the connection it names,      *)
(* which waits for it with nothing queued, or was refused an upgrade.          *)
LEMMA RespondKeeps ==
  ASSUME TypeOK, ServerInv, CollectRespond
  PROVE  TypeOK' /\ ServerInv' /\ AskerStep
<1> DEFINE r == Head(completed)
<1>1. PoolDistinct' /\ PoolTypeOK' /\ r \in Reqs /\ InPool(r)
      /\ \A x \in Reqs : InPool(x)' <=> InPool(x) /\ x # r
  BY CollectPool DEF CollectRespond, TypeOK, ServerInv, LinkInv
<1>2. PoolRequest(r)
  BY <1>1 DEF ServerInv, LinkInv
<1>3. PICK c \in Conns : c = req[r].conn
  BY <1>2 DEF PoolRequest
<1> DEFINE k == conn[c]
           m == conn_start_response(k)
<1>4. /\ ~Discarded(r) /\ executing' = NoConn
      /\ Become(c, m)
      /\ UNCHANGED <<n_conns, executing, shutting_down, running>>
  BY <1>3 DEF CollectRespond, AtPoll
<1>5. /\ ~req[r].cancelled /\ Expects(k) /\ k.req = r /\ k.live /\ ~k.closing
      /\ ~k.half => k.owed = 1
  BY <1>2, <1>3, <1>4 DEF Discarded, PoolRequest, Expects, Awaits, Overtaken
<1> HIDE DEF r
<1>6. k \in ConnType /\ ConnSound(k) /\ LinkInv
  BY DEF TypeOK, ServerInv, LinkInv
<1>7. /\ m \in ConnType /\ ConnSound(m) /\ m.live /\ m.arena = k.arena /\ m.req = k.req
      /\ ~Awaits(m) /\ (~k.half => ~m.closing) /\ (k.half => m.closing /\ m.writes = k.writes)
  <2>1. CASE Awaits(k)
    <3>1. Unanswered(k) /\ ~k.half
      <4>1. k.phase = "BODY" /\ ~Refused(k)
        BY <1>6, <2>1, AwaitsBody
      <4>2. QED
        BY <1>1, <1>5, <1>6, <2>1, <4>1, ServerAssumption
        DEF Unanswered, Awaits, ConnSound, StructSound, OpenSound, OneSound
    <3>2. QED
      BY <3>1, ResponseAnswers DEF Parsed
  <2>2. CASE Overtaken(k)
    BY <1>6, <2>2, OvertakenResponds
  <2>3. QED
    BY <1>5, <2>1, <2>2 DEF Expects
<1> HIDE DEF m
<1>8. ~k.half => ~shutting_down
  <2>1. ~k.half => k.phase = "BODY"
    BY <1>5, <1>6, AwaitsBody DEF Expects, Overtaken
  <2>2. QED
    BY <1>5, <2>1 DEF ServerInv, NoNewWorkAfterShutdown, Live
<1>9. conn' = [conn EXCEPT ![c] = m] /\ \A d \in Conns : conn'[d] = IF d = c THEN m ELSE conn[d]
  BY <1>4 DEF Become, TypeOK
<1>10. \A d \in Conns : d # c => conn[d].req # r
  BY <1>1, <1>3, <1>6, OwnerOf
<1>11. /\ req' \in [Reqs -> ReqType]
       /\ \A x \in Reqs : /\ req'[x].conn = req[x].conn
                          /\ x # r \/ ~k.half => (req'[x].cancelled <=> req[x].cancelled)
  <2>1. req' = CancelClosing(conn')
    BY <1>4 DEF Become
  <2>2. req' \in [Reqs -> ReqType]
    BY <2>1, CancelClosingType
  <2> SUFFICES ASSUME NEW x \in Reqs
               PROVE  /\ req'[x].conn = req[x].conn
                      /\ x # r \/ ~k.half => (req'[x].cancelled <=> req[x].cancelled)
    BY <2>2
  <2> DEFINE hit == \E d \in Conns : /\ conn'[d].closing /\ ~conn[d].closing
                                    /\ conn'[d].req = x
  <2>3. req'[x] = IF hit THEN [req[x] EXCEPT !.cancelled = TRUE] ELSE req[x]
    BY <2>1 DEF CancelClosing
  <2>4. x # r \/ ~k.half => ~hit
    BY <1>5, <1>7, <1>9
  <2> HIDE DEF hit
  <2>5. QED
    BY <2>3, <2>4 DEF TypeOK, ReqType
<1>12. LinkInv'
  <2>1. \A d \in Conns : ConnSound(conn'[d])
    BY <1>6, <1>7, <1>9 DEF LinkInv
  <2>2. ArenaOwned'
    <3> SUFFICES ASSUME NEW d \in Conns, conn'[d].arena # NoReq
                 PROVE  req'[conn'[d].arena].conn = d
      BY DEF ArenaOwned
    <3>1. conn'[d].arena = conn[d].arena /\ conn[d].arena \in Reqs
      BY <1>7, <1>9 DEF TypeOK, ConnType
    <3>2. QED
      BY <1>6, <1>11, <3>1 DEF LinkInv, ArenaOwned
  <2>3. ASSUME NEW x \in Reqs, InPool(x)' PROVE PoolRequest(x)'
    <3>1. PoolRequest(x) /\ x # r
      BY <1>1, <1>6, <2>3 DEF LinkInv
    <3>2. ~req[x].cancelled => req[x].conn # c
      BY <1>5, <3>1 DEF PoolRequest
    <3>3. conn[c].arena = r
      BY <1>1, <1>5, <1>6, OwnerOf
    <3>4. QED
      BY <1>7, <1>9, <1>11, <3>1, <3>2, <3>3 DEF PoolRequest
  <2>4. AwaitedInPool'
    <3> SUFFICES ASSUME NEW d \in Conns, Awaits(conn[d])'
                 PROVE  (InPool(conn[d].req) /\ ~req[conn[d].req].cancelled)'
      BY DEF AwaitedInPool
    <3>1. d # c /\ Awaits(conn[d]) /\ conn'[d] = conn[d]
      BY <1>7, <1>9
    <3>2. PICK x \in Reqs : x = conn[d].req
      BY <3>1, AwaitedRequest
    <3>3. InPool(x) /\ ~req[x].cancelled
      BY <1>6, <3>1, <3>2 DEF LinkInv, AwaitedInPool
    <3>4. x # r
      BY <1>10, <3>1, <3>2
    <3>5. InPool(x)' /\ ~req'[x].cancelled
      BY <1>1, <1>11, <3>3, <3>4
    <3>6. QED
      BY <3>1, <3>2, <3>5 DEF InPool
  <2>5. OpenNotCancelled'
    <3> SUFFICES ASSUME ~shutting_down, NEW d \in Conns, conn'[d].req # NoReq, ~conn'[d].closing
                 PROVE  ~req'[conn'[d].req].cancelled
      BY <1>4 DEF OpenNotCancelled
    <3>1. /\ conn'[d].req = conn[d].req /\ ~conn[d].closing
          /\ d = c => ~k.half
      BY <1>5, <1>7, <1>9
    <3>2. conn[d].req \in Reqs /\ (conn[d].req = r => ~k.half)
      BY <1>10, <3>1 DEF TypeOK, ConnType
    <3>3. QED
      BY <1>6, <1>11, <3>1, <3>2 DEF LinkInv, OpenNotCancelled
  <2>6. QED
    BY <1>1, <2>1, <2>2, <2>3, <2>4, <2>5 DEF LinkInv
<1>13. Live' = Live
  BY <1>5, <1>7, <1>9, LiveSame
<1>14. NConnsExact' /\ ExecutingInv'
  BY <1>4, <1>13 DEF ServerInv, NConnsExact, ExecutingInv
<1>15. NoNewWorkAfterShutdown'
  <2> SUFFICES ASSUME shutting_down, NEW d \in Conns, conn'[d].live
               PROVE  Winding(conn'[d])
    BY <1>4 DEF NoNewWorkAfterShutdown, Winding, Live
  <2>1. CASE d = c
    BY <1>7, <1>8, <1>9, <2>1 DEF Winding
  <2>2. CASE d # c
    BY <1>9, <2>2 DEF ServerInv, NoNewWorkAfterShutdown, Winding, Live
  <2>3. QED
    BY <2>1, <2>2
<1>16. TypeOK'
  BY <1>1, <1>4, <1>7, <1>9, <1>11 DEF TypeOK
<1>17. AskerStep
  <2> SUFFICES ASSUME NEW d \in Conns, Len(conn'[d].writes) > Len(conn[d].writes)
               PROVE  d = c /\ ~k.half
    BY <1>5 DEF AskerStep, r
  <2>1. Len(conn[d].writes) \in Nat
    BY WritesLen DEF TypeOK
  <2>2. QED
    BY <1>7, <1>9, <2>1
<1>18. QED
  BY <1>12, <1>14, <1>15, <1>16, <1>17 DEF ServerInv

(* The workers only move requests within the pool.                             *)
LEMMA WorkerKeeps ==
  ASSUME TypeOK, ServerInv, NEW w \in Workers, WorkerTakes(w) \/ WorkerFinishes(w)
  PROVE  TypeOK' /\ ServerInv' /\ AskerStep
<1>1. PoolTypeOK' /\ PoolDistinct' /\ \A r \in Reqs : InPool(r)' <=> InPool(r)
  BY TakePool, FinishPool DEF WorkerTakes, WorkerFinishes, TypeOK, ServerInv, LinkInv
<1>2. UNCHANGED <<conn, req, n_conns, executing, shutting_down, running>>
  BY DEF WorkerTakes, WorkerFinishes, loopVars
<1>3. CancelStep
  BY <1>2, RequestsKept
<1>4. \A c \in Conns : ConnStep(conn[c], conn'[c])
  BY <1>2, SameStep DEF TypeOK, ServerInv, LinkInv
<1>5. LinkInv'
  BY <1>1, <1>2, <1>3, <1>4, LinkStep DEF ServerInv
<1>6. Live' = Live
  BY <1>2, LiveSame
<1>7. NConnsExact' /\ NoNewWorkAfterShutdown' /\ ExecutingInv'
  BY <1>2, <1>6 DEF ServerInv, NConnsExact, NoNewWorkAfterShutdown, ExecutingInv
<1>8. AskerStep
  <2>1. \A d \in Conns : Len(conn[d].writes) \in Nat
    BY WritesLen DEF TypeOK
  <2>2. QED
    BY <1>2, <2>1 DEF AskerStep
<1>9. QED
  BY <1>1, <1>2, <1>5, <1>7, <1>8 DEF ServerInv, TypeOK

(* A loop callback over all the connections that takes a ConnStep on each      *)
(* keeps the invariant.                                                        *)
LEMMA AllConnsStep ==
  ASSUME TypeOK, ServerInv, conn' \in [Conns -> ConnType],
         \A c \in Conns : ConnStep(conn[c], conn'[c]) /\ (conn'[c].live <=> conn[c].live),
         CancelStep, executing' = NoConn, running' \in BOOLEAN, shutting_down' \in BOOLEAN,
         shutting_down => shutting_down', NoNewWorkAfterShutdown',
         UNCHANGED <<n_conns, poolVars>>
  PROVE  TypeOK' /\ ServerInv' /\ AskerStep
<1>1. PoolTypeOK' /\ PoolDistinct' /\ \A r \in Reqs : InPool(r)' <=> InPool(r)
  BY PoolSame
<1>2. LinkInv'
  BY <1>1, LinkStep DEF ServerInv
<1>3. Live' = Live
  BY LiveSame
<1>4. NConnsExact' /\ ExecutingInv'
  BY <1>3 DEF ServerInv, NConnsExact, ExecutingInv
<1>5. AskerStep
  <2> SUFFICES ASSUME NEW d \in Conns, Len(conn'[d].writes) > Len(conn[d].writes)
               PROVE  ~conn[d].closing
    BY PoolSame DEF AskerStep
  <2>1. Len(conn[d].writes) \in Nat /\ Len(conn'[d].writes) \in Nat
    BY WritesLen DEF TypeOK, ConnStep
  <2>2. QED
    BY <2>1 DEF ConnStep
<1>6. QED
  BY <1>1, <1>2, <1>4, <1>5 DEF ServerInv, TypeOK, CancelStep

(* on_sweep, with deadlines and a reload broadcast in one callback, keeps it.  *)
LEMMA SweepKeeps ==
  ASSUME TypeOK, ServerInv, NEW late \in SUBSET Conns, NEW reload \in BOOLEAN,
         NEW overdue \in BOOLEAN, on_sweep(late, reload, overdue)
  PROVE  TypeOK' /\ ServerInv' /\ AskerStep
<1>1. /\ late \subseteq {c \in Live : ~conn[c].closing}
      /\ req' = CancelClosing(conn') /\ executing' = NoConn /\ running' \in BOOLEAN
      /\ UNCHANGED <<n_conns, shutting_down, poolVars>>
      /\ conn' = [c \in Conns |-> IF reload THEN Reloaded(Swept(conn[c], c \in late))
                                            ELSE Swept(conn[c], c \in late)]
  BY DEF on_sweep, SweepConns, AtPoll
<1>2. ASSUME NEW c \in Conns
      PROVE  ConnStep(conn[c], conn'[c]) /\ (conn'[c].live <=> conn[c].live)
  <2>1. conn[c] \in ConnType /\ ConnSound(conn[c])
    BY DEF TypeOK, ServerInv, LinkInv
  <2>2. c \in late => conn[c].live /\ ~conn[c].closing
    BY <1>1 DEF Live
  <2> DEFINE s == Swept(conn[c], c \in late)
  <2>3. /\ ConnStep(conn[c], s) /\ (s.live <=> conn[c].live)
        /\ s.closing \/ s = conn[c]
    <3>1. CASE c \in late
      <4>1. s = Swept(conn[c], TRUE)
        BY <3>1 DEF Swept
      <4>2. QED
        BY <2>1, <2>2, <3>1, <4>1, SweptStep
    <3>2. CASE c \notin late
      <4>1. s = conn[c]
        BY <3>2 DEF Swept
      <4>2. QED
        BY <2>1, <4>1, SameStep
    <3>3. QED
      BY <3>1, <3>2
  <2> HIDE DEF s
  <2>4. ConnStep(conn[c], Reloaded(s)) /\ (Reloaded(s).live <=> conn[c].live)
    <3>1. CASE s.closing
      <4>1. Reloaded(s) = s
        BY <3>1 DEF Reloaded
      <4>2. QED
        BY <2>3, <4>1
    <3>2. CASE s = conn[c]
      BY <2>1, <3>2, ReloadedStep
    <3>3. QED
      BY <2>3, <3>1, <3>2
  <2>5. conn'[c] = Reloaded(s) \/ conn'[c] = s
    BY <1>1 DEF s
  <2>6. QED
    BY <2>3, <2>4, <2>5
<1>3. conn' \in [Conns -> ConnType]
  BY <1>1, <1>2 DEF ConnStep
<1>4. CancelStep
  BY <1>1, <1>2, CancelClosingType, CancelClosingStep
<1>5. NoNewWorkAfterShutdown'
  <2> SUFFICES ASSUME shutting_down', NEW c \in Conns, conn'[c].live
               PROVE  Winding(conn'[c])
    BY DEF NoNewWorkAfterShutdown, Winding, Live
  <2>1. conn[c].live /\ Winding(conn[c])
    BY <1>1, <1>2 DEF ServerInv, NoNewWorkAfterShutdown, Winding, Live
  <2>2. QED
    BY <1>2, <2>1 DEF ConnStep
<1>6. QED
  BY <1>1, <1>2, <1>3, <1>4, <1>5, AllConnsStep DEF TypeOK

(* start_shutdown keeps the invariant and establishes the drain.               *)
LEMMA ShutdownKeeps ==
  ASSUME TypeOK, ServerInv, start_shutdown
  PROVE  TypeOK' /\ ServerInv' /\ AskerStep
<1> DEFINE hit(r) == \E c \in Live : conn[c].req = r /\ ~(conn[c].closing /\
                                     conn[c].phase \in {"IDLE", "HEADERS", "BODY"})
<1>1. /\ shutting_down' = TRUE /\ executing' = NoConn
      /\ conn' = [c \in Conns |-> IF conn[c].live THEN ShutdownConn(conn[c]) ELSE conn[c]]
      /\ req' = [r \in Reqs |-> IF hit(r) THEN [req[r] EXCEPT !.cancelled = TRUE] ELSE req[r]]
      /\ UNCHANGED <<n_conns, running, poolVars>>
  BY DEF start_shutdown, AtPoll
<1>2. ASSUME NEW c \in Conns
      PROVE  conn[c] \in ConnType /\ ConnSound(conn[c])
  BY DEF TypeOK, ServerInv, LinkInv
<1>3. ASSUME NEW c \in Conns
      PROVE  /\ ConnStep(conn[c], conn'[c]) /\ (conn'[c].live <=> conn[c].live)
             /\ conn[c].live => /\ Winding(conn'[c])
                                /\ Awaits(conn[c]) => conn'[c].closing
             /\ ~conn[c].live => conn'[c] = conn[c]
  <2>1. conn[c] \in ConnType /\ ConnSound(conn[c])
    BY <1>2
  <2>2. CASE conn[c].live
    <3>1. conn'[c] = ShutdownConn(conn[c])
      BY <1>1, <2>2
    <3>2. QED
      BY <2>1, <2>2, <3>1, ShutdownStep
  <2>3. CASE ~conn[c].live
    <3>1. conn'[c] = conn[c]
      BY <1>1, <2>3
    <3>2. QED
      BY <2>1, <2>3, <3>1, SameStep
  <2>4. QED
    BY <2>2, <2>3
<1>4. /\ req' \in [Reqs -> ReqType]
      /\ \A r \in Reqs : /\ req'[r].conn = req[r].conn
                         /\ req'[r].cancelled <=> hit(r) \/ req[r].cancelled
  <2>1. ASSUME NEW r \in Reqs
        PROVE  /\ req'[r] \in ReqType /\ req'[r].conn = req[r].conn
               /\ req'[r].cancelled <=> hit(r) \/ req[r].cancelled
    <3>1. req'[r] = IF hit(r) THEN [req[r] EXCEPT !.cancelled = TRUE] ELSE req[r]
      BY <1>1
    <3>2. req[r] \in ReqType
      BY DEF TypeOK
    <3> HIDE DEF hit
    <3>3. QED
      BY <3>1, <3>2 DEF ReqType
  <2> HIDE DEF hit
  <2>2. QED
    BY <1>1, <2>1
<1>5. CancelStep
  <2> SUFFICES ASSUME NEW r \in Reqs
               PROVE  /\ req'[r].cancelled /\ ~req[r].cancelled =>
                           \E c \in Conns : /\ conn[c].req = r
                                            /\ conn'[c].closing \/ ~Awaits(conn[c])
                      /\ \A c \in Conns : conn'[c].closing /\ ~conn[c].closing /\ conn[c].req = r
                            => req'[r].cancelled
    BY <1>1, <1>4 DEF CancelStep
  <2>1. ASSUME req'[r].cancelled, ~req[r].cancelled
        PROVE  \E c \in Conns : conn[c].req = r /\ (conn'[c].closing \/ ~Awaits(conn[c]))
    <3>1. PICK c \in Conns : conn[c].live /\ conn[c].req = r
      BY <1>4, <2>1 DEF Live
    <3>2. QED
      BY <1>3, <3>1
  <2>2. ASSUME NEW c \in Conns, conn'[c].closing, ~conn[c].closing, conn[c].req = r
        PROVE  req'[r].cancelled
    <3>1. conn[c].live
      BY <1>3, <2>2
    <3>2. QED
      BY <1>4, <2>2, <3>1 DEF Live
  <2>3. QED
    BY <2>1, <2>2
<1>6. conn' \in [Conns -> ConnType]
  BY <1>1, <1>3 DEF ConnStep
<1>7. NoNewWorkAfterShutdown'
  <2>1. \A c \in Conns : conn'[c].live => Winding(conn'[c])
    BY <1>3
  <2>2. QED
    BY <2>1 DEF NoNewWorkAfterShutdown, Winding, Live
<1>8. QED
  BY <1>1, <1>3, <1>5, <1>6, <1>7, AllConnsStep DEF TypeOK

(* A stutter, or uv_run having returned, keeps the invariant.                  *)
LEMMA NothingKeeps ==
  ASSUME TypeOK, ServerInv, UNCHANGED vars
  PROVE  TypeOK' /\ ServerInv' /\ AskerStep
BY ExecutingMoves DEF vars, loopVars, TypeOK, ServerInv, ExecutingInv

-----------------------------------------------------------------------------
(* The server starts with no connection, no request and an empty pool.         *)
LEMMA InitEstablishes == Init => TypeOK /\ ServerInv
<1> SUFFICES ASSUME Init PROVE TypeOK /\ ServerInv
  OBVIOUS
<1>1. /\ queue = <<>> /\ completed = <<>> /\ hand = [w \in Workers |-> NoReq]
      /\ conn = [c \in Conns |-> FreeConn]
      /\ req = [r \in Reqs |-> [conn |-> NoConn, cancelled |-> FALSE, path |-> FALSE]]
      /\ n_conns = 0 /\ executing = NoConn /\ shutting_down = FALSE /\ running = TRUE
  BY DEF Init, PoolInit
<1>2. Len(queue) = 0 /\ Len(completed) = 0 /\ queue \in Seq(Reqs) /\ completed \in Seq(Reqs)
  BY <1>1, EmptySeq
<1>3. PoolTypeOK
  BY <1>1, <1>2, ServerAssumption DEF PoolTypeOK
<1>4. TypeOK
  BY <1>1, <1>3, FreeConnSound DEF TypeOK, ReqType
<1>5. PoolDistinct /\ \A r \in Reqs : ~InPool(r)
  BY <1>1, <1>2, ServerAssumption DEF PoolDistinct, InPool
<1>6. ~FreeConn.live /\ FreeConn.arena = NoReq /\ FreeConn.req = NoReq
  BY DEF FreeConn
<1>7. LinkInv
  BY <1>1, <1>5, <1>6, FreeConnSound
  DEF LinkInv, ArenaOwned, AwaitedInPool, Awaits, OpenNotCancelled
<1>8. Live = {}
  BY <1>1, <1>6 DEF Live
<1>9. NConnsExact
  BY <1>1, <1>8, FS_EmptySet DEF NConnsExact
<1>10. ExecutingInv /\ NoNewWorkAfterShutdown
  BY <1>1 DEF ExecutingInv, NoNewWorkAfterShutdown
<1>11. QED
  BY <1>4, <1>7, <1>9, <1>10 DEF ServerInv

(* Every step keeps the invariant and writes only to the connection that asked. *)
LEMMA NextKeeps ==
  ASSUME SequentialClients, TypeOK, ServerInv, [Next]_vars
  PROVE  TypeOK' /\ ServerInv' /\ AskerStep
<1>1. ASSUME NEW c \in Conns, Parse(c) PROVE TypeOK' /\ ServerInv' /\ AskerStep
  <2>1. CASE ExecuteFails(c)
    BY <2>1, ExecuteFailsKeeps
  <2>2. CASE on_message_begin_open(c)
    BY <2>2, MessageOpenKeeps
  <2>3. CASE \E r \in Reqs : on_message_begin(c, r)
    BY <2>3, MessageBeginKeeps
  <2>4. CASE on_headers_complete(c)
    BY <2>4, HeadersKeeps
  <2>5. CASE \E keep, up \in BOOLEAN : DispatchWork(c, keep, up)
    BY <2>5, DispatchWorkKeeps
  <2>6. CASE \E keep, up \in BOOLEAN :
               DispatchSimple(c, keep, up) \/ DispatchInline(c, keep, up) \/ DispatchLive(c, keep, up)
    BY <2>6, DispatchAnswers
  <2>7. QED
    BY <1>1, <2>1, <2>2, <2>3, <2>4, <2>5, <2>6 DEF Parse
<1>2. CASE \E c \in Conns : cerco_connection_cb(c)
  BY <1>2, ConnectionKeeps
<1>3. CASE \E c \in Conns : OnReadEnd(c) \/ OnReadFull(c)
  BY <1>3, OnReadCloses
<1>4. CASE \E c \in Conns : OnReadBytes(c)
  BY <1>4, OnReadBytesKeeps
<1>5. CASE \E c \in Conns, ok \in BOOLEAN : WriteDone(c, ok)
  BY <1>5, WriteDoneKeeps
<1>6. CASE \E c \in Conns : conn_on_stream_closed(c)
  BY <1>6, StreamClosedKeeps
<1>7. CASE ExecuteReturns
  BY <1>7, ExecuteReturnsKeeps
<1>8. CASE CollectDiscard
  BY <1>8, DiscardKeeps
<1>9. CASE CollectRespond
  BY <1>9, RespondKeeps
<1>10. CASE \E w \in Workers : WorkerTakes(w) \/ WorkerFinishes(w)
  BY <1>10, WorkerKeeps
<1>11. CASE Sweep
  BY <1>11, SweepKeeps DEF Sweep
<1>12. CASE start_shutdown
  BY <1>12, ShutdownKeeps
<1>13. CASE Stopped \/ UNCHANGED vars
  BY <1>13, NothingKeeps DEF Stopped
<1>14. QED
  BY <1>1, <1>2, <1>3, <1>4, <1>5, <1>6, <1>7, <1>8, <1>9, <1>10, <1>11, <1>12, <1>13 DEF Next

-----------------------------------------------------------------------------
(* While clients send nothing behind a message they wait for, connections,     *)
(* requests and pool agree in every reachable state, for every number of       *)
(* connections, workers and requests and every capacity.                       *)
THEOREM ServerInvariant == SequentialClients => (Spec => [](TypeOK /\ ServerInv))
<1> SUFFICES ASSUME SequentialClients PROVE Spec => [](TypeOK /\ ServerInv)
  OBVIOUS
<1>1. TypeOK /\ ServerInv /\ [Next]_vars => (TypeOK /\ ServerInv)'
  BY NextKeeps
<1>2. QED
  BY <1>1, InitEstablishes, PTL DEF Spec

(* Every variable of the event loop keeps its type; in particular n_conns,     *)
(* which conn_finalize decrements, never goes below zero.                      *)
THEOREM ServerTypeCorrect == SequentialClients => (Spec => []TypeOK)
<1> SUFFICES ASSUME SequentialClients PROVE Spec => []TypeOK
  OBVIOUS
<1>1. Spec => [](TypeOK /\ ServerInv)
  BY ServerInvariant
<1>2. QED
  BY <1>1, PTL

(* srv->n_conns is the number of linked connections in every reachable state,  *)
(* however a teardown is split among write, close and completion callbacks.    *)
THEOREM NConnsIsExact == SequentialClients => (Spec => []NConnsExact)
<1> SUFFICES ASSUME SequentialClients PROVE Spec => []NConnsExact
  OBVIOUS
<1>1. Spec => [](TypeOK /\ ServerInv)
  BY ServerInvariant
<1>2. TypeOK /\ ServerInv => NConnsExact
  BY DEF ServerInv
<1>3. QED
  BY <1>1, <1>2, PTL

(* A request in the pool that is not cancelled is awaited by its connection,   *)
(* or was overtaken by the 400 to its upgrade.                                 *)
LEMMA ReachesFromInv ==
  ASSUME TypeOK, ServerInv PROVE AnswerReachesItsRequest
<1> SUFFICES ASSUME NEW r \in Reqs, InPool(r), ~req[r].cancelled
             PROVE  LET k == conn[req[r].conn]
                    IN  /\ k.live /\ ~k.closing /\ k.req = r
                        /\ \/ k.phase \in {"BODY", "WORK"} /\ ~k.half
                           \/ k.phase = "DRAIN" /\ k.parser = "upgrade"
  BY DEF AnswerReachesItsRequest
<1>1. PoolRequest(r)
  BY DEF ServerInv, LinkInv
<1>2. PICK c \in Conns : c = req[r].conn
  BY <1>1 DEF PoolRequest
<1>3. Expects(conn[c]) /\ conn[c].req = r
  BY <1>1, <1>2 DEF PoolRequest
<1>4. ConnSound(conn[c]) /\ StructSound(conn[c])
  BY DEF ServerInv, LinkInv, ConnSound
<1>5. CASE Awaits(conn[c])
  <2>1. conn[c].phase = "BODY"
    BY <1>4, <1>5, AwaitsBody
  <2>2. QED
    BY <1>2, <1>3, <1>4, <1>5, <2>1 DEF Awaits, StructSound
<1>6. CASE Overtaken(conn[c])
  BY <1>2, <1>3, <1>4, <1>6 DEF Overtaken, Refused, StructSound
<1>7. QED
  BY <1>3, <1>5, <1>6 DEF Expects

(* A completion that is not cancelled finds the connection it came from alive, *)
(* open and still at that request, although connections are freed and arenas   *)
(* reused while workers run: waiting for it, or draining after the 400 to an   *)
(* upgrade.                                                                    *)
THEOREM AnswerReaches == SequentialClients => (Spec => []AnswerReachesItsRequest)
<1> SUFFICES ASSUME SequentialClients PROVE Spec => []AnswerReachesItsRequest
  OBVIOUS
<1>1. Spec => [](TypeOK /\ ServerInv)
  BY ServerInvariant
<1>2. TypeOK /\ ServerInv => AnswerReachesItsRequest
  BY ReachesFromInv
<1>3. QED
  BY <1>1, <1>2, PTL

(* How many answers each shape of the write queue holds.                       *)
LEMMA AnswersQueuedIs ==
  ASSUME TypeOK, NEW c \in Conns
  PROVE  /\ conn[c].writes = <<>> \/ Stream(conn[c]) => AnswersQueued(c) = 0
         /\ OneAnswer(conn[c]) => AnswersQueued(c) = 1
<1> DEFINE s == conn[c].writes
           S == {i \in 1 .. Len(s) : s[i] # "sse"}
<1>1. AnswersQueued(c) = Cardinality(S)
  BY DEF AnswersQueued
<1>2. s \in Seq(WriteKinds)
  BY DEF TypeOK, ConnType
<1>3. ASSUME s = <<>> \/ Stream(conn[c]) PROVE AnswersQueued(c) = 0
  <2>1. S = {}
    BY <1>3, EmptySeq DEF Stream
  <2>2. QED
    BY <1>1, <2>1, FS_EmptySet
<1>4. ASSUME OneAnswer(conn[c]) PROVE AnswersQueued(c) = 1
  <2>1. s # <<>> /\ Tail(s) = <<>> /\ Head(s) # "sse"
    BY <1>4 DEF OneAnswer
  <2>2. Len(Tail(s)) = Len(s) - 1 /\ Len(s) \in Nat /\ Head(s) = s[1]
    BY <1>2, <2>1, HeadTailProperties
  <2>3. Len(s) = 1
    <3>1. Len(<<>>) = 0
      BY EmptySeq
    <3> HIDE DEF s
    <3>2. QED
      BY <2>1, <2>2, <3>1
  <2>4. S = {1}
    BY <2>1, <2>2, <2>3
  <2>5. QED
    BY <1>1, <2>4, FS_Singleton
<1>5. QED
  BY <1>3, <1>4

(* ... and how many a connection that was refused an upgrade holds.            *)
LEMMA RefusedQueuedIs ==
  ASSUME TypeOK, NEW c \in Conns, TwoSound(conn[c])
  PROVE  /\ AnswersQueued(c) \in 0 .. 2
         /\ ~conn[c].sse /\ Len(conn[c].writes) <= 1 => AnswersQueued(c) <= 1
         /\ conn[c].owed = 1 => AnswersQueued(c) >= 1
<1> DEFINE s == conn[c].writes
           S == {i \in 1 .. Len(s) : s[i] # "sse"}
<1>1. AnswersQueued(c) = Cardinality(S) /\ Len(s) \in Nat
  BY WritesLen DEF AnswersQueued, TypeOK
<1>2. IsFiniteSet(1 .. Len(s)) /\ Cardinality(1 .. Len(s)) = Len(s)
  BY <1>1, FS_Interval
<1>3. IsFiniteSet(S) /\ Cardinality(S) \in Nat /\ Cardinality(S) <= Len(s)
  BY <1>1, <1>2, FS_Subset, FS_CardinalityType
<1>4. conn[c].owed = 1 => S # {}
  BY DEF TwoSound
<1>5. conn[c].sse => Cardinality(S) <= 1
  <2> SUFFICES ASSUME conn[c].sse PROVE Cardinality(S) <= 1
    OBVIOUS
  <2>1. \A i, j \in S : i = j
    BY DEF TwoSound
  <2>2. CASE S = {}
    BY <2>2, FS_EmptySet
  <2>3. CASE S # {}
    <3> HIDE DEF S
    <3>1. PICK i \in S : TRUE
      BY <2>3
    <3>2. S = {i}
      BY <2>1, <3>1
    <3>3. QED
      BY <3>2, FS_Singleton
  <2>4. QED
    BY <2>2, <2>3
<1>6. ~conn[c].sse => Len(s) <= 2
  BY DEF TwoSound
<1>7. S # {} => Cardinality(S) # 0
  BY <1>3, FS_EmptySet
<1> HIDE DEF S
<1>8. QED
  BY <1>1, <1>3, <1>4, <1>5, <1>6, <1>7

(* Answers queued and answers to come add up to at most one, or two behind an  *)
(* upgrade, and to at least one when the client waits.                         *)
LEMMA UnderWayFromInv ==
  ASSUME TypeOK, ServerInv PROVE OneAnswerUnderWay
<1> DEFINE under(c) == AnswersQueued(c) + AnswersComing(c)
<1> SUFFICES ASSUME NEW c \in Conns, conn[c].live, ~conn[c].closing
             PROVE  /\ under(c) <= IF conn[c].parser = "upgrade" THEN 2 ELSE 1
                    /\ conn[c].owed > 0 /\ ~conn[c].sse => under(c) >= 1
  BY DEF OneAnswerUnderWay, Live
<1>1. /\ OpenSound(conn[c]) /\ StructSound(conn[c]) /\ LinkInv
      /\ conn[c].owed \in Nat /\ conn[c].req \in Reqs \cup {NoReq}
  BY DEF ServerInv, LinkInv, ConnSound, TypeOK, ConnType
<1>2. AnswersComing(c) \in {0, 1}
  BY DEF AnswersComing
<1>3. AnswersComing(c) = 1 => Expects(conn[c])
  <2> SUFFICES ASSUME AnswersComing(c) = 1 PROVE Expects(conn[c])
    OBVIOUS
  <2>1. conn[c].req # NoReq /\ InPool(conn[c].req) /\ ~req[conn[c].req].cancelled
    BY DEF AnswersComing
  <2>2. PICK r \in Reqs : r = conn[c].req
    BY <1>1, <2>1
  <2>3. req[r].conn = c /\ PoolRequest(r)
    BY <1>1, <2>1, <2>2, OwnerOf DEF LinkInv
  <2>4. QED
    BY <2>1, <2>2, <2>3 DEF PoolRequest
<1>4. CASE Refused(conn[c])
  <2>1. conn[c].parser = "upgrade" /\ TwoSound(conn[c])
    BY <1>1, <1>4 DEF Refused, OpenSound
  <2>2. /\ AnswersQueued(c) \in 0 .. 2
        /\ ~conn[c].sse /\ Len(conn[c].writes) <= 1 => AnswersQueued(c) <= 1
        /\ conn[c].owed = 1 => AnswersQueued(c) >= 1
    BY <2>1, RefusedQueuedIs
  <2>3. AnswersComing(c) = 1 => ~conn[c].sse /\ Len(conn[c].writes) <= 1
    BY <1>3, EmptySeq DEF Expects, Awaits, Overtaken
  <2>4. conn[c].owed > 0 => conn[c].owed = 1
    BY <1>1, <2>1 DEF TwoSound
  <2>5. QED
    BY <1>2, <2>1, <2>2, <2>3, <2>4
<1>5. CASE ~Refused(conn[c])
  <2>1. OneSound(conn[c]) /\ ~Overtaken(conn[c])
    BY <1>1, <1>5 DEF OpenSound, Overtaken
  <2>2. AnswersComing(c) = 1 => Awaits(conn[c])
    BY <1>3, <2>1 DEF Expects
  <2>3. CASE conn[c].writes = <<>>
    <3>1. AnswersQueued(c) = 0
      BY <2>3, AnswersQueuedIs
    <3>2. conn[c].owed > 0 /\ ~conn[c].sse => Awaits(conn[c])
      BY <1>1, <2>1, <2>3 DEF Awaits, OneSound
    <3>3. Awaits(conn[c]) => AnswersComing(c) = 1
      BY <1>1, <2>1 DEF AnswersComing, LinkInv, AwaitedInPool, Awaits, OneSound
    <3>4. QED
      BY <1>2, <3>1, <3>2, <3>3
  <2>4. CASE conn[c].writes # <<>> /\ OneAnswer(conn[c])
    BY <1>2, <2>2, <2>4, AnswersQueuedIs DEF Awaits
  <2>5. CASE conn[c].writes # <<>> /\ Stream(conn[c])
    BY <1>2, <2>2, <2>5, AnswersQueuedIs DEF Awaits, Stream
  <2>6. QED
    BY <2>1, <2>3, <2>4, <2>5 DEF OneSound
<1>6. QED
  BY <1>4, <1>5

(* A client that waits has an answer under way, in the pool or on the socket,  *)
(* and never two, except for an upgrade, which conn_on_read answers 400 while  *)
(* the dispatched request is answered as well.                                 *)
THEOREM OneAnswerAlways == SequentialClients => (Spec => []OneAnswerUnderWay)
<1> SUFFICES ASSUME SequentialClients PROVE Spec => []OneAnswerUnderWay
  OBVIOUS
<1>1. Spec => [](TypeOK /\ ServerInv)
  BY ServerInvariant
<1>2. TypeOK /\ ServerInv => OneAnswerUnderWay
  BY UnderWayFromInv
<1>3. QED
  BY <1>1, <1>2, PTL

(* After conn_close_graceful a connection only drains: none of its bytes are   *)
(* parsed, nothing is queued on it but the second answer of an upgrade, and a  *)
(* completion that arrives then closes it.                                     *)
THEOREM DrainSilent == SequentialClients => (Spec => []DrainIsSilent)
<1> SUFFICES ASSUME SequentialClients PROVE Spec => []DrainIsSilent
  OBVIOUS
<1>1. Spec => [](TypeOK /\ ServerInv)
  BY ServerInvariant
<1>2. TypeOK /\ ServerInv => DrainIsSilent
  <2> SUFFICES ASSUME TypeOK, ServerInv, NEW c \in Conns, conn[c].half
               PROVE  /\ executing # c
                      /\ conn[c].phase = "DRAIN" \/ conn[c].closing
                      /\ conn[c].writes # <<>> => conn[c].parser = "upgrade"
    BY DEF DrainIsSilent, Live
  <2>1. StructSound(conn[c])
    BY DEF ServerInv, LinkInv, ConnSound
  <2>2. executing # c
    BY ServerAssumption DEF ServerInv, ExecutingInv, Parsed
  <2>3. QED
    BY <2>1, <2>2 DEF StructSound, Refused
<1>3. QED
  BY <1>1, <1>2, PTL

(* After start_shutdown every linked connection is closing, draining or        *)
(* writing its last answer.                                                    *)
THEOREM NoNewWork == SequentialClients => (Spec => []NoNewWorkAfterShutdown)
<1> SUFFICES ASSUME SequentialClients PROVE Spec => []NoNewWorkAfterShutdown
  OBVIOUS
<1>1. Spec => [](TypeOK /\ ServerInv)
  BY ServerInvariant
<1>2. TypeOK /\ ServerInv => NoNewWorkAfterShutdown
  BY DEF ServerInv
<1>3. QED
  BY <1>1, <1>2, PTL

(* No step queues a write on a closing connection, and a completion is written *)
(* only to the connection whose unanswered request it is.                      *)
THEOREM OnlyToAsker == SequentialClients => (Spec => AnswerOnlyToAsker)
<1> SUFFICES ASSUME SequentialClients PROVE Spec => AnswerOnlyToAsker
  OBVIOUS
<1>1. Spec => [](TypeOK /\ ServerInv)
  BY ServerInvariant
<1>2. TypeOK /\ ServerInv /\ [Next]_vars =>
        [\A c \in Conns : Len(conn'[c].writes) > Len(conn[c].writes) =>
           /\ ~conn[c].closing
           /\ completed' # completed => /\ conn[c].req = Head(completed)
                                        /\ conn[c].owed > 0]_vars
  BY NextKeeps DEF AskerStep
<1>3. QED
  BY <1>1, <1>2, PTL DEF Spec, AnswerOnlyToAsker
=============================================================================
