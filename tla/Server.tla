------------------------------- MODULE Server -------------------------------
(* The event loop of the cerco server and its connections: http.c (accept,    *)
(* parse, respond, close, finalize, deadlines), dispatch.c, the inline        *)
(* endpoints and live-reload stream of sf.c, and the sweep timer and graceful *)
(* shutdown of serve.c.  Dynamic requests go through the worker pool, of      *)
(* which this module uses the promise stated in Pool.                         *)
(*                                                                            *)
(* Every action but the workers' is one callback of the loop thread, except   *)
(* that llhttp_execute is a series of actions, one per parser callback, with  *)
(* executing naming the connection: workers run in between, the loop does     *)
(* not.  A request lives in the arena of its connection at the same address   *)
(* for every message (cerco_arena_reset rewinds, it does not move), so a      *)
(* member of Reqs stands for an arena's memory.                               *)
EXTENDS Pool, Integers, FiniteSets

CONSTANTS
  Conns,          \* cerco_conn structs
  NoConn,         \* "no connection"
  MaxConns,       \* cfg.max_connections
  DevMode,        \* cfg.dev_mode: live reload is served
  AfterComplete,  \* what a client may put in one read behind a complete
                  \* message: "begin" another message, "error" bytes the parser
                  \* rejects
  MaxOwed,        \* bound: complete messages waiting for an answer
  MaxWrites       \* bound: queued writes up to which a reload is broadcast

ASSUME ServerAssumption ==
  /\ Cap \in Nat /\ MaxConns \in Nat /\ MaxOwed \in Nat /\ MaxWrites \in Nat
  /\ IsFiniteSet(Conns)
  /\ DevMode \in BOOLEAN
  /\ NoConn \notin Conns /\ NoReq \notin Reqs
  /\ AfterComplete \subseteq {"begin", "error"}

VARIABLES
  conn,           \* the connection structs
  req,            \* the request objects
  n_conns,        \* srv->n_conns
  executing,      \* the connection inside llhttp_execute, or NoConn
  shutting_down,  \* srv->shutting_down
  running         \* uv_run has not returned

loopVars == <<conn, req, n_conns, executing, shutting_down, running>>
vars == <<loopVars, poolVars>>

Phases == {"HEADERS", "BODY", "WORK", "WRITE", "IDLE", "DRAIN"}

(* A queued uv_write: a response built by conn_start_response, one built by  *)
(* conn_send_simple, or a chunk of the live-reload stream.                   *)
WriteKinds == {"response", "simple", "sse"}

ConnType ==
  [live : BOOLEAN,        \* linked in srv->conns: accepted and not finalized
   phase : Phases,
   req : Reqs \cup {NoReq},    \* c->req
   arena : Reqs \cup {NoReq},  \* c->arena.head
   parser : {"start", "headers", "body", "upgrade"},
   keep_alive : BOOLEAN, force_close : BOOLEAN, status_sent : BOOLEAN,
   reading : BOOLEAN,     \* uv_read_start is in effect
   half : BOOLEAN,        \* uv_shutdown was called: writes fail
   closing : BOOLEAN, close_cb_done : BOOLEAN,
   sse : BOOLEAN,         \* in srv->sse_clients
   writes : Seq(WriteKinds),   \* pending_writes, in the order libuv ends them
   owed : 0 .. MaxOwed,   \* messages parsed and not yet answered
   stale : BOOLEAN]       \* the last message was routed on an older path

ReqType ==
  [conn : Conns \cup {NoConn},
   cancelled : BOOLEAN,
   path : BOOLEAN]        \* r->path is set

TypeOK ==
  /\ PoolTypeOK
  /\ conn \in [Conns -> ConnType]
  /\ req \in [Reqs -> ReqType]
  /\ n_conns \in Nat
  /\ executing \in Conns \cup {NoConn}
  /\ shutting_down \in BOOLEAN
  /\ running \in BOOLEAN

-----------------------------------------------------------------------------
(* The struct after memset in cerco_connection_cb; also what is left of a    *)
(* finalized one, which no code reads except for live (finalized).           *)
FreeConn ==
  [live |-> FALSE, phase |-> "HEADERS", req |-> NoReq, arena |-> NoReq,
   parser |-> "start", keep_alive |-> TRUE, force_close |-> FALSE,
   status_sent |-> FALSE, reading |-> FALSE, half |-> FALSE, closing |-> FALSE,
   close_cb_done |-> FALSE, sse |-> FALSE, writes |-> <<>>, owed |-> 0,
   stale |-> FALSE]

Live == {c \in Conns : conn[c].live}

(* The pool refers to r. *)
InPool(r) ==
  \/ \E i \in 1 .. Len(queue) : queue[i] = r
  \/ \E w \in Workers : hand[w] = r
  \/ \E i \in 1 .. Len(completed) : completed[i] = r

(* The loop is between callbacks. *)
AtPoll == running /\ executing = NoConn

(* conn_close_and_free: mark, leave the reload list, stop reading, uv_close.  *)
conn_close_and_free(k) ==
  IF k.closing THEN k
  ELSE [k EXCEPT !.closing = TRUE, !.sse = FALSE, !.reading = FALSE]

(* Mutant: the request of a closed connection is not cancelled. *)
Mut_CancelClosing(new) == req

(* ... and the request of a connection that is being closed is cancelled. *)
CancelClosing(new) ==
  [r \in Reqs |->
     IF \E c \in Conns : /\ new[c].closing /\ ~conn[c].closing
                         /\ new[c].req = r
     THEN [req[r] EXCEPT !.cancelled = TRUE]
     ELSE req[r]]

(* Mutant: the wrong phase is taken for "a worker holds the request". *)
Mut_Finalizes(k) ==
  /\ k.live
  /\ k.closing
  /\ k.close_cb_done
  /\ k.writes = <<>>
  /\ ~(k.req # NoReq /\ k.phase = "BODY")

(* conn_maybe_finalize: whether it goes on to conn_finalize. *)
Finalizes(k) ==
  /\ k.live
  /\ k.closing
  /\ k.close_cb_done
  /\ k.writes = <<>>
  /\ ~(k.req # NoReq /\ k.phase = "WORK")

conn_maybe_finalize(k) == IF Finalizes(k) THEN FreeConn ELSE k

(* conn_close_graceful: half-close and drain the peer for a moment. *)
conn_close_graceful(k) ==
  IF k.closing THEN k
  ELSE [k EXCEPT !.phase = "DRAIN", !.half = TRUE, !.reading = TRUE]

(* uv_write, which fails at once on a half-closed stream. *)
Write(k, kind) ==
  IF k.half THEN conn_close_and_free(k)
  ELSE [k EXCEPT !.writes = Append(@, kind)]

(* conn_send_simple. *)
conn_send_simple(k, close) ==
  Write([k EXCEPT !.keep_alive = ~close, !.force_close = close,
                  !.status_sent = TRUE], "simple")

(* conn_start_response. *)
conn_start_response(k) == Write([k EXCEPT !.phase = "WRITE"], "response")

(* send_live_sse: the head, then joining the list, then the first chunk. *)
send_live_sse(k) ==
  LET head == Write(k, "sse")
  IN  IF head.closing THEN head
      ELSE Write([head EXCEPT !.sse = TRUE], "sse")

(* Replace connection c by k, cancelling its request if k is now closing. *)
Become(c, k) ==
  LET new == [conn EXCEPT ![c] = k]
  IN  conn' = new /\ req' = CancelClosing(new)

-----------------------------------------------------------------------------
(* cerco_connection_cb. *)
cerco_connection_cb(c) ==
  /\ AtPoll
  /\ ~shutting_down
  /\ ~conn[c].live
  /\ n_conns' = n_conns + 1
  /\ LET k == [FreeConn EXCEPT !.live = TRUE]
     IN  conn' = [conn EXCEPT ![c] =
           IF n_conns + 1 > MaxConns THEN conn_send_simple(k, TRUE)
           ELSE [k EXCEPT !.reading = TRUE]]
  /\ UNCHANGED <<req, executing, shutting_down, running, poolVars>>

(* conn_on_read, nread < 0: end of file or an error. *)
OnReadEnd(c) ==
  /\ AtPoll
  /\ conn[c].live /\ conn[c].reading
  /\ Become(c, conn_close_and_free(conn[c]))
  /\ UNCHANGED <<n_conns, executing, shutting_down, running, poolVars>>

(* conn_on_read after an answer that ends the connection: the bytes are kept *)
(* until the read buffer is full, which closes it.                           *)
OnReadFull(c) ==
  /\ AtPoll
  /\ conn[c].live /\ conn[c].reading
  /\ conn[c].status_sent \/ conn[c].phase = "DRAIN"
  /\ Become(c, conn_close_and_free(conn[c]))
  /\ UNCHANGED <<n_conns, executing, shutting_down, running, poolVars>>

(* Mutant: bytes of a half-closed connection are still parsed. *)
Mut_OnReadBytes(c) ==
  /\ AtPoll
  /\ conn[c].live /\ conn[c].reading
  /\ ~conn[c].status_sent
  /\ conn[c].owed = 0
  /\ executing' = c
  /\ UNCHANGED <<conn, req, n_conns, shutting_down, running, poolVars>>

(* conn_on_read hands the bytes to llhttp_execute.  The client has no        *)
(* request open: it sends the next one when the last was answered.           *)
OnReadBytes(c) ==
  /\ AtPoll
  /\ conn[c].live /\ conn[c].reading
  /\ ~conn[c].status_sent /\ conn[c].phase # "DRAIN"
  /\ conn[c].owed = 0
  /\ executing' = c
  /\ UNCHANGED <<conn, req, n_conns, shutting_down, running, poolVars>>

(* llhttp_execute returns HPE_OK at the end of the bytes. *)
ExecuteReturns ==
  /\ executing # NoConn
  /\ conn[executing].parser # "upgrade"
  /\ executing' = NoConn
  /\ UNCHANGED <<conn, req, n_conns, shutting_down, running, poolVars>>

(* llhttp_execute fails, or a callback returned -1: conn_on_read answers     *)
(* 400, 413, 414 or 431 and closes.  So it does with HPE_PAUSED_UPGRADE,     *)
(* which llhttp returns for an Upgrade or CONNECT request after              *)
(* on_message_complete has dispatched it.                                    *)
ExecuteFails(c) ==
  /\ executing = c
  /\ conn[c].owed = 0 \/ conn[c].parser = "upgrade" \/ "error" \in AfterComplete
  /\ Become(c, conn_send_simple(conn[c], TRUE))
  /\ executing' = NoConn
  /\ UNCHANGED <<n_conns, shutting_down, running, poolVars>>

(* on_message_begin: a request already open stays the connection's request.  *)
on_message_begin_open(c) ==
  /\ executing = c
  /\ conn[c].parser = "start"
  /\ conn[c].req # NoReq
  /\ conn[c].owed = 0 \/ "begin" \in AfterComplete
  /\ conn' = [conn EXCEPT ![c].force_close = TRUE, ![c].parser = "headers"]
  /\ UNCHANGED <<req, n_conns, executing, shutting_down, running, poolVars>>

(* ... otherwise one is set up in the connection's arena, which is allocated *)
(* for its first message.                                                    *)
on_message_begin(c, r) ==
  /\ executing = c
  /\ conn[c].parser = "start"
  /\ conn[c].req = NoReq
  /\ conn[c].arena = r \/ /\ conn[c].arena = NoReq
                          /\ ~InPool(r)
                          /\ \A d \in Conns : conn[d].arena # r
  /\ conn' = [conn EXCEPT ![c].req = r, ![c].arena = r, ![c].phase = "HEADERS",
                          ![c].parser = "headers"]
  /\ req' = [req EXCEPT ![r] = [conn |-> c, cancelled |-> FALSE, path |-> FALSE]]
  /\ UNCHANGED <<n_conns, executing, shutting_down, running, poolVars>>

on_headers_complete(c) ==
  /\ executing = c
  /\ conn[c].parser = "headers"
  /\ conn' = [conn EXCEPT ![c].phase = "BODY", ![c].parser = "body"]
  /\ UNCHANGED <<req, n_conns, executing, shutting_down, running, poolVars>>

(* on_message_complete up to conn_request_dispatch: the keep-alive verdict,  *)
(* and the path, which req_target_path does not replace once it is set.      *)
(* Behind an upgrade (up) the parser accepts nothing more.                   *)
Completed(k, keep, up) ==
  [k EXCEPT !.parser = IF up THEN "upgrade" ELSE "start", !.keep_alive = keep,
            !.owed = @ + 1, !.stale = req[k.req].path]

MessageCompletes(c) ==
  /\ executing = c
  /\ conn[c].parser = "body"
  /\ conn[c].owed < MaxOwed

(* ... dispatched to a worker: a route, a server function, the 404 page. *)
DispatchWork(c, keep, up) ==
  /\ MessageCompletes(c)
  /\ Accept(conn[c].req)
  /\ conn' = [conn EXCEPT ![c] = Completed(@, keep, up)]
  /\ req' = [req EXCEPT ![conn[c].req].path = TRUE]
  /\ UNCHANGED <<n_conns, executing, shutting_down, running>>

(* Mutant: 503 is sent although the job was accepted. *)
Mut_DispatchSimple(c, keep, up) ==
  /\ MessageCompletes(c)
  /\ Accept(conn[c].req)
  /\ LET new == [conn EXCEPT ![c] = conn_send_simple(Completed(@, keep, up), FALSE)]
     IN  /\ conn' = new
         /\ req' = [CancelClosing(new) EXCEPT ![conn[c].req].path = TRUE]
  /\ UNCHANGED <<n_conns, executing, shutting_down, running>>

(* Mutant: a job the ring has no room for is dropped without an answer. *)
Mut_DispatchSilent(c, keep, up) ==
  /\ MessageCompletes(c)
  /\ conn' = [conn EXCEPT ![c] = Completed(@, keep, up)]
  /\ req' = [req EXCEPT ![conn[c].req].path = TRUE]
  /\ UNCHANGED <<n_conns, executing, shutting_down, running, poolVars>>

(* ... answered by conn_send_simple, the connection staying open: 503 when   *)
(* the job ring is full, 204 and 405, and the refusals of sf_dispatch.       *)
DispatchSimple(c, keep, up) ==
  /\ MessageCompletes(c)
  /\ LET new == [conn EXCEPT ![c] = conn_send_simple(Completed(@, keep, up), FALSE)]
     IN  /\ conn' = new
         /\ req' = [CancelClosing(new) EXCEPT ![conn[c].req].path = TRUE]
  /\ UNCHANGED <<n_conns, executing, shutting_down, running, poolVars>>

(* ... answered inline: static asset, health, stats, built-in 404. *)
DispatchInline(c, keep, up) ==
  /\ MessageCompletes(c)
  /\ LET new == [conn EXCEPT ![c] = conn_start_response(Completed(@, keep, up))]
     IN  /\ conn' = new
         /\ req' = [CancelClosing(new) EXCEPT ![conn[c].req].path = TRUE]
  /\ UNCHANGED <<n_conns, executing, shutting_down, running, poolVars>>

(* ... or made a live-reload stream (development mode). *)
DispatchLive(c, keep, up) ==
  /\ MessageCompletes(c)
  /\ DevMode
  /\ LET new == [conn EXCEPT ![c] = send_live_sse(Completed(@, keep, up))]
     IN  /\ conn' = new
         /\ req' = [CancelClosing(new) EXCEPT ![conn[c].req].path = TRUE]
  /\ UNCHANGED <<n_conns, executing, shutting_down, running, poolVars>>

-----------------------------------------------------------------------------
(* Write callbacks.  libuv runs them in order, with an error for those a     *)
(* uv_close cuts short.                                                      *)

Answered(k) == [k EXCEPT !.owed = IF @ = 0 THEN 0 ELSE @ - 1]

(* on_response_written and after_response. *)
on_response_written(k, ok) ==
  IF ~ok THEN conn_maybe_finalize(conn_close_and_free(k))
  ELSE IF k.closing THEN conn_maybe_finalize([k EXCEPT !.req = NoReq])
  ELSE IF k.force_close \/ ~k.keep_alive
    THEN conn_close_graceful(Answered(k))
  ELSE [Answered(k) EXCEPT !.phase = "IDLE", !.req = NoReq, !.status_sent = FALSE,
                           !.force_close = FALSE, !.reading = TRUE]

(* on_simple_written: keep-alive leaves c->req as it is. *)
on_simple_written(k, ok) ==
  IF k.closing THEN conn_maybe_finalize(k)
  ELSE IF ~ok THEN conn_close_and_free(k)
  ELSE IF k.keep_alive /\ ~k.force_close
    THEN [Answered(k) EXCEPT !.phase = "IDLE", !.status_sent = FALSE, !.reading = TRUE]
  ELSE conn_close_graceful(Answered(k))

conn_on_sse_written(k, ok) ==
  IF ~ok /\ ~k.closing THEN conn_close_and_free(k) ELSE conn_maybe_finalize(k)

WriteCallback(k, ok) ==
  LET rest == [k EXCEPT !.writes = Tail(@)]
  IN  CASE Head(k.writes) = "response" -> on_response_written(rest, ok)
        [] Head(k.writes) = "simple"   -> on_simple_written(rest, ok)
        [] Head(k.writes) = "sse"      -> conn_on_sse_written(rest, ok)

(* conn_finalize counts the connection out. *)
Uncount(k) == IF k.live THEN n_conns ELSE n_conns - 1

WriteDone(c, ok) ==
  /\ AtPoll
  /\ conn[c].writes # <<>>
  /\ LET k == WriteCallback(conn[c], ok)
     IN  Become(c, k) /\ n_conns' = Uncount(k)
  /\ UNCHANGED <<executing, shutting_down, running, poolVars>>

(* conn_on_stream_closed; libuv has ended every queued write before. *)
conn_on_stream_closed(c) ==
  /\ AtPoll
  /\ conn[c].closing /\ ~conn[c].close_cb_done
  /\ conn[c].writes = <<>>
  /\ LET k == conn_maybe_finalize([conn[c] EXCEPT !.close_cb_done = TRUE])
     IN  /\ conn' = [conn EXCEPT ![c] = k]
         /\ n_conns' = Uncount(k)
  /\ UNCHANGED <<req, executing, shutting_down, running, poolVars>>

-----------------------------------------------------------------------------
(* Mutant: the cancelled flag is not consulted. *)
Mut_Discarded(r) == LET k == conn[req[r].conn] IN ~k.live \/ k.closing

(* wpool_drain_completions, one completion. *)
Discarded(r) ==
  LET k == conn[req[r].conn] IN req[r].cancelled \/ ~k.live \/ k.closing

(* Mutant: conn_maybe_finalize runs again on a finalized connection. *)
Mut_CollectDiscard ==
  /\ AtPoll
  /\ Collect
  /\ LET r == Head(completed)
         k == conn_maybe_finalize(conn[req[r].conn])
     IN  /\ Discarded(r)
         /\ conn' = [conn EXCEPT ![req[r].conn] = k]
         /\ n_conns' = Uncount(k)
  /\ UNCHANGED <<req, executing, shutting_down, running>>

CollectDiscard ==
  /\ AtPoll
  /\ Collect
  /\ LET r == Head(completed)
         k == conn_maybe_finalize(conn[req[r].conn])
     IN  /\ Discarded(r)
         /\ conn' = [conn EXCEPT ![req[r].conn] = k]
         /\ n_conns' = IF conn[req[r].conn].live THEN Uncount(k) ELSE n_conns
  /\ UNCHANGED <<req, executing, shutting_down, running>>

CollectRespond ==
  /\ AtPoll
  /\ Collect
  /\ LET r == Head(completed)
     IN  /\ ~Discarded(r)
         /\ Become(req[r].conn, conn_start_response(conn[req[r].conn]))
  /\ UNCHANGED <<n_conns, executing, shutting_down, running>>

(* The workers. *)
WorkerTakes(w)    == Take(w) /\ UNCHANGED loopVars
WorkerFinishes(w) == Finish(w) /\ UNCHANGED loopVars

-----------------------------------------------------------------------------
(* on_sweep: the connections in late are past their deadline; in development *)
(* a changed reload file is broadcast to the streams.                        *)
Swept(k, isLate) ==
  IF isLate THEN conn_close_and_free([k EXCEPT !.force_close = TRUE]) ELSE k

Reloaded(k) == IF k.sse /\ ~k.closing THEN Write(k, "sse") ELSE k

SweepConns(late, reload) ==
  LET new == [c \in Conns |->
                IF reload THEN Reloaded(Swept(conn[c], c \in late))
                          ELSE Swept(conn[c], c \in late)]
  IN  conn' = new /\ req' = CancelClosing(new)

CanReload ==
  LET streams == {c \in Conns : conn[c].sse}
  IN  streams # {} /\ \A c \in streams : Len(conn[c].writes) < MaxWrites

Drained == n_conns = 0 /\ queue = <<>>

(* A shutdown ends here: all has drained, or CERCO_SHUTDOWN_TIMEOUT_MS is    *)
(* over (overdue).                                                           *)
on_sweep(late, reload, overdue) ==
  /\ AtPoll
  /\ late \subseteq {c \in Live : ~conn[c].closing}
  /\ reload => DevMode /\ CanReload
  /\ overdue => shutting_down
  /\ SweepConns(late, reload)
  /\ running' = ~(shutting_down /\ (Drained \/ overdue))
  /\ UNCHANGED <<n_conns, executing, shutting_down, poolVars>>

(* Mutant: a connection that is writing keeps its keep-alive. *)
Mut_ShutdownConn(k) ==
  IF k.phase \in {"IDLE", "HEADERS", "BODY"} THEN conn_close_and_free(k) ELSE k

(* start_shutdown, on a signal or on stop_async. *)
ShutdownConn(k) ==
  IF k.phase \in {"IDLE", "HEADERS", "BODY"} THEN conn_close_and_free(k)
  ELSE IF k.req # NoReq THEN [k EXCEPT !.force_close = TRUE]
  ELSE k

start_shutdown ==
  /\ AtPoll
  /\ ~shutting_down
  /\ shutting_down' = TRUE
  /\ conn' = [c \in Conns |-> IF conn[c].live THEN ShutdownConn(conn[c]) ELSE conn[c]]
  /\ req' = [r \in Reqs |->
               IF \E c \in Live : conn[c].req = r /\ ~(conn[c].closing /\
                                    conn[c].phase \in {"IDLE", "HEADERS", "BODY"})
               THEN [req[r] EXCEPT !.cancelled = TRUE] ELSE req[r]]
  /\ UNCHANGED <<n_conns, executing, running, poolVars>>

-----------------------------------------------------------------------------
Init ==
  /\ PoolInit
  /\ conn = [c \in Conns |-> FreeConn]
  /\ req = [r \in Reqs |-> [conn |-> NoConn, cancelled |-> FALSE, path |-> FALSE]]
  /\ n_conns = 0
  /\ executing = NoConn
  /\ shutting_down = FALSE
  /\ running = TRUE

Parse(c) ==
  \/ ExecuteFails(c)
  \/ on_message_begin_open(c)
  \/ \E r \in Reqs : on_message_begin(c, r)
  \/ on_headers_complete(c)
  \/ \E keep, up \in BOOLEAN :
       \/ DispatchWork(c, keep, up) \/ DispatchSimple(c, keep, up)
       \/ DispatchInline(c, keep, up) \/ DispatchLive(c, keep, up)

Sweep == \E late \in SUBSET Conns, reload, overdue \in BOOLEAN :
           on_sweep(late, reload, overdue)

Stopped == ~running /\ UNCHANGED vars

Next ==
  \/ \E c \in Conns : \/ cerco_connection_cb(c)
                      \/ OnReadEnd(c) \/ OnReadFull(c) \/ OnReadBytes(c)
                      \/ Parse(c)
                      \/ \E ok \in BOOLEAN : WriteDone(c, ok)
                      \/ conn_on_stream_closed(c)
  \/ ExecuteReturns
  \/ CollectDiscard \/ CollectRespond
  \/ \E w \in Workers : WorkerTakes(w) \/ WorkerFinishes(w)
  \/ Sweep \/ start_shutdown
  \/ Stopped

Spec == Init /\ [][Next]_vars

-----------------------------------------------------------------------------
(* Properties. *)

(* Answers of c queued for writing. *)
AnswersQueued(c) ==
  Cardinality({i \in 1 .. Len(conn[c].writes) : conn[c].writes[i] # "sse"})

(* 1 when the pool will answer c's current request, 0 otherwise. *)
AnswersComing(c) ==
  IF conn[c].req # NoReq /\ InPool(conn[c].req) /\ ~req[conn[c].req].cancelled
  THEN 1 ELSE 0

(* srv->n_conns, on which the connection limit and the end of a shutdown     *)
(* rest, is the number of linked connections, however a teardown is split    *)
(* among write, close and completion callbacks.                              *)
NConnsExact == n_conns = Cardinality(Live)

(* A completion that is not cancelled finds the connection it came from      *)
(* alive and still at that request: no answer reaches another client or a    *)
(* later request, although structs are pooled and reused while workers run.  *)
(* The connection waits for it, or it asked for an upgrade, was answered 400 *)
(* by conn_on_read meanwhile, and drains.                                    *)
AnswerReachesItsRequest ==
  \A r \in Reqs : InPool(r) /\ ~req[r].cancelled =>
    LET k == conn[req[r].conn]
    IN  /\ k.live /\ ~k.closing /\ k.req = r
        /\ \/ k.phase \in {"BODY", "WORK"} /\ ~k.half
           \/ k.phase = "DRAIN" /\ k.parser = "upgrade"

(* A client that waits for an answer has one under way, in the pool or on    *)
(* the socket.  It has two only for an upgrade, whose 400 conn_on_read adds  *)
(* to the answer of the dispatched request, and never more.                  *)
OneAnswerUnderWay ==
  \A c \in Live : ~conn[c].closing =>
    /\ AnswersQueued(c) + AnswersComing(c) <= IF conn[c].parser = "upgrade" THEN 2 ELSE 1
    /\ conn[c].owed > 0 /\ ~conn[c].sse => AnswersQueued(c) + AnswersComing(c) >= 1

(* Nothing is written to a connection that is being closed, and a completion *)
(* is written only to the connection whose current, unanswered request it    *)
(* is: a struct reused for another client never gets the former one's answer. *)
AnswerOnlyToAsker ==
  [][\A c \in Conns : Len(conn'[c].writes) > Len(conn[c].writes) =>
       /\ ~conn[c].closing
       /\ completed' # completed => /\ conn[c].req = Head(completed)
                                    /\ conn[c].owed > 0]_vars

(* A half-closed connection only drains: it is not parsed, and nothing is    *)
(* queued on it but the second answer of an upgrade; a completion that       *)
(* arrives then closes it.                                                   *)
DrainIsSilent ==
  \A c \in Live : conn[c].half =>
    /\ executing # c
    /\ conn[c].phase = "DRAIN" \/ conn[c].closing
    /\ conn[c].writes # <<>> => conn[c].parser = "upgrade"

(* After start_shutdown every connection is closing or writing its last      *)
(* answer, so no request is read any more and the drain is bounded.           *)
NoNewWorkAfterShutdown ==
  shutting_down => \A c \in Live :
    \/ conn[c].closing
    \/ conn[c].phase = "DRAIN"
    \/ conn[c].phase = "WRITE" /\ conn[c].force_close

-----------------------------------------------------------------------------
(* Liveness.  The loop finishes a callback it is in; libuv ends every write,  *)
(* or else the write is still pending at the connection's deadline, which the *)
(* sweep enforces, as it does the 300 ms of the drain phase; libuv runs every *)
(* close callback; the pool's async handle wakes the loop (WorkerPool); and   *)
(* handlers return.  Strong fairness where other callbacks of the same loop   *)
(* may come in between.  The hard shutdown timeout is not fair.               *)
ExecutesOn == (\E c \in Conns : Parse(c)) \/ ExecuteReturns

WriteEnds(c) ==
  \/ \E ok \in BOOLEAN : WriteDone(c, ok)
  \/ /\ conn[c].writes # <<>> \/ conn[c].phase = "DRAIN"
     /\ on_sweep({c}, FALSE, FALSE)

SweepStops == shutting_down /\ Drained /\ on_sweep({}, FALSE, FALSE)

Fairness ==
  /\ WF_vars(ExecutesOn)
  /\ \A c \in Conns : SF_vars(WriteEnds(c)) /\ SF_vars(conn_on_stream_closed(c))
  /\ SF_vars(CollectDiscard \/ CollectRespond)
  /\ \A w \in Workers : WF_vars(WorkerTakes(w)) /\ WF_vars(WorkerFinishes(w))
  /\ SF_vars(SweepStops)

FairSpec == Spec /\ Fairness

(* A connection that is being closed is finalized, whatever a worker or a    *)
(* write still does with it: the deferred teardown is never forgotten.       *)
ClosingFinalizes ==
  \A c \in Conns : conn[c].closing ~> ~conn[c].closing \/ ~running

(* A complete request is answered, or its connection closes, and no deadline *)
(* is needed for it while it waits for a worker.                             *)
EveryMessageAnswered ==
  \A c \in Conns :
    conn[c].owed > 0 /\ ~conn[c].sse
      ~> conn[c].owed = 0 \/ conn[c].closing \/ ~running

(* A shutdown completes by draining, without the hard timeout. *)
ShutdownStops == shutting_down ~> ~running

-----------------------------------------------------------------------------
(* What comments and documents of the repository say and the code does not   *)
(* do.                                                                       *)

(* http.c, "Connection lifetime": the arena is reset between requests, "so   *)
(* worker references stay valid until completion drain". A request in the    *)
(* pool finds its connection alive, its memory its own and its arena not     *)
(* reset by a half-close.                                                    *)
WorkerKeepsConn ==
  \A r \in Reqs : InPool(r) =>
    LET c == req[r].conn
    IN  conn[c].live /\ conn[c].arena = r /\ ~conn[c].half

(* http.c, "reset (not freed) between requests": a message begins with a     *)
(* request of its own, never routed on what an earlier one left open.        *)
RoutedOnOwnPath == \A c \in Live : ~conn[c].stale

(* The two together are what "Connection lifetime" promises of the arena.    *)
ArenaPerRequest == WorkerKeepsConn /\ RoutedOnOwnPath
=============================================================================
