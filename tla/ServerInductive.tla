--------------------------- MODULE ServerInductive ---------------------------
(* The inductive invariant of Server: what its safety properties rest on, in   *)
(* parts that each relate the fields of one connection, or connections,        *)
(* request objects and pool.  A run checks it and ServerProofs proves it.      *)
EXTENDS Server

-----------------------------------------------------------------------------
(* What may be queued on a connection that is not closing: nothing, a single   *)
(* answer, or chunks of a live-reload stream.                                  *)
OneAnswer(k) == k.writes # <<>> /\ Tail(k.writes) = <<>> /\ Head(k.writes) # "sse"
Stream(k) == k.sse /\ \A i \in 1 .. Len(k.writes) : k.writes[i] = "sse"

(* conn_on_read has answered 400 to an upgrade, whose message it had           *)
(* dispatched before.                                                          *)
Refused(k) == k.parser = "upgrade" /\ k.status_sent /\ k.force_close

(* A struct that is not linked is as memset left it; a request is in the       *)
(* arena; a half-closed connection drains and has nothing queued, unless it    *)
(* was refused an upgrade.                                                     *)
StructSound(k) ==
  /\ ~k.live => k = FreeConn
  /\ k.req # NoReq => k.req = k.arena
  /\ k.closing => ~k.reading /\ ~k.sse
  /\ k.close_cb_done => k.closing
  /\ k.phase = "DRAIN" => k.half
  /\ k.half => k.phase = "DRAIN" \/ (k.closing /\ Refused(k))
  /\ k.half => k.writes = <<>> \/ Refused(k)

(* The phase of an open connection, its parser and its queue agree on whether  *)
(* a message waits for its answer.                                             *)
OneSound(k) ==
  /\ k.phase # "WORK"
  /\ k.owed <= 1
  /\ k.owed = 1 => /\ k.req # NoReq /\ k.parser \in {"start", "upgrade"}
                   /\ k.phase \in {"BODY", "WRITE"}
  /\ k.parser \in {"headers", "body"} => k.req # NoReq
  /\ k.parser = "body" => k.phase \in {"BODY", "DRAIN"}
  /\ k.phase = "WRITE" => k.owed = 1 /\ OneAnswer(k)
  /\ k.sse => k.owed = 1
  /\ k.writes = <<>> \/ (OneAnswer(k) /\ ~k.sse) \/ Stream(k)
  /\ k.writes # <<>> => k.owed = 1 \/ (k.status_sent /\ k.force_close)

(* After the 400 to an upgrade: that answer and the one of the dispatched      *)
(* request, or of the live-reload stream it opened, in the order they were     *)
(* queued.  The first to be written half-closes the connection.                *)
TwoSound(k) ==
  /\ k.phase # "WORK"
  /\ k.owed <= 1
  /\ k.owed = 1 => \E i \in 1 .. Len(k.writes) : k.writes[i] # "sse"
  /\ ~k.sse => Len(k.writes) <= 2 /\ \A i \in 1 .. Len(k.writes) : k.writes[i] # "sse"
  /\ k.sse => \A i, j \in 1 .. Len(k.writes) :
                k.writes[i] # "sse" /\ k.writes[j] # "sse" => i = j

OpenSound(k) == IF Refused(k) THEN TwoSound(k) ELSE OneSound(k)

ConnSound(k) == StructSound(k) /\ (~k.closing => OpenSound(k))

(* The connection has a request that only the pool can answer.                 *)
Awaits(k) ==
  k.live /\ ~k.closing /\ k.owed = 1 /\ ~k.sse /\ k.writes = <<>>

(* The connection was refused an upgrade while the pool still has its request. *)
Overtaken(k) ==
  /\ k.live /\ ~k.closing /\ Refused(k) /\ ~k.sse
  /\ Len(k.writes) <= 1
  /\ k.phase = "BODY" \/ (k.phase = "DRAIN" /\ k.half)
  /\ ~k.half => k.owed = 1

(* A completion finds the connection in one of these two states.               *)
Expects(k) == Awaits(k) \/ Overtaken(k)

(* The connection being parsed is open and, until its message is complete,     *)
(* has nothing queued.                                                         *)
Parsed(k) ==
  /\ k.live /\ ~k.closing /\ ~k.half /\ k.phase # "DRAIN" /\ ~Refused(k)
  /\ k.owed = 0 => ~k.status_sent

(* A request is in one place of the pool at most.                              *)
PoolDistinct ==
  /\ \A i, j \in 1 .. Len(queue) : queue[i] = queue[j] => i = j
  /\ \A i, j \in 1 .. Len(completed) : completed[i] = completed[j] => i = j
  /\ \A v, w \in Workers : hand[v] = hand[w] /\ hand[v] # NoReq => v = w
  /\ \A i \in 1 .. Len(queue), w \in Workers : queue[i] # hand[w]
  /\ \A i \in 1 .. Len(queue), j \in 1 .. Len(completed) : queue[i] # completed[j]
  /\ \A w \in Workers, j \in 1 .. Len(completed) : hand[w] # completed[j]

(* The memory of a connection names it as its owner, so no two share memory.   *)
ArenaOwned ==
  \A c \in Conns : conn[c].arena # NoReq => req[conn[c].arena].conn = c

(* A request in the pool is cancelled or its connection expects it; one that   *)
(* is cancelled belongs to a connection that is closing or gone, or drains     *)
(* after an upgrade.                                                           *)
PoolRequest(r) ==
  /\ req[r].conn \in Conns
  /\ ~req[r].cancelled => Expects(conn[req[r].conn]) /\ conn[req[r].conn].req = r
  /\ req[r].cancelled =>
       \A c \in Conns : conn[c].arena = r => conn[c].closing \/ Refused(conn[c])

AwaitedInPool ==
  \A c \in Conns : Awaits(conn[c]) =>
    InPool(conn[c].req) /\ ~req[conn[c].req].cancelled

(* A request is cancelled because its connection closes, or by a shutdown.     *)
OpenNotCancelled ==
  ~shutting_down =>
    \A c \in Conns : conn[c].req # NoReq /\ ~conn[c].closing => ~req[conn[c].req].cancelled

(* The part of the invariant that relates connections, requests and pool.      *)
LinkInv ==
  /\ \A c \in Conns : ConnSound(conn[c])
  /\ PoolDistinct
  /\ ArenaOwned
  /\ \A r \in Reqs : InPool(r) => PoolRequest(r)
  /\ AwaitedInPool
  /\ OpenNotCancelled

(* The connection being parsed.                                                *)
ExecutingInv ==
  executing # NoConn => running /\ ~shutting_down /\ Parsed(conn[executing])

ServerInv == LinkInv /\ ExecutingInv /\ NoNewWorkAfterShutdown /\ NConnsExact
=============================================================================
