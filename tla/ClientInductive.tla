-------------------------- MODULE ClientInductive --------------------------
(* The inductive invariant of Client: what holds of its calls, heap, handlers  *)
(* and pages at every step, and makes the properties of Client hold.           *)
EXTENDS Client

(* The browser has exactly the requests of the fetches in use under way, so an *)
(* id is never in two of them; each pending server-function call of a fetch is *)
(* that fetch's alone (dom.c 312-386, sf.c 125-151, host.js 142-165).  table,  *)
(* net and pend are a fetch table, the browser's requests, the pending calls.  *)
Matched(table, net) ==
  net = {[id |-> i, req |-> table[i]] : i \in {j \in FetchIds : table[j] # None}}

SfMatched(table, pend) ==
  \A i \in FetchIds :
    table[i] # None /\ table[i].cb = "sf" =>
      /\ pend[table[i].user] = table[i].el
      /\ \A j \in FetchIds \ {i} :
           table[j] # None /\ table[j].cb = "sf" => table[j].user # table[i].user

CallsInv == Matched(fetches, wire) /\ SfMatched(fetches, sf_pending)

(* Before the boot nothing is allocated, mounted or asked for, and the page is *)
(* that of the location unless a link was clicked already (host.js 265-306).   *)
FreshInv ==
  ~booted =>
    /\ slots = <<>> /\ wire = {}
    /\ heap_ptr = 0 /\ floor = 0 /\ cmd_buf = None /\ sf_body = None
    /\ \A b \in BufIds : bufs[b].cap = 0
    /\ \A e \in Els : listeners[e] = <<>>
    /\ settled => shown = url

(* Blocks of m and of n that do not overlap.                                   *)
Apart(a, m, b, n) == a + m <= b \/ b + n <= a

(* A heap whose pointer is top and whose sticky part ends at fl: the response  *)
(* buffers bs and the server-function body lie in the sticky part, behind      *)
(* scratch; the states of the table lie below top; no two of them overlap.     *)
Bounded(top, fl) == ScratchTop <= fl /\ fl <= top

BufsApart(fl, bs) ==
  \A b \in BufIds : bs[b].cap > 0 =>
    /\ ScratchTop <= bs[b].at /\ bs[b].at + bs[b].cap <= fl
    /\ \A c \in BufIds \ {b} :
         bs[c].cap > 0 => Apart(bs[b].at, bs[b].cap, bs[c].at, bs[c].cap)

BodyApart(fl, bs, body) ==
  body # None =>
    /\ ScratchTop <= body /\ body < fl
    /\ \A b \in BufIds : bs[b].cap > 0 => Apart(body, 1, bs[b].at, bs[b].cap)

StatesApart(top, bs, body, table) ==
  \A i \in DOMAIN table :
    /\ ScratchTop <= table[i].state /\ table[i].state < top
    /\ table[i].state # body
    /\ \A b \in BufIds : bs[b].cap > 0 => Apart(table[i].state, 1, bs[b].at, bs[b].cap)
    /\ \A j \in DOMAIN table \ {i} : table[i].state # table[j].state

HeapOk(top, fl, bs, body, table) ==
  /\ Bounded(top, fl)
  /\ BufsApart(fl, bs)
  /\ BodyApart(fl, bs, body)
  /\ StatesApart(top, bs, body, table)

HeapInv == booted => HeapOk(heap_ptr, floor, bufs, sf_body, slots)

(* The listener of an element of the page region names a slot the table does   *)
(* not have (any more), or the handler mounted for that element.               *)
ListenersInv ==
  \A e \in PageEls(shown) : \A i \in DOMAIN listeners[e] :
    listeners[e][i] < Len(slots) =>
      slots[listeners[e][i] + 1].el = e /\ slots[listeners[e][i] + 1].live

(* Every root of the page region of p has a listener that reaches its handler. *)
Hydrated(p) ==
  \A e \in PageEls(p) : \E h \in Range(slots) : Reaches(e, h) /\ h.el = e

Arrived == shown = path /\ Hydrated(path) /\ \A w \in wire : ~IsNav(w)

(* The one navigation under way is that for the current path, and no handler   *)
(* is left of the page it replaces.                                            *)
UnderWay ==
  /\ slots = <<>>
  /\ \E w \in wire : /\ IsNav(w) /\ w.req.user = path
                     /\ \A v \in wire : IsNav(v) => v = w

SettledInv == booted /\ settled => Arrived \/ UnderWay

ClientInv ==
  /\ TypeOK
  /\ CallsInv
  /\ FreshInv
  /\ HeapInv
  /\ ListenersInv
  /\ SettledInv
=============================================================================
