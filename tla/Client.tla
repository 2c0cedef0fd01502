------------------------------- MODULE Client -------------------------------
(* The WebAssembly client (dom.c, env.c, hydrate.c, sf.c) and its browser      *)
(* host (host.js): hydration, events, fetches, server-function calls and page  *)
(* navigation over a bump heap that navigation rewinds.                        *)
(*                                                                             *)
(* JavaScript runs one task at a time, so an action is one task: a click, the  *)
(* end of a fetch, the boot.  Components are the application's: mounting one   *)
(* allocates its state and registers a handler, a handler does nothing, asks   *)
(* for a URL, calls a server function or navigates.                            *)
(*                                                                             *)
(* A heap address is a number of blocks: scratch, cmd_buf, sf_body and the     *)
(* state of a component take one block each, a response as many as its size.   *)
EXTENDS Integers, Sequences, FiniteSets, SequencesExt

CONSTANTS
  Pages,        \* paths of the application
  Header,       \* [data-cerco] roots of the layout before the page region
  Footer,       \* and behind it
  PageRoots,    \* [Pages -> sequence of roots inside the page region]
  MaxSlots,     \* MAX_EVENT_SLOTS
  MaxFetches,   \* MAX_PENDING_FETCHES
  FetchSlots,   \* FETCH_SLOTS
  SfPendingMax, \* SF_PENDING_MAX
  FetchMax,     \* CERCO_FETCH_MAX, in blocks
  MaxListeners, \* bound: listeners on a layout root up to which users navigate
  None          \* no address, no fetch, nobody

Roots(p) == Header \o PageRoots[p] \o Footer
LayoutEls == Range(Header \o Footer)
PageEls(p) == Range(PageRoots[p])
Els == LayoutEls \cup UNION {PageEls(p) : p \in Pages}

(* The place of an element among the roots of a page, in document order.      *)
RootAt(p, e) == CHOOSE i \in DOMAIN Roots(p) : Roots(p)[i] = e

VARIABLES
  url,        \* location, as the history API has it
  shown,      \* the page whose region is in the document
  booted,     \* cerco_boot has run in this document
  path,       \* g_current_path
  slots,      \* g_slots[0 .. g_slot_count - 1]
  listeners,  \* per element: the slots of its DOM listeners, oldest first
  heap_ptr,   \* env.c
  floor,      \* heap_sticky_floor
  cmd_buf,    \* address or None
  sf_body,    \* address or None
  bufs,       \* g_fetch_bufs and g_fetch_caps
  fetches,    \* g_fetches
  sf_pending, \* g_sf_pending
  wire,       \* requests the browser has under way
  settled     \* history: the last navigation was sent, with no other under way

heapVars == <<heap_ptr, floor, cmd_buf, sf_body, bufs>>
callVars == <<fetches, sf_pending, wire>>
pageVars == <<shown, slots, listeners>>
vars == <<url, booted, path, settled, heapVars, callVars, pageVars>>

FetchIds == 0 .. MaxFetches - 1
SfSlots == 0 .. SfPendingMax - 1
BufIds == 0 .. FetchSlots - 1

(* A handler in the event table: the element it was mounted for, its user      *)
(* pointer, and whether that element is still in the document.                 *)
Handler == [el : Els, state : Nat, live : BOOLEAN]

(* A fetch: its callback, the page, component or pending server-function call  *)
(* it is for, and the component that asked.                                    *)
Request == [cb : {"nav"}, user : Pages, el : {None}]
             \cup [cb : {"get"}, user : Els, el : Els]
             \cup [cb : {"sf"}, user : SfSlots, el : Els]

ASSUME ClientAssumption ==
  /\ {MaxSlots, MaxFetches, FetchSlots, SfPendingMax, FetchMax} \subseteq Nat \ {0}
  /\ MaxListeners \in Nat
  /\ Header \in Seq(Els) /\ Footer \in Seq(Els)
  /\ PageRoots \in [Pages -> Seq(Els)]
  /\ \A p \in Pages : /\ Roots(p) # <<>>
                      /\ IsInjective(Roots(p))
                      /\ Len(Roots(p)) <= MaxSlots
  /\ \A p, q \in Pages : p # q => PageEls(p) \cap PageEls(q) = {}
  /\ None \notin Pages \cup Els \cup Nat \cup Request

TypeOK ==
  /\ url \in Pages /\ shown \in Pages /\ path \in Pages
  /\ booted \in BOOLEAN /\ settled \in BOOLEAN
  /\ slots \in Seq(Handler) /\ Len(slots) <= MaxSlots
  /\ listeners \in [Els -> Seq(0 .. MaxSlots - 1)]
  /\ heap_ptr \in Nat /\ floor \in 0 .. heap_ptr
  /\ cmd_buf \in Nat \cup {None} /\ sf_body \in Nat \cup {None}
  /\ bufs \in [BufIds -> [at : Nat, cap : 0 .. FetchMax]]
  /\ fetches \in [FetchIds -> Request \cup {None}]
  /\ sf_pending \in [SfSlots -> Els \cup {None}]
  /\ \A w \in wire : w.id \in FetchIds /\ w.req \in Request

-----------------------------------------------------------------------------
(* Heap.  Every sticky block is below the floor, so a rewind keeps it, and     *)
(* with it whatever else was allocated before it.  cerco_scratch allocates     *)
(* scratch, sticky, before the first mount or navigation: it is block 0.       *)

ScratchTop == 1

Mut_cerco_alloc_sticky(n) == heap_ptr' = heap_ptr + n /\ UNCHANGED floor
cerco_alloc_sticky(n) == heap_ptr' = heap_ptr + n /\ floor' = heap_ptr + n

(* The document is loaded afresh (first visit, or host_nav_reload): the        *)
(* server's markup of the page at url, no client yet.                          *)
FreshDocument(u) ==
  /\ shown' = u
  /\ booted' = FALSE
  /\ slots' = <<>>
  /\ listeners' = [e \in Els |-> <<>>]
  /\ heap_ptr' = 0 /\ floor' = 0
  /\ cmd_buf' = None /\ sf_body' = None
  /\ bufs' = [b \in BufIds |-> [at |-> 0, cap |-> 0]]
  /\ fetches' = [i \in FetchIds |-> None]
  /\ sf_pending' = [s \in SfSlots |-> None]
  /\ wire' = {}
  /\ settled' = TRUE

Init ==
  /\ url \in Pages
  /\ shown = url /\ path = url
  /\ booted = FALSE
  /\ slots = <<>>
  /\ listeners = [e \in Els |-> <<>>]
  /\ heap_ptr = 0 /\ floor = 0
  /\ cmd_buf = None /\ sf_body = None
  /\ bufs = [b \in BufIds |-> [at |-> 0, cap |-> 0]]
  /\ fetches = [i \in FetchIds |-> None]
  /\ sf_pending = [s \in SfSlots |-> None]
  /\ wire = {}
  /\ settled = TRUE

-----------------------------------------------------------------------------
(* Hydration: the host gives every root a new node id and mounts its           *)
(* component, in document order.  A mount allocates state and calls cerco_on,  *)
(* which takes the next slot, if there is one, and adds a DOM listener, since  *)
(* the handlers map knows nothing of the new id.  The first command ever       *)
(* allocates cmd_buf behind the first state.  table is the event table found,  *)
(* top the heap pointer, heard the listeners found.                            *)

Mut_Mounted(p, top, table) ==
  [i \in 1 .. Len(Roots(p)) |->
     [el |-> Roots(p)[i], state |-> top + i, live |-> TRUE]]

Mounted(p, top, table) ==
  LET n == Min({Len(Roots(p)), MaxSlots - Len(table)})
      State(i) == top + i - 1 + IF cmd_buf = None /\ i > 1 THEN 1 ELSE 0
  IN  [i \in 1 .. n |-> [el |-> Roots(p)[i], state |-> State(i), live |-> TRUE]]

Mut_Heard(p, table, heard) ==
  [e \in Els |->
     LET i == RootAt(p, e)
     IN  IF e \in Range(Roots(p)) /\ Len(table) + i <= MaxSlots
         THEN Append(heard[e], i - 1) ELSE heard[e]]

Heard(p, table, heard) ==
  [e \in Els |->
     LET i == RootAt(p, e)
     IN  IF e \in Range(Roots(p)) /\ Len(table) + i <= MaxSlots
         THEN Append(heard[e], Len(table) + i - 1) ELSE heard[e]]

hydrate_roots(p, top, table, heard) ==
  /\ slots' = table \o Mounted(p, top, table)
  /\ listeners' = Heard(p, table, heard)
  /\ IF cmd_buf = None
     THEN cmd_buf' = top + 1 /\ heap_ptr' = top + Len(Roots(p)) + 1
     ELSE UNCHANGED cmd_buf /\ heap_ptr' = top + Len(Roots(p))

(* boot, cerco_boot: the path is the location, the page the document's own.    *)
cerco_boot ==
  /\ ~booted
  /\ booted' = TRUE
  /\ path' = url
  /\ floor' = ScratchTop
  /\ hydrate_roots(shown, ScratchTop, <<>>, listeners)
  /\ UNCHANGED <<url, shown, settled, sf_body, bufs, callVars>>

-----------------------------------------------------------------------------
(* Fetches.  fetch_reserve takes the first free entry; a full table rejects    *)
(* the request without calling back.  table and net are the fetch table and    *)
(* the browser's requests found, r the callback and user pointer.              *)

Free(table) == {i \in FetchIds : table[i] = None}

Mut_fetch_reserve(table) == 0
fetch_reserve(table) == Min(Free(table))

cerco_http(r, table, net) ==
  IF Free(table) = {} THEN fetches' = table /\ wire' = net
  ELSE LET id == fetch_reserve(table)
       IN  /\ fetches' = [table EXCEPT ![id] = r]
           /\ wire' = net \cup {[id |-> id, req |-> r]}

IsNav(w) == w.req.cb = "nav"

Mut_cerco_events_reset == UNCHANGED slots
cerco_events_reset == slots' = <<>>

(* cerco_navigate: forget the handlers, rewind the heap to low, ask for p.     *)
cerco_navigate(p, low, table, net) ==
  /\ path' = p
  /\ cerco_events_reset
  /\ heap_ptr' = low
  /\ cerco_http([cb |-> "nav", user |-> p, el |-> None], table, net)
  /\ settled' = (Free(table) # {} /\ \A w \in net : ~IsNav(w))
  /\ UNCHANGED <<shown, booted, listeners, cmd_buf, sf_body>>

MayNavigate == \A e \in LayoutEls : Len(listeners[e]) < MaxListeners

(* A link click or popstate: the location changes, then the client navigates.  *)
Link(p) ==
  /\ booted /\ MayNavigate
  /\ url' = p
  /\ cerco_navigate(p, floor, fetches, wire)
  /\ UNCHANGED <<floor, bufs, sf_pending>>

(* Before the boot the click handler prevents the browser's own navigation and *)
(* changes the location, then fails on the missing instance.                   *)
LinkBeforeBoot(p) ==
  /\ ~booted
  /\ url' = p
  /\ settled' = FALSE
  /\ UNCHANGED <<path, booted, heapVars, callVars, pageVars>>

(* cerco_event(id, slot) from one of the listeners of e: a slot beyond the     *)
(* table is ignored, else its handler h runs.  A click on an element is one of *)
(* these calls after the other; they are separate actions here.                *)
Reaches(e, h) == \E i \in DOMAIN listeners[e] :
                   /\ listeners[e][i] < Len(slots)
                   /\ h = slots[listeners[e][i] + 1]

Event(h) == booted /\ \E e \in Range(Roots(shown)) : Reaches(e, h)

EventNavigates(h, p) ==
  /\ Event(h) /\ MayNavigate
  /\ cerco_navigate(p, floor, fetches, wire)
  /\ UNCHANGED <<url, floor, bufs, sf_pending>>

EventFetches(h) ==
  /\ Event(h)
  /\ cerco_http([cb |-> "get", user |-> h.el, el |-> h.el], fetches, wire)
  /\ UNCHANGED <<url, booted, path, settled, heapVars, sf_pending, pageVars>>

Mut_FreeSf == SfSlots
FreeSf == {s \in SfSlots : sf_pending[s] = None}

(* A generated stub: cerco_sf_begin, the arguments, cerco_sf_submit_raw.  The  *)
(* pending call is taken before the fetch, and kept if that is rejected.       *)
EventCallsSf(h) ==
  /\ Event(h)
  /\ IF sf_body = None
     THEN sf_body' = heap_ptr /\ cerco_alloc_sticky(1)
     ELSE UNCHANGED <<sf_body, heap_ptr, floor>>
  /\ IF FreeSf = {} THEN UNCHANGED callVars
     ELSE LET s == Min(FreeSf)
          IN  /\ sf_pending' = [sf_pending EXCEPT ![s] = h.el]
              /\ cerco_http([cb |-> "sf", user |-> s, el |-> h.el], fetches, wire)
  /\ UNCHANGED <<url, booted, path, settled, cmd_buf, bufs, pageVars>>

-----------------------------------------------------------------------------
(* The end of a fetch.  The host asks for a buffer of the body's size, copies  *)
(* the body and calls cerco_fetch_done, in one task.  Buffers are shared by    *)
(* the ids that are equal modulo FETCH_SLOTS and only ever replaced by larger  *)
(* ones, which are sticky; a body over the cap gets none (size 0, as for a     *)
(* failed request).                                                            *)

Sizes == 0 .. FetchMax
Grows(id, size) == bufs[id % FetchSlots].cap < size
TopAfter(id, size) == heap_ptr + IF Grows(id, size) THEN size ELSE 0
Mut_FloorAfter(id, size) == floor
FloorAfter(id, size) == IF Grows(id, size) THEN heap_ptr + size ELSE floor

cerco_fetch_reserve(id, size) ==
  /\ floor' = FloorAfter(id, size)
  /\ bufs' = IF Grows(id, size)
             THEN [bufs EXCEPT ![id % FetchSlots] = [at |-> heap_ptr, cap |-> size]]
             ELSE bufs

FetchDone(id) == [fetches EXCEPT ![id] = None]

(* cerco_fetch_done for a component's request, or a server function's, which   *)
(* gives its pending call back first; an id that is not in use is ignored.     *)
(* The component's callback then does nothing, asks for more or navigates.     *)
Answer(w, size) ==
  /\ fetches[w.id] # None /\ fetches[w.id].cb # "nav"
  /\ sf_pending' = IF fetches[w.id].cb = "sf"
                   THEN [sf_pending EXCEPT ![fetches[w.id].user] = None]
                   ELSE sf_pending
  /\ cerco_fetch_reserve(w.id, size)
  /\ UNCHANGED url

FetchAnswered(w, size) ==
  /\ Answer(w, size)
  /\ \/ fetches' = FetchDone(w.id) /\ wire' = wire \ {w}
     \/ /\ fetches[w.id].cb = "get"
        /\ cerco_http(fetches[w.id], FetchDone(w.id), wire \ {w})
  /\ heap_ptr' = TopAfter(w.id, size)
  /\ UNCHANGED <<booted, path, settled, cmd_buf, sf_body, pageVars>>

CallbackNavigates(w, size, p) ==
  /\ MayNavigate
  /\ Answer(w, size)
  /\ cerco_navigate(p, FloorAfter(w.id, size), FetchDone(w.id), wire \ {w})

(* nav_page_done with a page that has its markers: swap_page replaces the      *)
(* nodes of the region, and everything is hydrated again, the layout too.      *)
PageLands(w, size) ==
  LET table == [i \in DOMAIN slots |->
                  [slots[i] EXCEPT !.live = @ /\ slots[i].el \in LayoutEls]]
      heard == [e \in Els |-> IF e \in LayoutEls THEN listeners[e] ELSE <<>>]
  IN  /\ fetches[w.id] # None /\ fetches[w.id].cb = "nav"
      /\ IsNav(w) /\ size > 0
      /\ fetches' = FetchDone(w.id) /\ wire' = wire \ {w}
      /\ cerco_fetch_reserve(w.id, size)
      /\ shown' = w.req.user
      /\ hydrate_roots(w.req.user, TopAfter(w.id, size), table, heard)
      /\ UNCHANGED <<url, booted, path, settled, sf_body, sf_pending>>

(* nav_page_done with a failure, a body over the cap, or no usable region.     *)
NavFails(w) ==
  /\ fetches[w.id] # None /\ fetches[w.id].cb = "nav"
  /\ FreshDocument(url)
  /\ UNCHANGED <<url, path>>

FetchEnds(w) ==
  \/ \E size \in Sizes :
       \/ FetchAnswered(w, size)
       \/ PageLands(w, size)
       \/ \E p \in Pages : CallbackNavigates(w, size, p)
  \/ NavFails(w)

Next ==
  \/ cerco_boot
  \/ \E p \in Pages : Link(p) \/ LinkBeforeBoot(p)
  \/ \E h \in Range(slots) :
        \/ \E p \in Pages : EventNavigates(h, p)
        \/ EventFetches(h)
        \/ EventCallsSf(h)
  \/ \E w \in wire : FetchEnds(w)

Spec == Init /\ [][Next]_vars

-----------------------------------------------------------------------------
(* No two of the blocks that outlive a navigation (scratch, the server-        *)
(* function body, the response buffers) overlap, and none overlaps the state   *)
(* of a component in the event table, however rewinds, answers and first calls *)
(* of server functions alternate (env.c 161-170, dom.c 361-368).  cmd_buf is   *)
(* not among them: it is allocated once, outside the sticky part.              *)
Span(at, n) == at .. at + n - 1

StickyIntact ==
  LET sticky == {Span(0, ScratchTop)}
                  \cup {Span(bufs[b].at, bufs[b].cap) : b \in {c \in BufIds : bufs[c].cap > 0}}
                  \cup (IF sf_body = None THEN {} ELSE {Span(sf_body, 1)})
      states == {Span(slots[i].state, 1) : i \in DOMAIN slots}
  IN  booted =>
        /\ \A a, b \in sticky : a # b => a \cap b = {}
        /\ \A a \in sticky, b \in states : a \cap b = {}
        /\ Cardinality(states) = Len(slots)
        /\ UNION (sticky \cup states) \subseteq 0 .. heap_ptr - 1

(* An event on an element of the page region runs the handler that was mounted *)
(* for that very element, although slot numbers restart at every navigation    *)
(* and do not when two pages land after it (dom.c 267-287, host.js 61-80).     *)
PageEventsOwn ==
  \A e \in PageEls(shown), h \in Range(slots) :
    Reaches(e, h) => h.el = e /\ h.live

(* Once a navigation that was accepted and had no rival is over, the page of   *)
(* g_current_path is shown and each of its roots is hydrated (hydrate.c 68-140)*)
PageSettled ==
  booted /\ settled /\ (\A w \in wire : ~IsNav(w)) =>
    /\ shown = path
    /\ \A e \in PageEls(shown) : \E h \in Range(slots) : Reaches(e, h) /\ h.el = e

(* The entry of g_fetches that an answer will be given to is that of the       *)
(* request it answers, and every entry in use has an answer to come, although  *)
(* ids are reused (dom.c 312-386, host.js 142-165).                            *)
AnswersMatch ==
  /\ \A w \in wire : fetches[w.id] = w.req
  /\ \A i \in FetchIds : fetches[i] # None => \E w \in wire : w.id = i

(* A server function's answer finds its own pending call (sf.c 125-151).       *)
SfCallsMatch ==
  \A i \in FetchIds :
    fetches[i] # None /\ fetches[i].cb = "sf" =>
      /\ sf_pending[fetches[i].user] = fetches[i].el
      /\ \A j \in FetchIds \ {i} :
           fetches[j] # None /\ fetches[j].cb = "sf" => fetches[j].user # fetches[i].user

-----------------------------------------------------------------------------
(* What the client's documents and comments say, and its code does not keep.   *)

(* include/cerco_client.h:113, "current path tracked by the client router":    *)
(* with no navigation under way the page of g_current_path is shown            *)
(* (hydrate.c 68-82, host.js 264-288).                                         *)
PathIsShown == booted /\ (\A w \in wire : ~IsNav(w)) => shown = path

(* docs/browser-runtime.md:67, "the host adds one real listener per (node,     *)
(* type) pair": an event on a layout element, which navigation never touches,  *)
(* runs the handler mounted for it (dom.c 267-287, host.js 61-80).             *)
LayoutEventsOwn ==
  \A e \in LayoutEls, h \in Range(slots) : Reaches(e, h) => h.el = e

(* docs/memory.md:33, "Concurrent SF calls beyond the slots are rejected       *)
(* rather than queued": a pending call is one that was sent (sf.c 125-145).    *)
SfSlotsHeldByCalls ==
  \A s \in SfSlots :
    sf_pending[s] # None =>
      \E i \in FetchIds : fetches[i] # None /\ fetches[i].cb = "sf" /\ fetches[i].user = s

(* env.c:158, "allocations that survive heap rewinds": the command buffer,     *)
(* which is allocated once and used from then on, shares its block with no     *)
(* component, response or call (dom.c 52-56).                                  *)
CmdBufIntact ==
  booted /\ cmd_buf # None =>
    /\ \A i \in DOMAIN slots : slots[i].state # cmd_buf
    /\ \A b \in BufIds : cmd_buf \notin Span(bufs[b].at, bufs[b].cap)
    /\ sf_body # cmd_buf

(* What the client keeps for itself (its path, handlers, pending calls and     *)
(* command buffer) agrees with the page and the requests it stands for.        *)
ClientStateAgrees ==
  PathIsShown /\ LayoutEventsOwn /\ SfSlotsHeldByCalls /\ CmdBufIntact
=============================================================================
