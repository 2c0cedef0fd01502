------------------------------- MODULE Request ------------------------------
(***************************************************************************)
(* What is computed for one request away from the event loop: the route    *)
(* its path selects (Router), the memory its handler takes (Arena), and    *)
(* the bytes of a server-function call and of its answer (SfCodec).  None  *)
(* of the three depends on the others, so a behaviour follows one of them: *)
(* an input of the router or of the codec is a state with no step, and the *)
(* arena of a connection is followed from request to request.              *)
(***************************************************************************)
EXTENDS Router, Arena, SfCodec

CONSTANTS
  Tables,      \* route tables, as the build writes them
  Paths,       \* request paths
  Methods,     \* request methods
  Values,      \* argument and return values
  MaxArgs,     \* arguments of a call
  Behind,      \* what may lie in the arena behind a request body
  Messages,    \* error messages of server functions
  FirstChunk,  \* request_arena_first
  Limits,      \* CERCO_REQUEST_MEMORY_LIMIT
  Sizes,       \* what a handler asks of the arena at once
  MaxAllocs    \* allocations of one handler

ASSUME RequestAssumption ==
  /\ FirstChunk \in Nat /\ Limits \subseteq Nat /\ Sizes \subseteq Nat
  /\ MaxArgs \in Nat /\ MaxAllocs \in Nat
  /\ 64 <= FirstChunk /\ \A l \in Limits : FirstChunk <= l

(* The bytes behind a body belong to the arena's chunk; a string that runs    *)
(* into them is taken to end there.                                           *)
ASSUME WireAssumption ==
  /\ Values \subseteq WireValue /\ Messages \subseteq Message
  /\ \A b \in Behind : b \in Seq(Byte) /\ \E k \in 1..Len(b) : b[k] = 0

(* The methods the build reads from a file's name. *)
RouteMethods == {"GET", "POST", "PUT", "PATCH", "DELETE", "HEAD", "OPTIONS"}

ASSUME RouteAssumption ==
  /\ \A t \in Tables : t \in Seq([method : RouteMethods, segs : Seq([sigil : STRING, name : STRING])])
  /\ \A p \in Paths : p \in Seq(STRING) /\ p # <<>>

VARIABLES
  kind,     \* which of the three is followed
  input,    \* what the router or the codec is given
  arena,    \* the connection's arena
  want,     \* the size cerco_arena_alloc is looking for room for, or 0
  process   \* "up", or "aborted" by arena_oom_default

vars == <<kind, input, arena, want, process>>

NoInput == [none |-> TRUE]

ArgLists == UNION {[1..n -> Values] : n \in 0..MaxArgs}
Returns == [failed : {FALSE}, v : Values] \cup [failed : {TRUE}, msg : Messages]

(* A call is refused, or answered with what its function returned.  want may  *)
(* differ from the type of the value when the page was built before the       *)
(* server.                                                                    *)
Answers == [status : {200} \cup Refusals, ret : Returns, want : WireType, scratch : BOOLEAN]

Init ==
  /\ \/ kind = "route" /\ input \in [table : Tables, method : Methods, path : Paths]
     \/ kind = "call" /\ input \in [args : ArgLists, behind : Behind]
     \/ kind = "answer" /\ input \in Answers
     \/ kind = "memory" /\ input = NoInput
  /\ arena \in {cerco_arena_init(FirstChunk, l) : l \in Limits}
  /\ kind # "memory" => arena.hard_cap = CHOOSE l \in Limits : TRUE
  /\ want = 0 /\ process = "up"

(* A handler allocates. *)
HandlerAllocs(size) ==
  /\ kind = "memory" /\ process = "up" /\ want = 0 /\ Len(arena.given) < MaxAllocs
  /\ want' = MaxOf(size, 1)
  /\ UNCHANGED <<kind, input, arena, process>>

(* One turn of the loop of cerco_arena_alloc: the block fits in the current   *)
(* chunk, a chunk is added, or the limit refuses one.  A size above           *)
(* CERCO_ARENA_CHUNK_MAX fits no chunk and ends at the limit.                 *)
AllocFits ==
  /\ want > 0 /\ FitsCur(arena, want)
  /\ arena' = Bump(arena, want) /\ want' = 0
  /\ UNCHANGED <<kind, input, process>>

AllocGrows ==
  /\ want > 0 /\ ~FitsCur(arena, want) /\ CanGrow(arena, want)
  /\ arena' = arena_grow(arena, want)
  /\ UNCHANGED <<kind, input, want, process>>

(* The out-of-memory policy is arena_oom_default, since nothing in the server *)
(* installs another.                                                          *)
AllocDenied ==
  /\ want > 0 /\ ~FitsCur(arena, want) /\ ~CanGrow(arena, want)
  /\ arena' = Deny(arena) /\ want' = 0 /\ process' = "aborted"
  /\ UNCHANGED <<kind, input>>

cerco_arena_alloc == AllocFits \/ AllocGrows \/ AllocDenied

(* The answer is written and the connection takes the next request. *)
RequestEnds ==
  /\ kind = "memory" /\ process = "up" /\ want = 0
  /\ arena' = cerco_arena_reset(arena)
  /\ UNCHANGED <<kind, input, want, process>>

Next ==
  \/ \E size \in Sizes : HandlerAllocs(size)
  \/ cerco_arena_alloc
  \/ RequestEnds

Spec == Init /\ [][Next]_vars

-----------------------------------------------------------------------------
Parsed == router_init(input.table)

(* A request runs the first entry whose path and method are its own (GET for  *)
(* HEAD).  When entries fit the path and none the method, OPTIONS is answered *)
(* 204 and any other method 405, and the Allow header names the methods of    *)
(* all those entries, whichever was tried last; no file and no 404 takes the  *)
(* place of an entry that fits (dispatch.c 30-69; router.c 95-177).           *)
RouterChoosesFirst ==
  kind = "route" =>
    LET d == conn_request_dispatch(Parsed, input.method, input.path)
        fit == {i \in DOMAIN Parsed : Fits(Parsed[i].segs, input.path)}
        run == {i \in fit : MethodServes(Parsed[i].method, input.method)}
        named == {Parsed[i].method : i \in fit} \ {"HEAD"}
    IN  CASE run # {} -> d.to = "worker" /\ d.fn \in run /\ \A i \in run : d.fn <= i
          [] run = {} /\ fit # {} ->
               /\ d.to = IF input.method = "OPTIONS" THEN "204" ELSE "405"
               /\ named # {} => d.allow = named
          [] OTHER -> d.to = "404" \/ (d.to = "static" /\ input.method \in {"GET", "HEAD"})

(* The parameters a handler reads are those of the entry that runs it, never  *)
(* of one that was tried before: each name it can read stands for the request *)
(* segment in its place, a catch-all for the rest of the path, and no other   *)
(* name is there (router.c 121-157; req.c 94-98).                             *)
RouterParamsRebuildPath ==
  kind = "route" =>
    LET f == router_find(Parsed, input.method, input.path)
        segs == Parsed[f.fn].segs
        req == Split(input.path)
    IN  f.result = "match" =>
          /\ \A s \in 1..Len(segs) :
               Readable(segs, s) => cerco_param(f.params, segs[s].text) = StandsFor(segs, s, req)
          /\ \A k \in 1..Len(f.params) :
               \E s \in Named(segs, Len(segs)) : f.params[k].name = segs[s].text

(* Blocks handed out to one request lie inside their chunk, aligned, and a    *)
(* later one of a chunk lies behind the earlier (arena.c 49-64, 102-114).     *)
ArenaBlocksApart ==
  LET Block(k) == arena.given[k]
  IN  /\ \A k \in DOMAIN arena.given :
           /\ Block(k).at % ArenaAlign = 0
           /\ Block(k).at + Block(k).size <= arena.chunks[Block(k).chunk].cap
      /\ \A j, k \in DOMAIN arena.given :
           j < k /\ Block(j).chunk = Block(k).chunk =>
             Block(j).at + Block(j).size <= Block(k).at

(* docs/memory.md:6 and arena.h:3, "hard cap": what one request makes its     *)
(* connection hold stays within the limit (arena.c 33-64).                    *)
ArenaWithinCap == arena.total <= arena.hard_cap

(* docs/memory.md:7, "Arena OOM -> HTTP 500, not process death": a request    *)
(* over its memory limit does not end the server (arena.c 18-21).             *)
OomIsNotProcessDeath == process = "up"

(* The two together are what docs/memory.md:5-8 says of a request's memory.   *)
MemoryLimitKept == ArenaWithinCap /\ OomIsNotProcessDeath

-----------------------------------------------------------------------------
Frame == cerco_sf_submit_raw(input.args)
ArgTypes == [k \in DOMAIN input.args |-> input.args[k].type]
Run(len) == sf_run(ArgTypes, Frame \o input.behind, len)
Call == kind = "call" /\ Sends(input.args)

(* A call that is sent carries all its arguments, and the server function is  *)
(* run on them: numbers, flags and blocks exactly, a string with at most      *)
(* something behind it (client sf.c 40-93, 125-145; wire.c 39-73; the         *)
(* adapters of build.c 484-509).                                              *)
SfArgsArrive ==
  Call =>
    LET got == Run(Len(Frame))
    IN  /\ got.status = 200 /\ got.read = Len(Frame)
        /\ Len(got.args) = Len(input.args)
        /\ \A k \in DOMAIN input.args :
             IF ArgTypes[k] = WT_STR
               THEN SubSeq(got.args[k].val, 1, Len(input.args[k].val)) = input.args[k].val
               ELSE got.args[k] = input.args[k]

(* A call cut short anywhere is answered 400 and no function is run on it,    *)
(* and the reader never passes the end of the body, whatever lies behind it   *)
(* (wire.c 11-16; server sf.c 91-106).                                        *)
SfTruncatedRejected ==
  Call =>
    \A len \in 0..(Len(Frame) - 1) : Run(len).status = 400 /\ Run(len).read <= len

Answer == IF input.status = 200 THEN sf_answer(input.ret) ELSE <<>>
Delivered == sf_done_common(input.status, Answer, input.want, input.scratch)

(* The value a server function returns is what the callback is given when the *)
(* caller wants that type (i32 and bool stand for each other), and nothing    *)
(* else is ever given as a value: not an error, a refusal, a failed fetch or  *)
(* a value of another type (server sf.c 44-152; client sf.c 147-220).         *)
SfAnswerArrives ==
  kind = "answer" =>
    IF /\ input.status = 200 /\ ~input.ret.failed
       /\ sf_arg_of_type(input.want, input.ret.v.type)
      THEN Delivered.how = "value" /\ Delivered.what = input.ret.v.val
      ELSE Delivered.how # "value"

(* include/cerco_client.h:120, "Callbacks receive the decoded result plus an  *)
(* error string (NULL on success)": every answer runs the callback, also one  *)
(* for i64, f64 or bytes (client sf.c 152-183).                               *)
SfCallbackRuns == kind = "answer" => Delivered.how # "trap"

(* The same line: the callback that runs on an error receives the message     *)
(* cerco_sf_fail was given, however short (client sf.c 152-169).              *)
SfErrorArrives ==
  /\ kind = "answer" /\ input.status = 200 /\ input.ret.failed /\ input.scratch
  /\ Delivered.how # "trap"
  => Delivered.how = "message" /\ Delivered.what = input.ret.msg

(* server sf.c:98, "adapters consume exactly their args": a string argument   *)
(* is the string that was sent.                                               *)
AdaptersConsumeTheirArgs == Call => Run(Len(Frame)).args = input.args

(* docs/server-functions.md:33-40, the way of a call: its arguments reach the *)
(* function as they were sent, "the response is decoded and the typed         *)
(* callback invoked", with the message where the function failed.             *)
SfCallKept == AdaptersConsumeTheirArgs /\ SfCallbackRuns /\ SfErrorArrives
=============================================================================
