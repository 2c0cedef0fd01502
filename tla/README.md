# A verification project for cerco

cerco is a web framework in C: a server runtime (one libuv event loop, a bounded
pool of worker threads, llhttp), a WebAssembly client runtime with a small
JavaScript host, and a command line that generates code, builds and runs a
development loop. This directory holds TLA+ modules of the server's concurrent
core, of what is computed for one request, of the client and of the development
loop, TLC runs over small instances, and TLAPS proofs of every safety property for
every instance. Paths below are relative to the repository.

## 1. Inventory

| part | state it keeps | operations | talks to |
|---|---|---|---|
| worker pool, `runtime/server/worker.c` | job ring and completion ring with head, tail and count, `shutdown`, `stats.queued_jobs` | `wpool_try_submit`, `worker_main`, `wpool_push_done`, `wpool_drain_completions`, `wpool_shutdown` | loop through `done_async`, workers through `job_cv` |
| connections, `http.c` | list of `cerco_conn`: phase, parser, current request, arena, `closing`, `close_cb_done`, `pending_writes`, read buffer, deadline | accept, parser callbacks, respond, write callbacks, close, half-close, finalize, deadlines | pool, dispatch, libuv, llhttp |
| dispatch, router, static, server functions: `dispatch.c`, `router.c`, `static.c`, `sf.c` | route table | choose who answers: worker, inline, simple answer, live-reload stream | pool, connections |
| request, `req.c` | `cerco_req` in the connection's arena | set-up, headers, path, query, cookies, form | handlers |
| lifecycle, `serve.c` | `shutting_down`, sweep timer | `on_sweep`, `start_shutdown`, `cerco_serve` | all of the above |
| configuration, `config.c` | `cerco_config` | parse and clamp the environment | all |
| shared code, `runtime/shared` | arena chunks, string buffers | allocate, grow, reset; wire codec; strings; SHA-256 | server and client |
| client, `runtime/client`, `runtime/browser/host.js` | heap marks, event table, fetch slots, bindings | hydrate, dispatch events, navigate, call server functions | host imports and exports |
| command line, `cli` | build cache, watcher | build, dev, new, doctor | compiler, file system, server (reload file) |

What is hard here, and so what the properties are about:

- the loop and the workers share two rings, a flag and a counter, with the
  signal, the wake-up and the counter outside the locks;
- a request is in a worker while its connection is closed by the peer, a
  deadline or a shutdown, finalized, and its struct reused for another client;
- a teardown is split over close, write and completion callbacks in any order;
- a shutdown meets connections in every phase, and has to end;
- the parser calls back into code that answers, closes or submits in the middle
  of `llhttp_execute`;
- the client reuses heap, event slots and fetch ids from page to page while
  answers to earlier requests are still to come;
- `cerco dev` decides from file times what to compile, link, restart and reload,
  while the files change under it and any of these steps may fail;
- strings, lengths and types cross from client to server and back as bytes that
  four pieces of code, one of them generated, have to read alike.

`PROJECT.json` lists each of these under `hazards` at its line, with the
properties that would catch it, and those that no module covers yet.

What makes each part correct:

- pool: no accepted job waits while all workers sleep, no completion is left
  unnoticed, jobs come back exactly once and in FIFO order, the counter that ends
  a shutdown is right, nothing touches the rings once they are freed;
- connections: the count is exact, each request gets one answer and only its
  client gets it, a closing connection is silent and is finalized;
- lifecycle: after `start_shutdown` there is no new work and the loop stops;
- dispatch and router: the first entry that fits path and method runs, with its
  own parameters; only when none fits the path are files and the 404 page tried;
- arena: blocks are inside their chunks and apart, and a connection's memory stays
  within its limit;
- server functions: what was passed and returned arrives, or the call is refused;
- client: what outlives a page stays whole, an element runs its own handler, an
  answer reaches who asked, a navigation ends on its page;
- development loop: a server that is announced is what the objects of the present
  sources make, those are what the sources say, and the last edit arrives in the
  open page.

Some of these the code does not keep: section 3 has the runs that show where.

## 2. Modules

    Pool  <--- refinement --- WorkerPool <--- WorkerPoolProofs
     ^                            ^
     |  EXTENDS                   |
    Server                    MCWorkerPool
     ^
    ServerInductive <--- ServerProofs         Client
     ^                                          ^
    MCServer                                  ClientInductive <--- ClientProofs
                                                ^
    Build <--- DevLoop <--- DevProofs         MCClient
                  ^
               DevPage <--- MCDevPage

    Router, Arena, SfCodec <--- Request <--- MCRequest
                                   ^
                                   +--- ArenaProofs
                                   +--- SfProofs, RouterProofs ---> NatSets

`ServerInductive` and `ClientInductive` hold the inductive invariants, which TLC
checks in `server_safety` and `client`; `WorkerPool` and the other proof modules
hold theirs themselves. `NatSets` has the induction the loops of a request need.

**`Pool`** is the promise: a queue bounded by `Cap`, one request in each
worker's hand, a queue of completions; `Accept`, `Take`, `Finish`, `Collect`.

**`WorkerPool`** is `worker.c`, one action per step between two points where
another thread can see a change. `wpc[w]` is where worker `w` is in
`worker_main`: before the lock (`lock`), inside `job_mu` before the loop test
(`check`), decided to wait but not yet waiting (`sleep`), in `uv_cond_wait`
(`wait`), after the pop and before the counter (`popped`), in the handler
(`run`), and so on. `lpc` is where the loop thread is: polling, inside
`wpool_try_submit` after the unlock (`count`, `signal`), draining, and, after
`uv_run` has returned, in `wpool_shutdown` and the last `uv_run` of `cerco_serve`
(`store`, `broadcast`, `join`, `freed`). `job_mu` is free when no worker is at
`check` or `sleep`; the critical sections of the loop and of `done_mu` contain
no step another thread could see half done and are single actions. A worker
woken by a signal has to take the mutex again; spurious wake-ups are an action.
`wpool_start` may create fewer threads than asked for. `MaxOutstanding` bounds
the requests that are in the rings and with workers at once (in the code, by the
number of connections). `uaf` is the position of a loop that has read the freed
completion ring.

**`Server`** is the loop thread: every action is one libuv callback, except that
`llhttp_execute` is a series of actions, one per parser callback (`executing`
names the connection), since workers run meanwhile. A connection is a record
with the fields of `cerco_conn` that steer control; `live` is "linked and not
finalized", `writes` is `pending_writes` with the kind of each write, in the
order libuv completes them, `half` is a stream on which `uv_shutdown` was
called. A member of `Reqs` is the memory of an arena: the request of every
message of a connection is at the same address, and `cerco_connection_cb` clears
the struct, so a reopened struct takes other memory while a worker may still hold
the old one. Deadlines are abstracted to "any open connection may be late at a
sweep". `owed` (messages complete and unanswered) and `stale` (the last message
was routed on an older path) are history variables. What a request is answered
by (`DispatchWork`, `DispatchSimple`, `DispatchInline`, `DispatchLive`) is a
free choice: the outcomes of router, static files, server functions and reserved
endpoints. `on_headers_complete` and `MessageCompletes` stand for the header and
body callbacks too, whose refusals (413, 414, 431, 400) are `ExecuteFails`.

The clients of `Server` are sequential: bytes reach the parser when no message
is owed. What they may put behind a complete message in the same read is the
constant `AfterComplete`: nothing, in the runs. A lone request may
still have two answers. One that asks for an upgrade, or a CONNECT, is dispatched
by `on_message_complete` like any other, and then llhttp returns
`HPE_PAUSED_UPGRADE`, which `conn_on_read` answers 400: `MessageCompletes` chooses
whether a message is of that kind (parser state `upgrade`), and `ExecuteFails`
follows it. libuv and llhttp are modelled from how the server uses
them: a queued write ends before the close callback, and `llhttp_pause` inside a
callback that returns 0 does not stop the running execute.

`Server` is built on `Pool`, not on the rings. `PoolRefines` proves, and `pool`
checks, that the rings implement `Pool` as long as no more jobs are outstanding than
a ring holds; when
there are more, completions are overwritten (`pool_overflow`), and `Server`
describes the intended pool. `Drained` reads the queue where `on_sweep` reads
`stats.queued_jobs`; `QueuedJobsExact` relates the two: the counter is 0 only
when the ring is empty and nobody is between a pop and its decrement.

**`Router`**, **`Arena`** and **`SfCodec`** are the pure parts of a request as
operators. `Router` is `router.c` and the part of `dispatch.c` that uses it: a path
is the sequence of texts between its
slashes, the loops over the table and its segments are recursive functions of the
turn, with the code's own early exits (`MatchStep`, `CaptureStep`, `Visit` are one
turn each), and `cerco_param` is how a handler reads a parameter.
`conn_request_dispatch` says where a request goes: to the handler of an entry, to
204 (OPTIONS) or 405 with the Allow list, to the files if its last text has an
extension, or to the 404 page. Paths below `/__cerco/` have left before; that is
`DispatchSimple`, `DispatchInline` and `DispatchLive` of `Server`. `Arena` is
`arena.c` with the code's constants (chunks double from
16 KiB up to 4 MiB). `SfCodec` is the way of a server-function call in bytes:
`sf.c` of the client writes it, `wire.c` reads it, the adapter that `build.c`
generates picks the arguments, `sf.c` of the server encodes the result or refuses
(`Refusals`), the client decodes it for a callback of the type it wants. A string
argument is what the C function reads from the pointer it is
given, up to the first NUL in the request's arena. A callback is called through the
type the code casts it to; when that type's wasm signature is not the callback's
own, the call traps (`CallsBack`).

**`Request`** puts the three to use: an input of router or codec is an initial
state, and the arena of a connection is followed through allocations and resets
from one request to the next. An allocation is a series of steps: `HandlerAllocs`
enters `cerco_arena_alloc` with a size, `want`, and each turn of its loop is
`AllocFits`, `AllocGrows` or `AllocDenied`.

**`Client`** is the WebAssembly client with its JavaScript host. An action is one
task of the browser (boot, a click, the end of a fetch), everything the handler or
callback does included. `slots` is `g_slots` up to `g_slot_count`, `listeners` the
slots bound to each element of the document, `fetches` and `bufs` are `g_fetches`
and the shared response buffers, `wire` has the requests the browser has under
way, and addresses count blocks of the bump heap, whose pointer and sticky floor
are those of `env.c`. Components are the application's: mounting one allocates its
state and registers a handler; handlers do nothing, fetch, call a server function
or navigate. `settled` is a history variable: the last navigation was sent and had
no rival; `client_state`, which is about those that have one too, does not use it.

**`Build`** is `cmd_build` with the editor next to it. Times are kept as the
outcome of the comparisons the code makes (`newer`, `relink`), contents as whether
they come from the present source (`objcur`, `outcur`). A scan names the routes it
finds (`SymIn`: the mangled name and a number among those of the same name met
before); an object keeps the name it was compiled with (`osym`), or none if the scan
did not have it; a link takes every object there is and gives each route of the
table the handler defined by its name (`Bind`, `bound`), or fails (`LinkFails`).
Layouts, whose symbols are those of their directories, and components are in `Files`
like other sources, with a fixed `Symbol`. Names that themselves end in a number, a
walk of the directory in another order from build to build, and a link that is
interrupted half-way are left out. The stylesheet, headers and the files of a page
that are not compiled are in `Files` with no output.

**`DevLoop`** is `cmd_dev` around it: the initial build, watching, rebuilding,
restarting, exits. A session may be interrupted at any time, in the middle of a build
too, and the next one starts over the objects, times and binaries that are there.
`Init` has none: everything a warm `.cerco` and `dist` can hold is what an earlier
session of the behaviour has left.

**`DevPage`** adds the reload: the file `touch_reload` writes,
`dev_check_reload_signal` of the child, whose first sweep only notes the time, and
one page, whose `EventSource` is connected or not. A broadcast reaches the page only
over a connected stream; streams end with the server and at the request deadline,
and the browser connects again at some later time.

## 3. Runs

Passing:

| run | what it asks | instance |
|---|---|---|
| `pool` | can loop and workers lose a wake-up or a completion, miscount, or use a freed job ring; do the rings implement `Pool`; does every job come back; do workers that are not waiting join | 2 workers, rings of 2, 2 jobs outstanding: rejections, wrap-around and every shutdown position occur |
| `server_safety` | does every answer go to its client, once, with closes, deadlines, upgrades, reloads, struct reuse and a shutdown in between | 2 connections, 3 request memories (two in use and one still with a worker), 1 worker, queue of 1, development mode |
| `server_live` | are closing connections finalized, requests answered, shutdowns finished, also when the limit is hit | 2 connections, limit 1, 1 request memory |
| `client` | do heap, events, fetches and server-function calls survive navigations in any order | 2 pages, a component in one of them and one in the layout, event table of 3, 2 fetches sharing one buffer |
| `dev` | is the server that is announced the one the objects make, does the loop come to rest, does a signalled reload reach a connected page | 2 edits of two routes of one name, a shared source, its new name, a header; 2 sessions, 2 compilers, 1 page; 255,186 states |
| `request` | do dispatch, router, arena and codec do what their callers rely on | tables of up to two overlapping entries of four methods, among them repeated names, a catch-all in the middle, one parameter too many and the 404 page; 45 paths; 4 allocations at chunk and cap boundaries; up to 3 arguments of 6 types around the end of a 32-byte buffer; every status, wanted type and returned value or message |

The properties, by what would go wrong in the code without them:

- `WakeupNotLost`, `CompletionNoticed`: a job or a completion is there and nobody
  will look, because the signal and the wake-up are sent outside the locks.
- `QueuedJobsExact`: the counter that ends a shutdown drifts from the ring.
- `ShutdownRunsAcceptedJobs`, `NoSubmitAfterFree`: the freed rings are used.
- `ImplementsPool`: a job is lost, duplicated or overtakes another.
- `EveryJobCollected`, `ShutdownJoins`: a job or a join never ends.
- `NConnsExact`: a teardown split over several callbacks counts twice or never.
- `AnswerReachesItsRequest`: a live completion whose connection is gone, closing
  or busy with something else. `AnswerOnlyToAsker` is its action form: who is
  written to when a completion is collected.
- `OneAnswerUnderWay`: a waiting client gets no answer, or two. A request to
  upgrade does get two, and never more.
- `DrainIsSilent`: a half-closed connection is parsed or written to. The second
  answer of an upgrade may still be queued there from before.
- `NoNewWorkAfterShutdown`: a connection stays open for more requests.
- `ClosingFinalizes`, `EveryMessageAnswered`, `ShutdownStops`: a connection, a
  request or a shutdown waits for ever.
- `ServerInv`, `ClientInv`: the inductive invariants (section 4): what the callbacks
  of a connection, or the tasks of a page, rely on from one to the next.
- `StickyIntact`: a rewind gives a page's state, the call buffer or a response
  buffer memory that another of them still uses.
- `PageEventsOwn`: slot numbers that restart, or do not, make an element run
  another component's handler.
- `PageSettled`: a navigation ends with another page, or with a page whose
  components were not hydrated because the event table was not reset.
- `AnswersMatch`, `SfCallsMatch`: reused ids give an answer to another caller.
- `ReadyServesItsObjects`: after a chain of failed, skipped, partial and interrupted
  builds, in this session or an earlier one, "ready" is printed over a server that is
  not the one the objects make: an object older than its source, an old binary, a
  table of other routes.
- `EditsSettled`: an edit made during a build is never built, or a build fails for a
  reason that is gone.
- `ReloadDelivered`: a reload that a server and a connected page should see is lost.
- `RouterChoosesFirst`, `RouterParamsRebuildPath`: an overlapping entry, or an
  entry of another method tried before, decides the handler or its parameters, or the
  files, 204, 405 and the 404 page take the place of an entry. They
  hold for every table the build can write: a directory may be named like a
  catch-all, so segments behind one are allowed and have no effect (`InEffect`);
  of a repeated name the first is read, and 16 parameters are kept (`Readable`).
- `ArenaBlocksApart`: padding, or an allocation no chunk can hold, breaks the
  arena's arithmetic.
- `SfArgsArrive`, `SfTruncatedRejected`, `SfAnswerArrives`: encoder and decoder
  differ, a cut frame is run, an error, a refusal or a value of another type is taken
  for a result.

Violated. Each of these runs checks what comments and documents say of one part and
the code does not keep; the findings in `PROJECT.json` quote them. Where the statement
has several parts, the property is their conjunction, TLC stops at the first one to
fail, and each of the parts listed here fails alone as well:

| run | property | shows |
|---|---|---|
| `pool_overflow` | `DoneNeverOverflows` | popped jobs no longer count against the ring, so the completion ring overflows |
| `server_arena` | `ArenaPerRequest` | `WorkerKeepsConn`: the half-close after the 400 of a request to upgrade resets the arena under its worker, and, `CERCO_PHASE_WORK` being assigned nowhere, a connection that closes is finalized under its worker. `RoutedOnOwnPath`: after a keep-alive simple answer the next request is routed on the previous path |
| `client_state` | `ClientStateAgrees` | `PathIsShown`: a link clicked before the boot, a rejected navigation, or the later answer of two, leaves a current path that is not the page shown. `LayoutEventsOwn`: layout elements keep their listeners while slot numbers restart, and run other handlers. `SfSlotsHeldByCalls`: a server-function call that finds no fetch slot keeps its pending entry for ever. `CmdBufIntact`: the command buffer is in memory a navigation gives out again |
| `dev_edits` | `EditsShown` | edits that compile and do not reach the open page, see below |
| `request_memory` | `MemoryLimitKept` | `OomIsNotProcessDeath`: the server installs no out-of-memory handler, and a request over its limit aborts the process. `ArenaWithinCap`: the chunk that is added is not compared with the cap, which is passed |
| `request_wire` | `SfCallKept` | `AdaptersConsumeTheirArgs`: a string argument has no end, and the function reads on into the next argument or into older arena contents. `SfCallbackRuns`: errors are delivered through the type of an i32 callback, which traps for i64, f64 and bytes. `SfErrorArrives`: messages under four bytes arrive as network errors |

`EditsShown` asks that the page ends up with the present sources whenever these compile.
`DevPage` has all of these ways not to:

- an edit during the initial build is in the baseline and not noticed (`dev.c:347`);
- an edited header is compiled into nothing, and a source saved while it is compiled is
  older than its object (`build.c:632`);
- an object keeps the route name of the scan it was compiled under: when one of two
  routes of one name is removed the other runs the removed handler, and when it is
  added two objects define one name (`build.c:199`);
- a moved source clashes with its old object (`build.c:1048`);
- a route saved between scan and compile gets no name, and no later build links
  (`build.c:985`);
- over a warm `dist`, an initial build that fails and a later one that links nothing
  announce "ready" with no server (`dev.c:368`);
- after a restart the reload is taken for the starting point, or finds no stream
  (`serve.c:30`, `http.c:340`).

Other places where the modelled code departs from what its comments or documents
say, which the models contain and no run is about:

- a completion pushed during the join is read from the freed ring by the last
  `uv_run` (`concurrency.md:59`): the loop position `uaf`.
- `wpool_shutdown` stores the flag and broadcasts without `job_mu`: a worker between its
  test and its wait misses both, and the join of `concurrency.md:65-66` never ends.
  `ShutdownJoins` leaves this position out.
- a second message in one read is dispatched before the first is answered
  (`http.c:461`, "hold remaining (pipelined) bytes until response written"):
  `AfterComplete = {"begin"}`.
- `start_shutdown` closes connections whose request is in a worker
  (`deployment.md:64-65`), for the reason `server_arena` shows.
- the client is in `dist` before the server's sources are compiled, and stays there
  when they fail: pages of the old server then run the new client (`build.c:1420`).
- a path that only HEAD entries fit is answered with the fixed Allow list (HEAD is in
  no list), and an OPTIONS entry is named by 405 and not by 204.

Bounds. Two workers are enough for one to sleep while the other takes or
misses a signal, rings of two for head and tail to differ and wrap, two outstanding
jobs for the job ring to be full and refuse; more of them are in `pool_overflow` and in
the proofs. Two connections let one be closed
and reused while the other is served. `Cap = 1` fills at once. `MaxWrites` stops
reload broadcasts while a stream has writes queued; `MaxOwed` only matters with
`AfterComplete`. In `client` three slots for two roots make two pages that land
after one reset overflow the event table; two fetches with one buffer make it be
shared and replaced; `MaxListeners` stops navigations once layout elements have
collected two listeners, since nothing ever removes them. In `dev` two edits let a
source be broken and another change, or one be moved, during or between the builds of
two sessions, of which the second starts over what the first has left.
In `request` two entries suffice for every overlap: the search keeps
nothing of an entry but its parameters and the allowed methods; the sizes are
those at which a chunk, the largest chunk or a cap is exactly full or one short.
Symmetry is used in `server_safety` only: requests and connections are
interchangeable there, and no definition chooses among them.

Fairness. Pool: the loop finishes its callback, serves a pending async
handle, a thread that can take `job_mu` again and again gets it, handlers return;
no fairness for spurious wake-ups, submissions or the stop. Server: the loop
finishes an execute; a queued write ends, or the deadline of its connection
passes, as does the 300 ms deadline of a half-closed one (both enforced by the
sweep each second); close callbacks and completions are served; a sweep that can
stop a drained loop runs. Strong fairness is used where callbacks of other
connections come in between, which libuv serves in turn. The hard shutdown
timeout, the clients and all other deadlines are not assumed. Development loop:
`cerco dev` and its compilers go on; with a page, the child's one-second timer fires
and the browser retries until its stream is connected. No fairness for the editor, a
failing start, an interruption, the end of a stream or the death of the server.

Each property has a mutant (`Mut_...`, beside the definition it replaces)
that breaks it.

## 4. Proofs

The assumptions of the theorems are the named `ASSUME`s of the modules, which TLC
evaluates in every run, and the two hypotheses named below.

### Worker pool: `WorkerPoolProofs`

For any finite set of workers, any ring size of at least 1 and any bound on
outstanding jobs:

- `PoolTypeCorrect`: the unchecked array indices stay inside the arrays;
- `PoolInvariant`: the inductive invariant `PoolInv`;
- `NoLostWakeup`, `NoStrandedCompletion`, `ShutdownDrainsQueue` from it;
- `FreedRingUntouched`: nothing is put on the freed ring;
- `QueuedJobsCorrect`: the counter, by counting the workers between a pop and
  its decrement (`Popped`);
- `PoolRefines`: if `MaxOutstanding <= JobCap`, `WorkerPool` implements `Pool`;
  `DoneRingHolds`: the completion ring then never overflows.

`WakeupNotLost` alone is not inductive: that a worker at `wait` cannot have
overlooked a job needs that a worker at `sleep` still sees an empty ring, which
needs that nobody else is inside `job_mu` (`MutexExclusive`,
`WorkerSawEmptyRing`) and that jobs are only added by a loop that has yet to
signal. That the rings are empty when they are freed needs that a worker leaves
only on an empty ring under the flag, that the flag follows the loop's position
(`ShutdownFollowsLoop`, `NoWorkerAfterJoin`) and that there is a worker at all
(`SomeWorker`).

The refinement rests on `RingsInv`: tail is head plus count modulo the capacity, so
that writing at the tail appends (`RingPush`) and reading at the head takes the
oldest (`RingPop`); a worker between pop and push holds a request; and queue, hands
and completions together fit on a ring. The accepting section of `wpool_try_submit`
is `Accept`, a pop `Take`, a push `Finish`, a pop by the loop `Collect`; all other
steps change nothing `Pool` can see. The hypothesis is necessary, not a convenience:
`wpool_try_submit` compares the queued jobs only, and `pool_overflow` shows what
happens without it.

### Event loop: `ServerInductive`, `ServerProofs`

For any sets of connections, request memories and workers and any capacities and
limits, from `SequentialClients` (`AfterComplete = {}`, which leaves requests to
upgrade in):

- `ServerInvariant`: the inductive invariant `ServerInv`;
- `ServerTypeCorrect`, `NConnsIsExact`, `AnswerReaches`, `OneAnswerAlways`,
  `DrainSilent`, `NoNewWork`: the invariants of `server_safety`;
- `OnlyToAsker`: the action property `AnswerOnlyToAsker`.

None of these is inductive alone. A request may outlive its connection, so what has
to be carried along is the link between the two, in both directions: a request in the
pool that is not cancelled names a live connection whose current request it is and
which waits (or drains after the 400 of an upgrade), and a waiting connection's
request is in the pool exactly once or its answer is on the socket. `ServerInv` says so, with the phases a closing, draining or
half-closed connection may be in, which writes can be pending in each, and which
connections are linked. Most callbacks touch one connection and leave the pool
alone; for these the proof reduces the link to that connection once, and each
callback only has to give its own facts. The hypothesis is needed in two places, the
failure of a running execute and the opening of a second message: without it a second
message in the same read replaces the current request while the first is in the pool
(`http.c:461`), which is a property of the code, not of the proof.

### Client: `ClientInductive`, `ClientProofs`

For every set of pages, layout and component placement and every table size
(`ClientAssumption`: what an application is, and that `None` is none of its values):

- `ClientInvariant`: the inductive invariant `ClientInv`;
- `ClientTypeCorrect`, `StickyAlwaysIntact`, `PageEventsAlwaysOwn`,
  `PageAlwaysSettles`, `AnswersAlwaysMatch`, `SfCallsAlwaysMatch`: the invariants of
  `client`.

The parts: a request under way is the one its entry in `g_fetches` was made for, and a
pending server-function call is known to one entry only (`CallsInv`); before the boot
nothing is allocated, mounted or asked for (`FreshInv`); the response buffers, the
call's body and the components' states are apart, and those that outlive a page lie
below the floor (`HeapInv`); a listener in the page region names no slot, or the one
mounted for its element (`ListenersInv`); and a navigation without a rival is the only
one under way, or has arrived with all its roots hydrated (`SettledInv`).
`StickyIntact` needs all of `HeapInv`: a rewind makes fresh memory of everything above
the floor, and answers that arrive later raise it.

### Development loop: `DevProofs`

For every set of files, routes, headers and outputs, any number of compiler
threads, edits and sessions (`BuildAssumption`, `DevAssumption`):

- `DevInvariant`: the inductive invariant `DevInv`; `DevTypeCorrect`;
- `ReadyAlwaysServesObjects`: the safety property of `dev`;
- `ScanNamesApart`: the names of one scan are different, so that the clashes
  `dev_edits` can meet come from objects of other scans.

The argument follows the chain from source to server, and says of each link only what
the comparisons of times say. An object that is not older than its source exists
(`ObjectsInv`). An output that no object is newer than has everything current that its
objects have (`OutputsInv`), and the binary its table's routes bound by name
(`TableInv`); the client is linked before the server's compiles make it look old again,
so its part is carried on by the phase and not by the times. While nothing changes,
what is out of date is queued, at a compiler or a failure is noted (`ProgressInv`). The
child runs the binary on disk unless a restart is due, and a session starts without one
(`ChildInv`). Nothing in this relates an object to its source's text, or requires the
first session to be the first: that is why it survives interruptions, and why "ready"
is neither current nor always over a server (`dev_edits`).

### One request: `NatSets`, `ArenaProofs`, `SfProofs`, `RouterProofs`

The loops of a request run over sequences of any length, so these proofs are
inductions over data. The library's induction theorems take an operator as a
parameter, which the provers cannot instantiate; `NatSets` states induction over
sets instead (`EveryTurn`: a set that has 0, and `k + 1` whenever it has `k` and
there is a turn left, has all turns), from the well-foundedness of the naturals. A
proof names the set of turns after which its claim holds. That each recursive
function satisfies its own equation is proved in the same way (`BodiesTurn`,
`ReadsTurn`, `MatchTurn`, `CaptureTurn`, `SearchTurn`).

Arena, for every first chunk of at least 64 bytes, every limit that is not below it
and every set of sizes (`RequestAssumption`; `config.c:90-95` has 16 KiB and at least
64 KiB):

- `ArenaInvariant`: the inductive invariant `ArenaInv`;
- `ArenaBlocksStayApart`; `OvershootBounded`: how far the cap `request_memory`
  is about can be passed, namely below three times the limit and less than one largest
  chunk above it.

Blocks stay apart because a chunk is filled to the end of its last block, and only
the last chunk is written to. The bound needs that the last chunk is
part of the total: the next one is at most twice as large, so that it at most triples
a total `CanGrow` has found below the limit.

Codec, for every list of values of the six types (`WireAssumption`: 32-bit words,
64-bit words as two halves, strings without a byte 0, lengths below 2^31) and every
buffer size below 2^31 (`BodyMaxAssumption`):

- `ArgumentsArrive`, `TruncatedRejected`: the frame is the count and then each
  argument's bytes one behind the other (`CallLayout`); the adapter stands in front of
  argument `k + 1` when it has read `k`, or has failed if that lies beyond the end
  (`TurnOK`, kept by `TurnKeeps` from `ReadsValue` and `ReadsShort`);
- `AnswersArrive`: for every wanted type and every status, a value behind its header is
  read back through a callback of its own signature (`ValueArrives`,
  `WidenedSignature`), and nothing else is given as a value (`MessageIsNoValue`,
  `FailureIsNoValue`).

They rest on the bytes of a word giving the word back (`WordBytes`, `GetWord`). The
assumption that the memory behind a body contains a byte 0 is only used for strings,
which end nowhere else (`request_wire`).

Router, for every table of entries, every path and every method (`RouteAssumption`:
their types only):

- `FirstRouteRuns`, about `conn_request_dispatch`: the matching loop accepts exactly the paths that fit
  (`MatchedIs`, by `MatchInv` over the segments), and the search stands at the first
  entry that serves the request, or has collected the methods of those that fit
  (`FindInv`, over the entries);
- `ParamsRebuildPath`: the k-th parameter is that of the k-th segment with a name, up
  to a catch-all (`CaptureInv`, `Exact`), so that the first with a given name is the
  one `cerco_param` finds.

### Model-checked only

Liveness (`EveryJobCollected`, `ShutdownJoins`, `ClosingFinalizes`,
`EveryMessageAnswered`, `ShutdownStops`, `EditsSettled`, `ReloadDelivered`): the prover has
no rules for fairness and ENABLED. Every invariant and every safety action property
of the passing runs is a theorem.

## 5. Plan

Done: the worker pool with its abstract specification, refinement and proofs; the
server for clients that wait for their answer, with proofs; router, arena and codec,
with proofs; the client with its host, with proofs; build and development loop, with
proofs.

Next: the read buffer of a connection (`filled`, `consumed`, pause and resume) for
clients that send before their answer.

## 6. Not modelled

- Startup failures, `uv_accept` failures, failing `malloc`, statistics other than
  `queued_jobs` and `n_conns`, log text, response bytes.
- A connection pool that already holds 256 structs, in which case
  `conn_finalize` frees the arena instead of resetting it; `server_arena`
  already shows a worker can hold it then.
- Reads while a message is unanswered (the next step of the plan): with the parser paused
  `llhttp_get_error_pos` is NULL and `consumed` wrong (`http.c:532`).
- Smaller risks that stay inside what is left out: a failed `uv_accept` never
  returns its struct (`http.c:567`), `stats.active_reqs` is decremented for
  uncounted answers (`http.c:320`), `wbuf_printf` reserves one byte too few
  (`util.c:110`), numbers are written behind a full call buffer and four-digit ids
  behind their scratch block (client `sf.c:37`, `109`), a call's `arg_count` is not
  compared with the signature (server `sf.c:98`), `g_watch` overflows at 4096
  files (`dev.c:183`), `die()` in a rebuild leaves the server an orphan
  (`build.c:1281`), the fetch id of a callback that traps (`request_wire`) is reported
  a second time (`host.js:162`).
- Client: DOM commands, signals and bindings, exhaustion of the heap, what a trap
  inside a handler leaves behind, what applications do with addresses of a page that is gone.
- Development: the stylesheet watcher, the port search, `cerco clean`, the SDK
  cache, generated text, and two writes within the same millisecond.
- `router_dispatch`, which nothing calls.
- Configuration (each setting is parsed and clamped once), reading static files, HTML
  building, URL, header, cookie and form parsing, the string buffer, SHA-256, the
  other commands: sequential code over characters or files, with unit tests.
- The generated `cli/bundle.c`, more than three quarters of the repository's lines,
  and vendored libuv and llhttp.
