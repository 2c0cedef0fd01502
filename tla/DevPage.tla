------------------------------ MODULE DevPage ------------------------------
(* DevLoop with the server's side of the reload file (dev_check_reload_signal  *)
(* of serve.c), the live-reload streams (conn_send_sse_reload of http.c) and   *)
(* one browser page that is opened on the server and stays open.               *)
EXTENDS DevLoop

VARIABLES
  inited,   \* the child has taken its first mtime of the reload file
  signal,   \* the reload file's mtime is not the one the child has
  stream,   \* the page's EventSource is connected to the child
  view      \* files of which the page shows the present source

pageVars == <<inited, signal, stream, view>>
allVars == <<vars, pageVars>>

PageInit ==
  /\ Init
  /\ inited = FALSE /\ signal = FALSE /\ stream = FALSE /\ view = {}

(* What the page shows once it is loaded from the child.                       *)
Loaded == Serving(served, outcur["wasm"])

(* The page ages with what is edited.                                          *)
PageAges ==
  \E f \in Files :
    /\ (\E c \in {"ok", "error", "client"} : EditorSaves(f, c)) \/ EditorRemoves(f)
    /\ view' = view \ ({f} \cup {u[2] : u \in Stale(f)})
    /\ UNCHANGED <<inited, signal, stream>>

(* A new child has not swept yet and has no streams.                           *)
Respawned(opens) ==
  /\ inited' = FALSE /\ stream' = FALSE
  /\ view' = IF opens THEN Serving(outcur["server"], outcur["wasm"]) ELSE view

PageOpens == InitialServes /\ Respawned(TRUE) /\ UNCHANGED signal

(* touch_reload follows every successful build, with or without a restart.     *)
touch_reload == signal' = TRUE

PageReady ==
  /\ Ready /\ touch_reload
  /\ IF Restarts THEN Respawned(child = "none") ELSE UNCHANGED <<inited, stream, view>>

(* No other step of cerco dev or of a build reaches the page, but for the      *)
(* streams that go with the server.                                            *)
PageWaits ==
  /\ \/ BuildSteps \/ BuildDies \/ InitialFails \/ ChildDead \/ ChangeDetected
     \/ BuildFails \/ SpawnFails
  /\ UNCHANGED pageVars

PageAlone ==
  /\ Interrupted \/ DevRestarts \/ ServerDies
  /\ stream' = FALSE
  /\ UNCHANGED <<inited, signal, view>>

(* The child's sweep: the first only notes the mtime, later ones broadcast a   *)
(* change to the streams there are.  The page then loads anew.                 *)
Mut_Broadcast == FALSE
Broadcast == inited

Sweep ==
  /\ child = "up"
  /\ ~inited \/ signal
  /\ inited' = TRUE
  /\ signal' = FALSE
  /\ IF Broadcast /\ stream
     THEN view' = Loaded /\ stream' = FALSE
     ELSE UNCHANGED <<view, stream>>
  /\ UNCHANGED vars

(* The EventSource connects, and again some seconds after its stream ended: at *)
(* the request deadline, which a stream does not renew.                        *)
PageConnects ==
  /\ child = "up" /\ ~stream
  /\ stream' = TRUE
  /\ UNCHANGED <<vars, inited, signal, view>>

StreamEnds ==
  /\ stream
  /\ stream' = FALSE
  /\ UNCHANGED <<vars, inited, signal, view>>

LoopSteps == PageOpens \/ PageReady \/ (DevSteps /\ PageWaits)

PageNext ==
  \/ PageAges \/ PageOpens \/ PageReady \/ PageWaits \/ PageAlone
  \/ Sweep \/ PageConnects \/ StreamEnds

(* The sweep timer fires every second; a browser retries until it is connected. *)
PageSpec ==
  /\ PageInit /\ [][PageNext]_allVars
  /\ WF_allVars(LoopSteps) /\ WF_allVars(Sweep) /\ WF_allVars(PageConnects)

-----------------------------------------------------------------------------
(* A reload that is signalled to a server that has swept before, while the     *)
(* page is connected, brings the page to what is served, unless something is   *)
(* edited, the stream ends or the server goes first (dev.c 214-222, 378;       *)
(* serve.c 16-39; http.c 340-344).                                             *)
ReloadDelivered ==
  (signal /\ inited /\ stream) ~> (Loaded \subseteq view \/ changed \/ ~stream \/ child # "up")

-----------------------------------------------------------------------------
(* What the comments and the README say, and the code does not keep to.        *)

(* The sources themselves keep a build from succeeding.                        *)
Faulty ==
  \/ \E f \in Present : content[f] # "ok"
  \/ \E f, g \in Present \ Routes : f # g /\ Symbol[f] = Symbol[g]

(* "watch files, rebuild incrementally, restart the server and ping browsers   *)
(* via SSE" (dev.c 17-18), "correct live reload only" (README 158): once the   *)
(* editor stops, the open page shows the sources that are there, each route    *)
(* running its own handler, unless cerco dev has ended or the sources are at   *)
(* fault.                                                                      *)
EditsShown ==
  <>[](\/ dpc = "exited"
       \/ Faulty
       \/ Present \subseteq view /\ \A p \in srvbound : p[1] = p[2])
=============================================================================
