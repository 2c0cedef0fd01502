------------------------------ MODULE DevLoop ------------------------------
(* cerco dev (cli/dev.c) around Build: build, start the server as a child,     *)
(* watch src/, rebuild, restart.  A session may end at any time and a later    *)
(* one start over what it left in .cerco and dist; files are edited meanwhile. *)
EXTENDS Build

CONSTANT MaxSessions    \* bound: times cerco dev is started

ASSUME DevAssumption == MaxSessions \in Nat \ {0}

VARIABLES
  dpc,      \* where cmd_dev is; "initial": watching, nothing rebuilt yet;
            \* "ready" and "watch": the last rebuild succeeded, failed
  sessions, \* sessions started
  child,    \* the server process: "none", "up", "dead" (not yet reaped)
  served,   \* files of which the child has the present source
  srvbound  \* what bound was in the binary the child runs

devVars == <<dpc, sessions, child, served, srvbound>>
vars == <<srcVars, objVars, buildVars, devVars>>

TypeOK ==
  /\ BuildTypeOK
  /\ dpc \in {"start", "initial", "build", "ready", "watch", "exited"}
  /\ sessions \in 1 .. MaxSessions
  /\ child \in {"none", "up", "dead"}
  /\ served \subseteq Files /\ srvbound \subseteq Routes \X Routes

Init ==
  /\ BuildInit
  /\ dpc = "start" /\ sessions = 1
  /\ child = "none" /\ served = {} /\ srvbound = {}

-----------------------------------------------------------------------------
Edited(f) ==
  /\ served' = served \ {u[2] : u \in Stale(f)}
  /\ UNCHANGED <<dpc, sessions, child, srvbound>>

EditorSaves(f, c) == Save(f, c) /\ Edited(f)
EditorRemoves(f) == Remove(f) /\ Edited(f)

BuildSteps ==
  /\ dpc \in {"start", "build"}
  /\ \/ Scan \/ ClientDone \/ ServerDone
     \/ \E u \in todo : JobSkips(u) \/ JobStarts(u)
     \/ \E j \in compiling : JobEnds(j)
  /\ UNCHANGED devVars

(* die() leaves the child running; so does a child that is up too late.        *)
DevExits ==
  /\ dpc' = "exited"
  /\ UNCHANGED <<srcVars, objVars, buildVars, sessions, child, served, srvbound>>

BuildDies == dpc # "exited" /\ bpc = "die" /\ DevExits

(* Ctrl-C, during a build too: the compilers go with it.                       *)
Interrupted ==
  /\ dpc # "exited" /\ sessions < MaxSessions
  /\ dpc' = "exited" /\ child' = "none"
  /\ UNCHANGED <<srcVars, objVars, buildVars, sessions, served, srvbound>>

(* cerco dev again, over what is there.                                        *)
DevRestarts ==
  /\ dpc = "exited" /\ sessions < MaxSessions
  /\ dpc' = "start" /\ sessions' = sessions + 1 /\ child' = "none"
  /\ bpc' = "scan" /\ todo' = {} /\ compiling' = {} /\ torn' = {}
  /\ UNCHANGED <<srcVars, objVars, failed, linked, served, srvbound>>

(* spawn_server and wait_server_up.                                            *)
spawn_server ==
  /\ child' = "up"
  /\ served' = outcur["server"]
  /\ srvbound' = bound

SpawnFails ==
  /\ bpc = "ok"
  /\ dpc = "start" \/ (dpc = "build" /\ linked)
  /\ DevExits

(* The initial build is over.  The first watch_scan is the baseline.           *)
InitialFails ==
  /\ dpc = "start" /\ bpc = "fail"
  /\ dpc' = "initial"
  /\ changed' = FALSE
  /\ UNCHANGED <<content, edits, objVars, buildVars, sessions, child, served, srvbound>>

InitialServes ==
  /\ dpc = "start" /\ bpc = "ok"
  /\ dpc' = "initial"
  /\ changed' = FALSE
  /\ spawn_server
  /\ UNCHANGED <<content, edits, objVars, buildVars, sessions>>

(* The watch loop finds the child dead, or a change.                           *)
Watching == dpc \in {"initial", "ready", "watch"}

ChildDead == Watching /\ child = "dead" /\ DevExits

ChangeDetected ==
  /\ Watching /\ child # "dead" /\ changed
  /\ changed' = FALSE
  /\ dpc' = "build" /\ bpc' = "scan"
  /\ UNCHANGED <<content, edits, objVars, todo, compiling, torn, failed, linked,
                 sessions, child, served, srvbound>>

BuildFails ==
  /\ dpc = "build" /\ bpc = "fail"
  /\ dpc' = "watch"
  /\ UNCHANGED <<srcVars, objVars, buildVars, sessions, child, served, srvbound>>

(* The binary's mtime tells whether it was linked again.                       *)
Mut_Restarts == FALSE
Restarts == linked

Mut_Rescans == FALSE
Rescans == changed

Ready ==
  /\ dpc = "build" /\ bpc = "ok"
  /\ dpc' = "ready"
  /\ changed' = Rescans
  /\ IF Restarts THEN spawn_server ELSE UNCHANGED <<child, served, srvbound>>
  /\ UNCHANGED <<content, edits, objVars, buildVars, sessions>>

ServerDies ==
  /\ child = "up"
  /\ child' = "dead"
  /\ UNCHANGED <<srcVars, objVars, buildVars, dpc, sessions, served, srvbound>>

DevSteps ==
  \/ BuildSteps \/ BuildDies \/ InitialFails \/ InitialServes
  \/ ChildDead \/ ChangeDetected \/ BuildFails \/ Ready

EditorSteps ==
  \E f \in Files : \/ \E c \in {"ok", "error", "client"} : EditorSaves(f, c)
                   \/ EditorRemoves(f)

Next == EditorSteps \/ DevSteps \/ SpawnFails \/ Interrupted \/ DevRestarts \/ ServerDies

(* cerco dev and the compilers run on.                                         *)
Spec == Init /\ [][Next]_vars /\ WF_vars(DevSteps)

-----------------------------------------------------------------------------
(* What a page loaded now is made of: the server's part from the child, the    *)
(* client's and everything else from dist/ and src/.                           *)
Serving(has, wasm) ==
  {f \in Files : /\ "server" \in UnitsOf[f] => f \in has
                 /\ "wasm" \in UnitsOf[f] => f \in wasm}

(* By their times no source is newer than its object; both outputs have what   *)
(* the objects have; the server is the binary on disk, its table that of the   *)
(* present routes, each bound to the object that defines its name.             *)
ServesObjects ==
  /\ \A u \in Units : u[2] \in Present => u \in objs \ newer
  /\ \A u \in objcur : u[2] \in Present =>
       u[2] \in (IF u[1] = "server" THEN served ELSE outcur["wasm"])
  /\ srvbound = Bind(RouteTable) /\ \A f \in RouteTable : \E p \in srvbound : p[1] = f

(* When cerco dev has announced "ready" over a server and nothing has changed  *)
(* since, that server is what the objects of the present sources make,         *)
(* whatever failed, was skipped, was cut short or was left by an earlier       *)
(* session before; edits during a build are detected (dev.c 348-380, build.c   *)
(* 628-633, 1308-1322).                                                        *)
ReadyServesItsObjects ==
  dpc = "ready" /\ ~changed /\ child # "none" => ServesObjects

(* Why a build may fail: a source that does not compile, or what is in the     *)
(* object directory does not link.                                             *)
Broken == (\E f \in Present : content[f] = "error") \/ \E o \in Outs : LinkFails(o)

(* Once the editor stops, the loop comes to rest: ended; or watching what the  *)
(* initial build left; or "ready", with the objects of the present sources     *)
(* served; or with a build that failed for a reason that is still there.       *)
(* Nothing is left undetected or half done (dev.c 348-380).                    *)
EditsSettled ==
  <>[](\/ dpc \in {"exited", "initial"}
       \/ dpc = "ready" /\ ~changed /\ (child = "none" \/ ServesObjects)
       \/ dpc = "watch" /\ ~changed /\ Broken)

=============================================================================
