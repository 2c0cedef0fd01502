------------------------------ MODULE DevProofs ------------------------------
(* Theorems about DevLoop, for every project layout, every number of compiler  *)
(* threads, of edits and of sessions.                                          *)
EXTENDS DevLoop, FiniteSetTheorems, TLAPS

-----------------------------------------------------------------------------
(* The inductive invariant.                                                    *)

(* Where cmd_dev and cmd_build are, together; threads compile for one output   *)
(* at a time.                                                                  *)
PhaseInv ==
  /\ dpc = "initial" => bpc \in {"ok", "fail"}
  /\ dpc = "watch" => bpc = "fail"
  /\ dpc = "ready" => bpc = "ok"
  /\ bpc = "client" => /\ todo \subseteq For("wasm")
                       /\ \A j \in compiling : j.unit \in For("wasm")
  /\ bpc = "server" => /\ todo \subseteq For("server")
                       /\ \A j \in compiling : j.unit \in For("server")
  /\ bpc \notin {"client", "server"} => todo = {} /\ compiling = {}
  /\ IsFiniteSet(compiling)

(* An object that is not older than its source exists.                         *)
ObjectsInv == Units \ newer \subseteq objs

(* An output has everything current that its objects have. *)
LinkedAll(o) == \A u \in objcur \cap For(o) : u[2] \in outcur[o]

(* What the comparisons of times tell about the outputs.                       *)
OutputsInv ==
  /\ \A o \in Outs : o \notin relink => LinkedAll(o)
  /\ bpc \in {"server", "ok"} => LinkedAll("wasm")
  /\ bpc = "ok" => "server" \notin relink /\ ~gennew

(* The binary has each route of the table, bound to the object that defines    *)
(* its name.                                                                   *)
Binds(R) == bound = Bind(R) /\ \A f \in R : \E p \in bound : p[1] = f

(* What they tell about the generated table.                                   *)
TableInv == "server" \notin relink /\ ~gennew => Binds(table)

(* A rebuild is running, or was the last, and nothing under src/ has changed   *)
(* since it began.                                                             *)
Still == dpc \in {"build", "ready"} /\ ~changed

(* The sources compiled for o are compiled, or a compile has failed.           *)
Compiled(o) == \A u \in For(o) : u[2] \in Present => u \notin newer

UnderWay(o) ==
  \/ failed
  \/ \A u \in For(o) : u[2] \in Present /\ u \in newer =>
       u \in todo \/ \E j \in compiling : j.unit = u

(* How far the build has come when nothing changes under it.                   *)
ProgressInv ==
  Still => /\ bpc \in {"client", "server", "ok"} => table = RouteTable
           /\ bpc = "client" => UnderWay("wasm")
           /\ bpc \in {"server", "ok"} => Compiled("wasm")
           /\ bpc = "server" => UnderWay("server")
           /\ bpc = "ok" => Compiled("server")

(* The binary on disk has been linked and is about to be started.              *)
Restarting == bpc = "ok" /\ linked /\ dpc = "build"

(* The child runs the binary on disk; a session starts without one.            *)
ChildInv ==
  /\ dpc = "start" => child = "none"
  /\ dpc # "exited" /\ child # "none" /\ ~Restarting =>
       /\ \A u \in For("server") :
            u[2] \in Present \cap outcur["server"] => u[2] \in served
       /\ srvbound = bound

DevInv ==
  /\ TypeOK /\ PhaseInv /\ ObjectsInv /\ OutputsInv /\ TableInv
  /\ ProgressInv /\ ChildInv

(* Every unit is compiled from a file for one of the two outputs.              *)
LEMMA UnitFacts ==
  /\ \A o : For(o) \subseteq Units
  /\ \A f : Of(f) \subseteq Units /\ Stale(f) \subseteq Units
  /\ \A u \in Units : u[1] \in Outs /\ u[2] \in Files /\ u \in For(u[1]) /\ u \in Of(u[2])
  /\ \A o \in Outs, f \in Files : o \in UnitsOf[f] => <<o, f>> \in For(o)
BY DEF Units, For, Of, Stale

(* The steps of the development loop, one by one.                              *)
LEMMA DevStepCases ==
  ASSUME [Next]_vars
  PROVE  \/ \E f \in Files : \/ \E c \in {"ok", "error", "client"} : EditorSaves(f, c)
                             \/ EditorRemoves(f)
         \/ /\ dpc \in {"start", "build"} /\ UNCHANGED devVars
            /\ \/ Scan \/ ClientDone \/ ServerDone
               \/ \E u \in todo : JobSkips(u) \/ JobStarts(u)
               \/ \E j \in compiling : JobEnds(j)
         \/ BuildDies \/ InitialFails \/ InitialServes \/ ChildDead \/ ChangeDetected
         \/ BuildFails \/ Ready \/ SpawnFails \/ Interrupted \/ DevRestarts \/ ServerDies
         \/ UNCHANGED vars
BY Zenon DEF Next, EditorSteps, DevSteps, BuildSteps

(* Only finitely many compilers run, as many as there are threads at most.     *)
LEMMA StartBounded ==
  ASSUME TypeOK, IsFiniteSet(compiling), NEW u \in todo, JobStarts(u)
  PROVE  IsFiniteSet(compiling') /\ Cardinality(compiling') <= Jobs
<1> DEFINE j == [unit |-> u, ok |-> content[u[2]] = "ok"]
<1>1. compiling' = compiling \cup {j} /\ Cardinality(compiling) < Jobs
  BY DEF JobStarts
<1> HIDE DEF j
<1>2. /\ IsFiniteSet(compiling') /\ Cardinality(compiling) \in Nat
      /\ \/ Cardinality(compiling') = Cardinality(compiling)
         \/ Cardinality(compiling') = Cardinality(compiling) + 1
  BY <1>1, FS_AddElement, FS_CardinalityType
<1> QED
  BY <1>1, <1>2, BuildAssumption

(* A compiler that ends leaves fewer of them.                                  *)
LEMMA EndBounded ==
  ASSUME TypeOK, IsFiniteSet(compiling), NEW j \in compiling, JobEnds(j)
  PROVE  IsFiniteSet(compiling') /\ Cardinality(compiling') <= Jobs
<1>1. compiling' = compiling \ {j}
  BY DEF JobEnds
<1>2. /\ IsFiniteSet(compiling') /\ Cardinality(compiling) \in Nat
      /\ Cardinality(compiling') = Cardinality(compiling) - 1
  BY <1>1, FS_RemoveElement, FS_CardinalityType
<1> QED
  BY <1>2, BuildAssumption DEF TypeOK, BuildTypeOK

(* Linking an output keeps the type of outcur.                                 *)
LEMMA LinkedType ==
  ASSUME TypeOK, NEW o \in Outs
  PROVE  Linked(o) \in [Outs -> SUBSET Files]
<1>1. {u[2] : u \in objcur \cap For(o)} \subseteq Files
  BY UnitFacts
<1> QED
  BY <1>1 DEF Linked, TypeOK, BuildTypeOK

(* A route's object has the name of a scan, or none.                           *)
LEMMA NameType ==
  ASSUME TypeOK, NEW f \in Routes
  PROVE  NameGiven(f) \in RouteSyms
<1> DEFINE sym == SymIn(table, f)
<1>1. sym \in RouteSyms
  BY DEF RouteSyms, TypeOK, BuildTypeOK
<1>2. Unnamed \in RouteSyms
  BY DEF RouteSyms
<1> QED
  BY <1>1, <1>2 DEF NameGiven

(* TypeOK is kept.                                                             *)
LEMMA TypeKeeps ==
  ASSUME DevInv, [Next]_vars
  PROVE  TypeOK'
<1> USE DEF DevInv, PhaseInv, TypeOK, BuildTypeOK
<1>1. ASSUME NEW f \in Files, NEW c \in {"ok", "error", "client"}, EditorSaves(f, c)
      PROVE  TypeOK'
  BY <1>1, BuildAssumption, UnitFacts DEF EditorSaves, Save, Edited
<1>2. ASSUME NEW f \in Files, EditorRemoves(f) PROVE TypeOK'
  BY <1>2, BuildAssumption, UnitFacts DEF EditorRemoves, Remove, Edited, objVars, buildVars
<1>3. CASE dpc \in {"start", "build"} /\ UNCHANGED devVars /\ Scan
  <2>1. CASE \E f \in Routes : content[f] = "client"
    <3>1. bpc' = "die" /\ UNCHANGED <<table, gennew, todo>>
      BY <1>3, <2>1 DEF Scan
    <3> QED
      BY <1>3, <3>1 DEF Scan, srcVars, devVars
  <2>2. CASE ~ \E f \in Routes : content[f] = "client"
    <3>1. /\ bpc' = "client" /\ table' = RouteTable
          /\ gennew' = (gennew \/ table # RouteTable)
          /\ todo' = {u \in For("wasm") : u[2] \in Present}
      BY <1>3, <2>2 DEF Scan
    <3>2. RouteTable \subseteq Routes /\ todo' \subseteq Units
      BY <3>1, UnitFacts DEF RouteTable
    <3>3. table' \subseteq Routes
      BY <3>1, <3>2
    <3>4. gennew' \in BOOLEAN
      BY <3>1
    <3>5. bpc' \in {"scan", "client", "server", "ok", "fail", "die"}
      BY <3>1
    <3> QED
      BY <1>3, <3>2, <3>3, <3>4, <3>5 DEF Scan, srcVars, devVars
  <2> QED
    BY <2>1, <2>2
<1>4. CASE dpc \in {"start", "build"} /\ UNCHANGED devVars /\ ClientDone
  <2>1. outcur' \in [Outs -> SUBSET Files]
    <3>1. Linked("wasm") \in [Outs -> SUBSET Files]
      BY LinkedType DEF Outs
    <3> QED
      BY <1>4, <3>1 DEF ClientDone
  <2>2. todo' \subseteq Units /\ relink' \subseteq Outs /\ bpc' \in {"fail", "server"}
    BY <1>4, UnitFacts DEF ClientDone
  <2> QED
    BY <1>4, <2>1, <2>2 DEF ClientDone, srcVars, devVars
<1>5. CASE dpc \in {"start", "build"} /\ UNCHANGED devVars /\ ServerDone
  <2>1. outcur' \in [Outs -> SUBSET Files]
    <3>1. Linked("server") \in [Outs -> SUBSET Files]
      BY LinkedType DEF Outs
    <3> QED
      BY <1>5, <3>1 DEF ServerDone
  <2>2. relink' \subseteq Outs /\ bpc' \in {"fail", "ok"}
    BY <1>5 DEF ServerDone
  <2>3. bound' \subseteq Routes \X Routes
    <3>1. Bind(table) \subseteq Routes \X Routes
      BY DEF Bind
    <3>2. bound' = bound \/ bound' = Bind(table)
      BY <1>5 DEF ServerDone
    <3> QED
      BY <3>1, <3>2
  <2>4. linked' \in BOOLEAN /\ gennew' \in BOOLEAN
    BY <1>5 DEF ServerDone
  <2> QED
    BY <1>5, <2>1, <2>2, <2>3, <2>4 DEF ServerDone, srcVars, devVars
<1>6. ASSUME NEW u \in todo, JobSkips(u), UNCHANGED devVars PROVE TypeOK'
  BY <1>6, BuildAssumption, UnitFacts DEF JobSkips, srcVars, objVars, devVars
<1>7. ASSUME NEW u \in todo, JobStarts(u), UNCHANGED devVars PROVE TypeOK'
  <2>1. IsFiniteSet(compiling') /\ Cardinality(compiling') <= Jobs
    BY <1>7, StartBounded
  <2>2. compiling' \subseteq [unit : Units, ok : BOOLEAN] /\ todo' \subseteq Units
    <3>1. \A b \in BOOLEAN : [unit |-> u, ok |-> b] \in [unit : Units, ok : BOOLEAN]
      OBVIOUS
    <3>2. (content[u[2]] = "ok") \in BOOLEAN
      OBVIOUS
    <3>3. [unit |-> u, ok |-> content[u[2]] = "ok"] \in [unit : Units, ok : BOOLEAN]
      BY <3>1, <3>2, Zenon
    <3> QED
      BY <1>7, <3>3 DEF JobStarts
  <2> QED
    BY <1>7, <2>1, <2>2 DEF JobStarts, srcVars, objVars, devVars
<1>8. ASSUME NEW j \in compiling, JobEnds(j), UNCHANGED devVars PROVE TypeOK'
  <2>1. Cardinality(compiling') <= Jobs
    BY <1>8, EndBounded
  <2>2. j.unit \in Units
    OBVIOUS
  <2>3. /\ newer' \subseteq Units /\ objs' \subseteq Units /\ objcur' \subseteq objs'
        /\ torn' \subseteq Units
        /\ compiling' \subseteq [unit : Units, ok : BOOLEAN]
    BY <1>8, <2>2 DEF JobEnds
  <2>4. failed' \in BOOLEAN /\ relink' \subseteq Outs
    BY <1>8 DEF JobEnds
  <2>5. osym' \in [Routes -> RouteSyms]
    BY <1>8, NameType DEF JobEnds
  <2> QED
    BY <1>8, <2>1, <2>3, <2>4, <2>5 DEF JobEnds, srcVars, devVars
<1>9. CASE BuildDies
  BY <1>9, BuildAssumption, UnitFacts DEF BuildDies, DevExits, srcVars, objVars, buildVars
<1>10. CASE SpawnFails
  BY <1>10, BuildAssumption, UnitFacts DEF SpawnFails, DevExits, srcVars, objVars, buildVars
<1>11. CASE ChildDead
  BY <1>11, BuildAssumption, UnitFacts DEF ChildDead, DevExits, srcVars, objVars, buildVars
<1>12. CASE InitialFails
  BY <1>12, BuildAssumption, UnitFacts DEF InitialFails, objVars, buildVars
<1>13. CASE InitialServes
  <2>1. served' \subseteq Files /\ srvbound' \subseteq Routes \X Routes
    BY <1>13 DEF InitialServes, spawn_server, Outs
  <2> QED
    BY <1>13, <2>1 DEF InitialServes, spawn_server, objVars, buildVars
<1>14. CASE ChangeDetected
  BY <1>14, BuildAssumption, UnitFacts DEF ChangeDetected, Watching, objVars
<1>15. CASE BuildFails
  BY <1>15, BuildAssumption, UnitFacts DEF BuildFails, srcVars, objVars, buildVars
<1>16. CASE Ready
  <2>1. served' \subseteq Files /\ srvbound' \subseteq Routes \X Routes
    BY <1>16 DEF Ready, spawn_server, Outs
  <2>2. child' \in {"none", "up", "dead"} /\ changed' \in BOOLEAN
    BY <1>16 DEF Ready, spawn_server, Rescans
  <2> QED
    BY <1>16, <2>1, <2>2 DEF Ready, objVars, buildVars
<1>17. CASE Interrupted
  BY <1>17 DEF Interrupted, srcVars, objVars, buildVars
<1>18. CASE ServerDies
  BY <1>18, BuildAssumption, UnitFacts DEF ServerDies, srcVars, objVars, buildVars
<1>19. CASE UNCHANGED vars
  BY <1>19, BuildAssumption, UnitFacts DEF vars, srcVars, objVars, buildVars, devVars
<1>20. CASE DevRestarts
  <2>1. Cardinality(compiling') <= Jobs
    BY <1>20, FS_EmptySet, BuildAssumption DEF DevRestarts
  <2>2. sessions' \in 1 .. MaxSessions
    BY <1>20, DevAssumption DEF DevRestarts
  <2> QED
    BY <1>20, <2>1, <2>2 DEF DevRestarts, srcVars, objVars
<1> QED
  BY DevStepCases, <1>1, <1>2, <1>3, <1>4, <1>5, <1>6, <1>7, <1>8, <1>9,
     <1>10, <1>11, <1>12, <1>13, <1>14, <1>15, <1>16, <1>17, <1>18, <1>19, <1>20,
     Zenon

(* PhaseInv is kept.                                                           *)
LEMMA PhaseKeeps ==
  ASSUME DevInv, [Next]_vars
  PROVE  PhaseInv'
<1> USE DEF DevInv, PhaseInv
<1>1. ASSUME NEW f \in Files, NEW c \in {"ok", "error", "client"}, EditorSaves(f, c)
      PROVE  PhaseInv'
  BY <1>1, UnitFacts DEF EditorSaves, Save, Edited
<1>2. ASSUME NEW f \in Files, EditorRemoves(f) PROVE PhaseInv'
  BY <1>2, UnitFacts DEF EditorRemoves, Remove, Edited, objVars, buildVars
<1>3. CASE dpc \in {"start", "build"} /\ UNCHANGED devVars /\ Scan
  BY <1>3, UnitFacts DEF Scan, srcVars, devVars
<1>4. CASE dpc \in {"start", "build"} /\ UNCHANGED devVars /\ ClientDone
  <2>1. /\ compiling' = {} /\ dpc' \in {"start", "build"}
        /\ \/ bpc' = "fail" /\ todo' = {}
           \/ bpc' = "server" /\ todo' \subseteq For("server")
    BY <1>4 DEF ClientDone, PoolDone, devVars
  <2> QED
    BY <2>1, FS_EmptySet
<1>5. CASE dpc \in {"start", "build"} /\ UNCHANGED devVars /\ ServerDone
  <2>1. /\ compiling' = {} /\ dpc' \in {"start", "build"}
        /\ bpc' \in {"fail", "ok"} /\ todo' = {}
    BY <1>5 DEF ServerDone, PoolDone, devVars
  <2> QED
    BY <2>1, FS_EmptySet
<1>6. ASSUME NEW u \in todo, JobSkips(u), UNCHANGED devVars PROVE PhaseInv'
  BY <1>6, UnitFacts DEF JobSkips, srcVars, objVars, devVars
<1>7. ASSUME NEW u \in todo, JobStarts(u), UNCHANGED devVars PROVE PhaseInv'
  <2>1. IsFiniteSet(compiling')
    BY <1>7, StartBounded
  <2>2. /\ todo' \subseteq todo /\ bpc' = bpc /\ dpc' = dpc
        /\ \A k \in compiling' : k \in compiling \/ k.unit = u
    BY <1>7 DEF JobStarts, devVars
  <2>3. bpc \in {"client", "server"}
    OBVIOUS
  <2> QED
    BY <2>1, <2>2, <2>3
<1>8. ASSUME NEW j \in compiling, JobEnds(j), UNCHANGED devVars PROVE PhaseInv'
  BY <1>8, UnitFacts, EndBounded DEF JobEnds, srcVars, devVars
<1>9. CASE BuildDies
  BY <1>9, UnitFacts DEF BuildDies, DevExits, srcVars, objVars, buildVars
<1>10. CASE SpawnFails
  BY <1>10, UnitFacts DEF SpawnFails, DevExits, srcVars, objVars, buildVars
<1>11. CASE ChildDead
  BY <1>11, UnitFacts DEF ChildDead, DevExits, srcVars, objVars, buildVars
<1>12. CASE InitialFails
  BY <1>12, UnitFacts DEF InitialFails, objVars, buildVars
<1>13. CASE InitialServes
  BY <1>13, UnitFacts DEF InitialServes, spawn_server, objVars, buildVars
<1>14. CASE ChangeDetected
  BY <1>14, UnitFacts DEF ChangeDetected, Watching, objVars
<1>15. CASE BuildFails
  BY <1>15, UnitFacts DEF BuildFails, srcVars, objVars, buildVars
<1>16. CASE Ready
  BY <1>16, UnitFacts DEF Ready, Restarts, Rescans, spawn_server, objVars, buildVars
<1>17. CASE Interrupted
  BY <1>17, UnitFacts DEF Interrupted, srcVars, objVars, buildVars
<1>18. CASE ServerDies
  BY <1>18, UnitFacts DEF ServerDies, srcVars, objVars, buildVars
<1>19. CASE UNCHANGED vars
  BY <1>19, UnitFacts DEF vars, srcVars, objVars, buildVars, devVars
<1>20. CASE DevRestarts
  BY <1>20, FS_EmptySet DEF DevRestarts
<1> QED
  BY DevStepCases, <1>1, <1>2, <1>3, <1>4, <1>5, <1>6, <1>7, <1>8, <1>9,
     <1>10, <1>11, <1>12, <1>13, <1>14, <1>15, <1>16, <1>17, <1>18, <1>19, <1>20,
     Zenon

(* ObjectsInv is kept.                                                         *)
LEMMA ObjectsKeeps ==
  ASSUME DevInv, [Next]_vars
  PROVE  ObjectsInv'
<1> USE DEF DevInv, ObjectsInv, TypeOK, BuildTypeOK
<1>1. ASSUME NEW f \in Files, NEW c \in {"ok", "error", "client"}, EditorSaves(f, c)
      PROVE  ObjectsInv'
  BY <1>1 DEF EditorSaves, Save
<1>2. ASSUME NEW f \in Files, EditorRemoves(f) PROVE ObjectsInv'
  BY <1>2, UnitFacts DEF EditorRemoves, Remove, Edited, objVars, buildVars
<1>3. CASE dpc \in {"start", "build"} /\ UNCHANGED devVars /\ Scan
  BY <1>3, UnitFacts DEF Scan, srcVars, devVars
<1>4. CASE dpc \in {"start", "build"} /\ UNCHANGED devVars /\ ClientDone
  BY <1>4, UnitFacts DEF ClientDone, PoolDone, srcVars, devVars
<1>5. CASE dpc \in {"start", "build"} /\ UNCHANGED devVars /\ ServerDone
  BY <1>5, UnitFacts DEF ServerDone, PoolDone, srcVars, devVars
<1>6. ASSUME NEW u \in todo, JobSkips(u), UNCHANGED devVars PROVE ObjectsInv'
  BY <1>6, UnitFacts DEF JobSkips, srcVars, objVars, devVars
<1>7. ASSUME NEW u \in todo, JobStarts(u), UNCHANGED devVars PROVE ObjectsInv'
  BY <1>7, UnitFacts DEF JobStarts, srcVars, objVars, devVars
<1>8. ASSUME NEW j \in compiling, JobEnds(j), UNCHANGED devVars PROVE ObjectsInv'
  BY <1>8, UnitFacts DEF JobEnds, srcVars, devVars
<1>9. CASE BuildDies
  BY <1>9, UnitFacts DEF BuildDies, DevExits, srcVars, objVars, buildVars
<1>10. CASE SpawnFails
  BY <1>10, UnitFacts DEF SpawnFails, DevExits, srcVars, objVars, buildVars
<1>11. CASE ChildDead
  BY <1>11, UnitFacts DEF ChildDead, DevExits, srcVars, objVars, buildVars
<1>12. CASE InitialFails
  BY <1>12, UnitFacts DEF InitialFails, objVars, buildVars
<1>13. CASE InitialServes
  BY <1>13, UnitFacts DEF InitialServes, spawn_server, objVars, buildVars
<1>14. CASE ChangeDetected
  BY <1>14, UnitFacts DEF ChangeDetected, Watching, objVars
<1>15. CASE BuildFails
  BY <1>15, UnitFacts DEF BuildFails, srcVars, objVars, buildVars
<1>16. CASE Ready
  BY <1>16, UnitFacts DEF Ready, Restarts, Rescans, spawn_server, objVars, buildVars
<1>17. CASE Interrupted
  BY <1>17, UnitFacts DEF Interrupted, srcVars, objVars, buildVars
<1>18. CASE ServerDies
  BY <1>18, UnitFacts DEF ServerDies, srcVars, objVars, buildVars
<1>19. CASE UNCHANGED vars
  BY <1>19, UnitFacts DEF vars, srcVars, objVars, buildVars, devVars
<1>20. CASE DevRestarts
  BY <1>20, UnitFacts DEF DevRestarts, srcVars, objVars
<1> QED
  BY DevStepCases, <1>1, <1>2, <1>3, <1>4, <1>5, <1>6, <1>7, <1>8, <1>9,
     <1>10, <1>11, <1>12, <1>13, <1>14, <1>15, <1>16, <1>17, <1>18, <1>19, <1>20,
     Zenon


(* Linking an output puts everything current into it and nothing elsewhere.    *)
LEMMA LinkedSound ==
  ASSUME TypeOK, NEW o \in Outs, outcur' = Linked(o), UNCHANGED objcur
  PROVE  /\ LinkedAll(o)'
         /\ \A p \in Outs : p # o => outcur'[p] = outcur[p]
BY DEF TypeOK, BuildTypeOK, Linked, LinkedAll

(* A saved file leaves objects and outputs together.                           *)
LEMMA SaveLinked ==
  ASSUME TypeOK, NEW f \in Files, NEW c, Save(f, c), NEW o \in Outs, LinkedAll(o)
  PROVE  LinkedAll(o)'
<1> SUFFICES ASSUME NEW u \in objcur \cap For(o), u \notin Stale(f)
             PROVE  u[2] \in outcur'[o]
  BY DEF LinkedAll, Save, Stale
<1>1. u \in Units /\ u[2] \in outcur[o]
  BY UnitFacts DEF LinkedAll
<1>2. \A v \in Stale(f) : v[2] # u[2]
  <2>1. f \notin Headers
    BY <1>1 DEF LinkedAll, Stale
  <2> QED
    BY <1>1, <2>1 DEF Stale, Of
<1> QED
  BY <1>1, <1>2 DEF Save

(* OutputsInv is kept.                                                         *)
LEMMA OutputsKeeps ==
  ASSUME DevInv, [Next]_vars
  PROVE  OutputsInv'
<1> USE DEF DevInv, OutputsInv, TypeOK, BuildTypeOK
<1>1. ASSUME NEW f \in Files, NEW c \in {"ok", "error", "client"}, EditorSaves(f, c)
      PROVE  OutputsInv'
  <2>1. /\ UNCHANGED <<relink, gennew, bpc>>
        /\ \A o \in Outs : LinkedAll(o) => LinkedAll(o)'
    BY <1>1, SaveLinked DEF EditorSaves, Save
  <2> QED
    BY <2>1 DEF Outs
<1>2. ASSUME NEW f \in Files, EditorRemoves(f) PROVE OutputsInv'
  BY <1>2 DEF LinkedAll, EditorRemoves, Remove, Edited, objVars, buildVars
<1>3. CASE dpc \in {"start", "build"} /\ UNCHANGED devVars /\ Scan
  BY <1>3 DEF LinkedAll, Scan, srcVars, devVars
<1>4. CASE dpc \in {"start", "build"} /\ UNCHANGED devVars /\ ClientDone
  <2>1. CASE bpc' = "fail" /\ UNCHANGED <<relink, outcur, todo>>
    BY <1>4, <2>1 DEF ClientDone, LinkedAll
  <2>2. CASE /\ bpc' = "server" /\ relink' = relink \ {"wasm"}
             /\ outcur' = IF outputs_up_to_date("wasm", relink) THEN outcur ELSE Linked("wasm")
    <3>1. LinkedAll("wasm")' /\ outcur'["server"] = outcur["server"]
      BY <1>4, <2>2, LinkedSound DEF ClientDone, outputs_up_to_date, LinkedAll, Outs
    <3>2. LinkedAll("server") => LinkedAll("server")'
      BY <1>4, <3>1 DEF ClientDone, LinkedAll
    <3> QED
      BY <1>4, <2>2, <3>1, <3>2 DEF ClientDone, Outs
  <2> QED
    BY <1>4, <2>1, <2>2 DEF ClientDone
<1>5. CASE dpc \in {"start", "build"} /\ UNCHANGED devVars /\ ServerDone
  <2> DEFINE old == IF gennew THEN Outs ELSE relink
  <2>1. ~gennew' /\ LinkedAll("wasm")
    BY <1>5 DEF ServerDone
  <2>2. CASE bpc' = "fail" /\ relink' = old /\ UNCHANGED outcur
    <3>1. \A o \in Outs : LinkedAll(o) => LinkedAll(o)'
      BY <1>5, <2>2 DEF ServerDone, LinkedAll
    <3> QED
      BY <2>1, <2>2, <3>1
  <2>3. CASE /\ bpc' = "ok" /\ relink' = old \ {"server"}
             /\ outputs_up_to_date("server", old) /\ UNCHANGED outcur
    <3>1. \A o \in Outs : LinkedAll(o) => LinkedAll(o)'
      BY <1>5, <2>3 DEF ServerDone, LinkedAll
    <3>2. "server" \notin relink /\ old = relink
      BY <2>3 DEF outputs_up_to_date, Outs
    <3> QED
      BY <2>1, <2>3, <3>1, <3>2 DEF Outs
  <2>4. CASE /\ bpc' = "ok" /\ relink' = old \ {"server"}
             /\ outcur' = Linked("server")
    <3>1. LinkedAll("server")' /\ outcur'["wasm"] = outcur["wasm"]
      BY <1>5, <2>4, LinkedSound DEF ServerDone, Outs
    <3>2. LinkedAll("wasm")'
      BY <1>5, <2>1, <3>1 DEF ServerDone, LinkedAll
    <3> QED
      BY <2>1, <2>4, <3>1, <3>2 DEF Outs
  <2> QED
    BY <1>5, <2>2, <2>3, <2>4 DEF ServerDone
<1>6. ASSUME NEW u \in todo, JobSkips(u), UNCHANGED devVars PROVE OutputsInv'
  BY <1>6 DEF LinkedAll, JobSkips, srcVars, objVars, devVars
<1>7. ASSUME NEW u \in todo, JobStarts(u), UNCHANGED devVars PROVE OutputsInv'
  BY <1>7 DEF LinkedAll, JobStarts, srcVars, objVars, devVars
<1>8. ASSUME NEW j \in compiling, JobEnds(j), UNCHANGED devVars PROVE OutputsInv'
  <2>1. /\ UNCHANGED <<outcur, gennew, bpc>>
        /\ relink' = Outs \/ UNCHANGED relink
        /\ relink' = relink => UNCHANGED objcur \/ relink = Outs
    BY <1>8 DEF LinkedAll, JobEnds
  <2>2. \A u \in objcur' : u \in objcur \/ u = j.unit
    BY <1>8 DEF LinkedAll, JobEnds
  <2>3. bpc \in {"client", "server"}
    BY DEF PhaseInv
  <2>4. bpc = "server" => LinkedAll("wasm")'
    <3>1. bpc = "server" => j.unit \notin For("wasm")
      BY DEF PhaseInv, For
    <3> QED
      BY <2>1, <2>2, <3>1 DEF LinkedAll
  <2>5. CASE relink' = Outs
    BY <2>1, <2>3, <2>4, <2>5 DEF Outs
  <2>6. CASE relink' = relink /\ UNCHANGED objcur
    BY <2>1, <2>3, <2>4, <2>6 DEF LinkedAll
  <2> QED
    BY <2>1, <2>5, <2>6
<1>9. CASE BuildDies
  BY <1>9 DEF LinkedAll, BuildDies, DevExits, srcVars, objVars, buildVars
<1>10. CASE SpawnFails
  BY <1>10 DEF LinkedAll, SpawnFails, DevExits, srcVars, objVars, buildVars
<1>11. CASE ChildDead
  BY <1>11 DEF LinkedAll, ChildDead, DevExits, srcVars, objVars, buildVars
<1>12. CASE InitialFails
  BY <1>12 DEF LinkedAll, InitialFails, objVars, buildVars
<1>13. CASE InitialServes
  BY <1>13 DEF LinkedAll, InitialServes, spawn_server, objVars, buildVars
<1>14. CASE ChangeDetected
  BY <1>14 DEF LinkedAll, ChangeDetected, Watching, objVars
<1>15. CASE BuildFails
  BY <1>15 DEF LinkedAll, BuildFails, srcVars, objVars, buildVars
<1>16. CASE Ready
  BY <1>16 DEF LinkedAll, Ready, Restarts, Rescans, spawn_server, objVars, buildVars
<1>17. CASE Interrupted
  BY <1>17 DEF LinkedAll, Interrupted, srcVars, objVars, buildVars
<1>18. CASE ServerDies
  BY <1>18 DEF LinkedAll, ServerDies, srcVars, objVars, buildVars
<1>19. CASE UNCHANGED vars
  BY <1>19 DEF LinkedAll, vars, srcVars, objVars, buildVars, devVars
<1>20. CASE DevRestarts
  BY <1>20 DEF LinkedAll, DevRestarts, srcVars, objVars
<1> QED
  BY DevStepCases, <1>1, <1>2, <1>3, <1>4, <1>5, <1>6, <1>7, <1>8, <1>9,
     <1>10, <1>11, <1>12, <1>13, <1>14, <1>15, <1>16, <1>17, <1>18, <1>19, <1>20,
     Zenon

(* Steps that leave objects and table alone leave what the binary is bound to.  *)
LEMMA BindsSame ==
  ASSUME UNCHANGED <<objs, osym, table, bound>>
  PROVE  Binds(table) => Binds(table)'
BY DEF Binds, Bind, SymIn

(* TableInv is kept.                                                           *)
LEMMA TableKeeps ==
  ASSUME DevInv, [Next]_vars
  PROVE  TableInv'
<1> USE DEF DevInv, TableInv
<1>1. ASSUME NEW f \in Files, NEW c \in {"ok", "error", "client"}, EditorSaves(f, c)
      PROVE  TableInv'
  BY <1>1, BindsSame DEF EditorSaves, Save
<1>2. ASSUME NEW f \in Files, EditorRemoves(f) PROVE TableInv'
  BY <1>2, BindsSame DEF EditorRemoves, Remove, objVars
<1>3. CASE dpc \in {"start", "build"} /\ UNCHANGED devVars /\ Scan
  <2>1. UNCHANGED <<objs, osym, bound, relink>>
    BY <1>3 DEF Scan
  <2>2. ~gennew' => ~gennew /\ table' = table
    BY <1>3 DEF Scan
  <2> QED
    BY <2>1, <2>2, BindsSame
<1>4. CASE dpc \in {"start", "build"} /\ UNCHANGED devVars /\ ClientDone
  <2>1. UNCHANGED <<objs, osym, table, bound, gennew>>
    BY <1>4 DEF ClientDone
  <2>2. "server" \in relink => "server" \in relink'
    BY <1>4 DEF ClientDone
  <2> QED
    BY <2>1, <2>2, BindsSame
<1>5. CASE dpc \in {"start", "build"} /\ UNCHANGED devVars /\ ServerDone
  <2> DEFINE old == IF gennew THEN Outs ELSE relink
  <2>1. UNCHANGED <<objs, osym, table>>
    BY <1>5 DEF ServerDone
  <2>2. "server" \notin old => Binds(table)
    BY DEF Outs
  <2>3. CASE UNCHANGED bound /\ (relink' = old \/ "server" \notin old)
    BY <2>1, <2>2, <2>3, BindsSame
  <2>4. CASE bound' = Bind(table) /\ ~LinkFails("server")
    <3>1. Bind(table)' = Bind(table)
      BY <2>1 DEF Bind, SymIn
    <3>2. \A f \in table : \E p \in Bind(table) : p[1] = f
      BY <2>4 DEF LinkFails
    <3> QED
      BY <2>1, <2>4, <3>1, <3>2 DEF Binds
  <2> QED
    BY <1>5, <2>3, <2>4 DEF ServerDone, outputs_up_to_date
<1>6. ASSUME NEW u \in todo, JobSkips(u), UNCHANGED devVars PROVE TableInv'
  BY <1>6, BindsSame DEF JobSkips, objVars
<1>7. ASSUME NEW u \in todo, JobStarts(u), UNCHANGED devVars PROVE TableInv'
  BY <1>7, BindsSame DEF JobStarts, objVars
<1>8. ASSUME NEW j \in compiling, JobEnds(j), UNCHANGED devVars PROVE TableInv'
  <2>1. UNCHANGED <<table, bound, gennew>>
    BY <1>8 DEF JobEnds
  <2>2. relink' = Outs \/ UNCHANGED <<objs, osym, relink>>
    BY <1>8 DEF JobEnds
  <2> QED
    BY <2>1, <2>2, BindsSame DEF Outs
<1>9. CASE BuildDies
  BY <1>9, BindsSame DEF BuildDies, DevExits, objVars
<1>10. CASE SpawnFails
  BY <1>10, BindsSame DEF SpawnFails, DevExits, objVars
<1>11. CASE ChildDead
  BY <1>11, BindsSame DEF ChildDead, DevExits, objVars
<1>12. CASE InitialFails
  BY <1>12, BindsSame DEF InitialFails, objVars
<1>13. CASE InitialServes
  BY <1>13, BindsSame DEF InitialServes, objVars
<1>14. CASE ChangeDetected
  BY <1>14, BindsSame DEF ChangeDetected, objVars
<1>15. CASE BuildFails
  BY <1>15, BindsSame DEF BuildFails, objVars
<1>16. CASE Ready
  BY <1>16, BindsSame DEF Ready, objVars
<1>17. CASE Interrupted
  BY <1>17, BindsSame DEF Interrupted, objVars
<1>18. CASE ServerDies
  BY <1>18, BindsSame DEF ServerDies, objVars
<1>19. CASE UNCHANGED vars
  BY <1>19, BindsSame DEF vars, objVars
<1>20. CASE DevRestarts
  BY <1>20, BindsSame DEF DevRestarts, objVars
<1> QED
  BY DevStepCases, <1>1, <1>2, <1>3, <1>4, <1>5, <1>6, <1>7, <1>8, <1>9,
     <1>10, <1>11, <1>12, <1>13, <1>14, <1>15, <1>16, <1>17, <1>18, <1>19, <1>20,
     Zenon

(* ProgressInv is kept.                                                        *)
LEMMA ProgressKeeps ==
  ASSUME DevInv, [Next]_vars
  PROVE  ProgressInv'
<1> USE DEF DevInv, ProgressInv, Still, TypeOK, BuildTypeOK, PhaseInv, RouteTable,
        Present, Compiled, UnderWay
<1>1. ASSUME NEW f \in Files, NEW c \in {"ok", "error", "client"}, EditorSaves(f, c)
      PROVE  ProgressInv'
  BY <1>1 DEF EditorSaves, Save, Edited
<1>2. ASSUME NEW f \in Files, EditorRemoves(f) PROVE ProgressInv'
  BY <1>2 DEF EditorRemoves, Remove, Edited, objVars, buildVars
<1>3. CASE dpc \in {"start", "build"} /\ UNCHANGED devVars /\ Scan
  BY <1>3 DEF Scan, srcVars, devVars
<1>4. CASE dpc \in {"start", "build"} /\ UNCHANGED devVars /\ ClientDone
  BY <1>4 DEF ClientDone, PoolDone, srcVars, devVars
<1>5. CASE dpc \in {"start", "build"} /\ UNCHANGED devVars /\ ServerDone
  BY <1>5 DEF ServerDone, PoolDone, srcVars, devVars
<1>6. ASSUME NEW u \in todo, JobSkips(u), UNCHANGED devVars PROVE ProgressInv'
  <2>1. UNCHANGED <<content, changed, newer, table, bpc, dpc, compiling, failed>>
    BY <1>6 DEF JobSkips, srcVars, objVars, devVars
  <2>2. u \notin newer /\ todo' = todo \ {u}
    BY <1>6 DEF JobSkips, needs_rebuild
  <2>3. \A o \in Outs : UnderWay(o) => UnderWay(o)'
    BY <2>1, <2>2 DEF UnderWay, Present
  <2> HIDE DEF UnderWay
  <2> QED
    BY <2>1, <2>3 DEF Outs
<1>7. ASSUME NEW u \in todo, JobStarts(u), UNCHANGED devVars PROVE ProgressInv'
  <2>1. UNCHANGED <<content, changed, newer, table, bpc, dpc, failed>>
    BY <1>7 DEF JobStarts, srcVars, objVars, devVars
  <2>2. /\ todo' = todo \ {u} /\ compiling \subseteq compiling'
        /\ \E j \in compiling' : j.unit = u
    <3> DEFINE new == [unit |-> u, ok |-> content[u[2]] = "ok"]
    <3>1. todo' = todo \ {u} /\ compiling' = compiling \cup {new}
      BY <1>7 DEF JobStarts
    <3>2. new.unit = u
      OBVIOUS
    <3> HIDE DEF new
    <3> QED
      BY <3>1, <3>2
  <2>3. \A o \in Outs : UnderWay(o) => UnderWay(o)'
    BY <2>1, <2>2 DEF UnderWay, Present
  <2> HIDE DEF UnderWay
  <2> QED
    BY <2>1, <2>3 DEF Outs
<1>8. ASSUME NEW j \in compiling, JobEnds(j), UNCHANGED devVars PROVE ProgressInv'
  BY <1>8 DEF JobEnds, srcVars, devVars
<1>9. CASE BuildDies
  BY <1>9 DEF BuildDies, DevExits, srcVars, objVars, buildVars
<1>10. CASE SpawnFails
  BY <1>10 DEF SpawnFails, DevExits, srcVars, objVars, buildVars
<1>11. CASE ChildDead
  BY <1>11 DEF ChildDead, DevExits, srcVars, objVars, buildVars
<1>12. CASE InitialFails
  BY <1>12 DEF InitialFails, objVars, buildVars
<1>13. CASE InitialServes
  BY <1>13 DEF InitialServes, spawn_server, objVars, buildVars
<1>14. CASE ChangeDetected
  BY <1>14 DEF ChangeDetected, Watching, objVars
<1>15. CASE BuildFails
  BY <1>15 DEF BuildFails, srcVars, objVars, buildVars
<1>16. CASE Ready
  BY <1>16 DEF Ready, Restarts, Rescans, spawn_server, objVars, buildVars
<1>17. CASE Interrupted
  BY <1>17 DEF Interrupted, srcVars, objVars, buildVars
<1>18. CASE ServerDies
  BY <1>18 DEF ServerDies, srcVars, objVars, buildVars
<1>19. CASE UNCHANGED vars
  BY <1>19 DEF vars, srcVars, objVars, buildVars, devVars
<1>20. CASE DevRestarts
  BY <1>20 DEF DevRestarts, srcVars, objVars
<1> QED
  BY DevStepCases, <1>1, <1>2, <1>3, <1>4, <1>5, <1>6, <1>7, <1>8, <1>9,
     <1>10, <1>11, <1>12, <1>13, <1>14, <1>15, <1>16, <1>17, <1>18, <1>19, <1>20,
     Zenon

(* ChildInv is kept.                                                           *)
LEMMA ChildKeeps ==
  ASSUME DevInv, [Next]_vars
  PROVE  ChildInv'
<1> USE DEF DevInv, ChildInv, Restarting, TypeOK, BuildTypeOK, PhaseInv, Present, Outs
<1>1. ASSUME NEW f \in Files, NEW c \in {"ok", "error", "client"}, EditorSaves(f, c)
      PROVE  ChildInv'
  <2>1. ASSUME NEW u \in For("server"), u[2] \in Present' \cap outcur'["server"]
        PROVE  u[2] \in Present \cap outcur["server"] /\ \A v \in Stale(f) : v[2] # u[2]
    <3>1. u[2] \in outcur["server"] /\ \A v \in Stale(f) : v[2] # u[2]
      BY <1>1, <2>1 DEF EditorSaves, Save
    <3>2. u[2] # f
      BY <3>1, UnitFacts DEF Stale
    <3> QED
      BY <1>1, <2>1, <3>1, <3>2 DEF EditorSaves, Save
  <2>2. /\ UNCHANGED <<bound, srvbound, bpc, linked, dpc, child>>
        /\ served' = served \ {v[2] : v \in Stale(f)}
    BY <1>1 DEF EditorSaves, Save, Edited
  <2> QED
    BY <2>1, <2>2
<1>2. ASSUME NEW f \in Files, EditorRemoves(f) PROVE ChildInv'
  <2>1. ASSUME NEW u \in For("server"), u[2] \in Present' \cap outcur'["server"]
        PROVE  u[2] \in Present \cap outcur["server"] /\ \A v \in Stale(f) : v[2] # u[2]
    <3>1. u[2] \in Present \cap outcur["server"] /\ u[2] # f
      BY <1>2, <2>1 DEF EditorRemoves, Remove, objVars
    <3>2. Stale(f) = Of(f)
      BY <1>2 DEF EditorRemoves, Remove, Stale
    <3> QED
      BY <3>1, <3>2 DEF Of
  <2>2. /\ UNCHANGED <<bound, srvbound, bpc, linked, dpc, child>>
        /\ served' = served \ {v[2] : v \in Stale(f)}
    BY <1>2 DEF EditorRemoves, Remove, Edited, objVars, buildVars
  <2> QED
    BY <2>1, <2>2
<1>3. CASE dpc \in {"start", "build"} /\ UNCHANGED devVars /\ Scan
  BY <1>3 DEF Scan, srcVars, devVars
<1>4. CASE dpc \in {"start", "build"} /\ UNCHANGED devVars /\ ClientDone
  <2>1. outcur'["server"] = outcur["server"]
    BY <1>4 DEF ClientDone, Linked
  <2> QED
    BY <1>4, <2>1 DEF ClientDone, srcVars, devVars
<1>5. CASE dpc \in {"start", "build"} /\ UNCHANGED devVars /\ ServerDone
  <2>1. CASE bpc' = "ok" /\ linked'
    BY <1>5, <2>1 DEF devVars
  <2>2. CASE ~(bpc' = "ok" /\ linked')
    <3>1. UNCHANGED <<outcur, content, bound>>
      BY <1>5, <2>2 DEF ServerDone, srcVars
    <3> QED
      BY <1>5, <3>1 DEF ServerDone, devVars
  <2> QED
    BY <2>1, <2>2
<1>6. ASSUME NEW u \in todo, JobSkips(u), UNCHANGED devVars PROVE ChildInv'
  BY <1>6 DEF JobSkips, srcVars, objVars, devVars
<1>7. ASSUME NEW u \in todo, JobStarts(u), UNCHANGED devVars PROVE ChildInv'
  BY <1>7 DEF JobStarts, srcVars, objVars, devVars
<1>8. ASSUME NEW j \in compiling, JobEnds(j), UNCHANGED devVars PROVE ChildInv'
  BY <1>8 DEF JobEnds, srcVars, devVars
<1>9. CASE BuildDies
  BY <1>9 DEF BuildDies, DevExits, srcVars, objVars, buildVars
<1>10. CASE SpawnFails
  BY <1>10 DEF SpawnFails, DevExits, srcVars, objVars, buildVars
<1>11. CASE ChildDead
  BY <1>11 DEF ChildDead, DevExits, srcVars, objVars, buildVars
<1>12. CASE InitialFails
  BY <1>12 DEF InitialFails, objVars, buildVars
<1>13. CASE InitialServes
  BY <1>13 DEF InitialServes, spawn_server, objVars, buildVars
<1>14. CASE ChangeDetected
  BY <1>14 DEF ChangeDetected, Watching, objVars
<1>15. CASE BuildFails
  BY <1>15 DEF BuildFails, srcVars, objVars, buildVars
<1>16. CASE Ready
  BY <1>16 DEF Ready, Restarts, Rescans, spawn_server, objVars, buildVars
<1>17. CASE Interrupted
  BY <1>17 DEF Interrupted, srcVars, objVars, buildVars
<1>18. CASE ServerDies
  BY <1>18 DEF ServerDies, srcVars, objVars, buildVars
<1>19. CASE UNCHANGED vars
  BY <1>19 DEF vars, srcVars, objVars, buildVars, devVars
<1>20. CASE DevRestarts
  BY <1>20 DEF DevRestarts, srcVars, objVars
<1> HIDE DEF DevInv, ChildInv, Restarting, TypeOK, BuildTypeOK, PhaseInv, Present, Outs
<1> QED
  BY DevStepCases, <1>1, <1>2, <1>3, <1>4, <1>5, <1>6, <1>7, <1>8, <1>9,
     <1>10, <1>11, <1>12, <1>13, <1>14, <1>15, <1>16, <1>17, <1>18, <1>19, <1>20,
     Zenon

(* cerco dev: the development loop keeps what it relies on, whatever is        *)
(* edited, fails, is skipped, dies or is interrupted, in whichever order and   *)
(* over whatever an earlier session left.                                      *)
THEOREM DevInvariant == Spec => []DevInv
<1>1. Init => DevInv
  <2> SUFFICES ASSUME Init PROVE DevInv
    OBVIOUS
  <2>1. IsFiniteSet(compiling) /\ Cardinality(compiling) = 0
    BY FS_EmptySet DEF Init, BuildInit
  <2>2. TypeOK
    <3>1. Cardinality(compiling) <= Jobs
      BY <2>1, BuildAssumption
    <3>2. /\ content \in [Files -> {"none", "ok", "error", "client"}]
          /\ outcur \in [Outs -> SUBSET Files]
          /\ osym \in [Routes -> RouteSyms]
          /\ edits \in 0 .. MaxEdits /\ sessions \in 1 .. MaxSessions
      BY BuildAssumption, DevAssumption DEF Init, BuildInit, RouteSyms
    <3>3. /\ changed \in BOOLEAN /\ gennew \in BOOLEAN /\ failed \in BOOLEAN
          /\ linked \in BOOLEAN
      BY DEF Init, BuildInit
    <3> QED
      BY <3>1, <3>2, <3>3 DEF Init, BuildInit, TypeOK, BuildTypeOK
  <2>3. PhaseInv
    BY <2>1 DEF Init, BuildInit, PhaseInv
  <2>4. ObjectsInv /\ OutputsInv /\ TableInv
    BY DEF Init, BuildInit, ObjectsInv, OutputsInv, TableInv
  <2>5. ProgressInv /\ ChildInv
    BY DEF Init, BuildInit, ProgressInv, Still, ChildInv
  <2> QED
    BY <2>2, <2>3, <2>4, <2>5 DEF DevInv
<1>2. DevInv /\ [Next]_vars => DevInv'
  <2> SUFFICES ASSUME DevInv, [Next]_vars PROVE DevInv'
    OBVIOUS
  <2>1. /\ TypeOK' /\ PhaseInv' /\ ObjectsInv' /\ OutputsInv' /\ TableInv'
        /\ ProgressInv' /\ ChildInv'
    BY TypeKeeps, PhaseKeeps, ObjectsKeeps, OutputsKeeps, TableKeeps, ProgressKeeps,
       ChildKeeps
  <2> QED
    BY <2>1 DEF DevInv
<1>3. QED
  BY <1>1, <1>2, PTL DEF Spec

(* Type correctness of the loop and of the build it runs: no more compilers    *)
(* than threads, no route in the table that is not one.                        *)
THEOREM DevTypeCorrect == Spec => []TypeOK
<1>1. DevInv => TypeOK
  BY DEF DevInv
<1>2. QED
  BY <1>1, DevInvariant, PTL

(* When "ready" was announced over a server and nothing has changed since, the *)
(* server is what the objects of the present sources make: none older than its *)
(* source, none current left out, each present route bound to the object that  *)
(* defines its name.                                                           *)
THEOREM ReadyAlwaysServesObjects == Spec => []ReadyServesItsObjects
<1>1. DevInv => ReadyServesItsObjects
  <2> SUFFICES ASSUME DevInv, dpc = "ready", ~changed, child # "none" PROVE ServesObjects
    BY DEF ReadyServesItsObjects
  <2>1. bpc = "ok" /\ Still /\ ~Restarting
    BY DEF DevInv, PhaseInv, Still, Restarting
  <2>2. "server" \notin relink /\ ~gennew /\ LinkedAll("wasm") /\ LinkedAll("server")
    BY <2>1 DEF DevInv, OutputsInv, Outs
  <2>3. Compiled("wasm") /\ Compiled("server") /\ table = RouteTable
    BY <2>1 DEF DevInv, ProgressInv
  <2>4. /\ \A u \in For("server") : u[2] \in Present \cap outcur["server"] => u[2] \in served
        /\ srvbound = bound
    BY <2>1 DEF DevInv, ChildInv
  <2>5. \A u \in Units : u[2] \in Present => u \in objs \ newer
    <3>1. ASSUME NEW u \in Units, u[2] \in Present PROVE u \notin newer
      BY <2>3, <3>1, UnitFacts DEF Compiled, Outs
    <3> QED
      BY <3>1 DEF DevInv, ObjectsInv
  <2>6. ASSUME NEW u \in objcur, u[2] \in Present
        PROVE  u[2] \in (IF u[1] = "server" THEN served ELSE outcur["wasm"])
    <3>1. u \in Units
      BY DEF DevInv, TypeOK, BuildTypeOK
    <3>2. u \in For("wasm") \/ (u \in For("server") /\ u[1] = "server")
      BY <3>1, UnitFacts DEF Outs
    <3>3. CASE u[1] = "server"
      <4>1. u \in For("server")
        BY <3>1, <3>3, UnitFacts
      <4> QED
        BY <2>2, <2>4, <2>6, <3>3, <4>1 DEF LinkedAll
    <3>4. CASE u[1] # "server"
      BY <2>2, <2>6, <3>2, <3>4 DEF LinkedAll
    <3> QED
      BY <3>3, <3>4
  <2>7. Binds(RouteTable)
    BY <2>2, <2>3 DEF DevInv, TableInv
  <2> QED
    BY <2>4, <2>5, <2>6, <2>7 DEF ServesObjects, Binds
<1>2. QED
  BY <1>1, DevInvariant, PTL

(* scan_cb: the names given to the routes of one scan are different, however   *)
(* many mangle to the same.                                                    *)
THEOREM ScanNamesApart ==
  ASSUME NEW R \in SUBSET Routes, NEW f \in R, NEW g \in R, SymIn(R, f) = SymIn(R, g)
  PROVE  f = g
<1> DEFINE Before(h) == {k \in R : Base[k] = Base[h] /\ Rank[k] < Rank[h]}
<1>1. ASSUME NEW a \in R, NEW b \in R, Base[a] = Base[b], Rank[a] < Rank[b]
      PROVE  Cardinality(Before(a)) # Cardinality(Before(b))
  <2>1. \A k \in R : Rank[k] \in Nat
    BY BuildAssumption
  <2>2. Before(a) \subseteq Before(b) /\ a \in Before(b) /\ a \notin Before(a)
    BY <1>1, <2>1
  <2>3. IsFiniteSet(Before(b))
    <3>1. Before(b) \subseteq Routes
      OBVIOUS
    <3> QED
      BY <3>1, BuildAssumption, FS_Subset
  <2> HIDE DEF Before
  <2>4. Before(a) # Before(b) /\ IsFiniteSet(Before(a))
    BY <2>2, <2>3, FS_Subset
  <2> QED
    BY <2>2, <2>3, <2>4, FS_Subset, FS_CardinalityType
<1>2. Base[f] = Base[g] /\ Cardinality(Before(f)) = Cardinality(Before(g))
  BY DEF SymIn
<1>3. Rank[f] \in Nat /\ Rank[g] \in Nat
  BY BuildAssumption
<1>4. ~(Rank[f] < Rank[g]) /\ ~(Rank[g] < Rank[f])
  BY <1>1, <1>2
<1> QED
  BY <1>3, <1>4, BuildAssumption
=============================================================================
