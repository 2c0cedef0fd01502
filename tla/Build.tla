-------------------------------- MODULE Build --------------------------------
(* cmd_build of cli/build.c as the development loop runs it: scan and audit the *)
(* sources, name the routes, generate their table, compile what is out of date  *)
(* with a pool of threads, link the client, then the same for the server.  An   *)
(* editor changes files at any time.                                            *)
(*                                                                              *)
(* Modification times are compared, never shown, so they are kept as the        *)
(* outcome of the comparisons: newer has the units whose source is newer than   *)
(* their object (or that have none), relink the outputs that some object is     *)
(* newer than.  Contents are kept as whether they come from the present source: *)
(* objcur, outcur.  Two writes never share a millisecond.  What a route's       *)
(* object defines depends on the build that compiled it: osym.                  *)
EXTENDS Naturals, FiniteSets

CONSTANTS
  Files,      \* what may be under src/
  Start,      \* the files there at the start
  Routes,     \* those under src/routes
  Headers,    \* those that are #included
  UnitsOf,    \* [Files -> set of outputs it is compiled for]
  Symbol,     \* [Files \ Routes -> what an object of it defines]
  Base,       \* [Routes -> the mangled name, the method left out]
  Rank,       \* [Routes -> where the walk of src/routes comes to it]
  Jobs,       \* threads compiling at once
  MaxEdits    \* bound: changes made by the editor

Outs == {"wasm", "server"}
Units == {u \in Outs \X Files : u[1] \in UnitsOf[u[2]]}
For(o) == {u \in Units : u[1] = o}
Of(f) == {u \in Units : u[2] = f}

ASSUME BuildAssumption ==
  /\ Start \subseteq Files /\ Routes \subseteq Files /\ Headers \subseteq Files
  /\ UnitsOf \in [Files -> SUBSET Outs]
  /\ \A f \in Routes : UnitsOf[f] = {"server"}
  /\ \A f \in Headers : UnitsOf[f] = {}
  /\ IsFiniteSet(Routes) /\ Rank \in [Routes -> Nat]
  /\ \A f, g \in Routes : Rank[f] = Rank[g] => f = g
  /\ Jobs \in Nat \ {0} /\ MaxEdits \in Nat

VARIABLES
  content,    \* [Files -> "none", "ok", "error": does not compile,
              \*           "client": a route that includes cerco_client.h]
  edits,      \* changes made so far
  changed,    \* something under src/ differs from the last watch_scan
  newer, objs, objcur,   \* units: see above; objs have an object
  relink, outcur,        \* outputs: see above
  table,      \* the routes in the generated table
  gennew,     \* the generated table is newer than its object
  osym,       \* [Routes -> what its object defines]
  bound,      \* <<route, file>>: whose handler it runs, in the binary on disk
  bpc,        \* where cmd_build is
  todo,       \* units queued
  compiling,  \* [unit, ok] at a compiler, which has read a good source or not
  torn,       \* units whose source changed while the compiler had it
  failed,     \* some compile failed
  linked      \* this build wrote the server binary

srcVars == <<content, edits, changed>>
objVars == <<newer, objs, objcur, relink, outcur, table, gennew, osym, bound>>
buildVars == <<bpc, todo, compiling, torn, failed, linked>>

Present == {f \in Files : content[f] # "none"}
RouteTable == Routes \cap Present

(* scan_cb: routes that mangle to one name are told apart by a suffix, counted  *)
(* over those the walk met before.                                              *)
SymIn(R, f) ==
  <<Base[f], Cardinality({g \in R : Base[g] = Base[f] /\ Rank[g] < Rank[f]})>>

(* A route that the scan has not seen is compiled without a name of its own.    *)
Unnamed == <<"unnamed", 0>>
RouteSyms == {Unnamed} \cup {SymIn(R, f) : R \in SUBSET Routes, f \in Routes}

BuildTypeOK ==
  /\ content \in [Files -> {"none", "ok", "error", "client"}]
  /\ edits \in 0 .. MaxEdits /\ changed \in BOOLEAN
  /\ newer \subseteq Units /\ objs \subseteq Units /\ objcur \subseteq objs
  /\ relink \subseteq Outs /\ outcur \in [Outs -> SUBSET Files]
  /\ table \subseteq Routes
  /\ osym \in [Routes -> RouteSyms] /\ bound \subseteq Routes \X Routes
  /\ gennew \in BOOLEAN /\ failed \in BOOLEAN /\ linked \in BOOLEAN
  /\ bpc \in {"scan", "client", "server", "ok", "fail", "die"}
  /\ todo \subseteq Units /\ torn \subseteq Units
  /\ compiling \subseteq [unit : Units, ok : BOOLEAN]
  /\ Cardinality(compiling) <= Jobs

BuildInit ==
  /\ content = [f \in Files |-> IF f \in Start THEN "ok" ELSE "none"]
  /\ edits = 0 /\ changed = FALSE
  /\ newer = Units /\ objs = {} /\ objcur = {}
  /\ relink = Outs /\ outcur = [o \in Outs |-> {}]
  /\ table = {} /\ gennew = TRUE
  /\ osym = [f \in Routes |-> Unnamed] /\ bound = {}
  /\ bpc = "scan" /\ todo = {} /\ compiling = {} /\ torn = {}
  /\ failed = FALSE /\ linked = FALSE

-----------------------------------------------------------------------------
(* The editor saves a file.  A header makes every object out of date, but not  *)
(* by their sources' times.                                                    *)
Stale(f) == IF f \in Headers THEN Units ELSE Of(f)

Save(f, c) ==
  LET stale == Stale(f)
  IN  /\ edits < MaxEdits /\ edits' = edits + 1
      /\ c = "client" => f \in Routes
      /\ c = "error" => Of(f) # {}
      /\ content' = [content EXCEPT ![f] = c]
      /\ changed' = TRUE
      /\ newer' = newer \cup Of(f)
      /\ objcur' = objcur \ stale
      /\ outcur' = [o \in Outs |-> outcur[o] \ {u[2] : u \in stale}]
      /\ torn' = torn \cup {u \in stale : \E j \in compiling : j.unit = u}
      /\ UNCHANGED <<objs, relink, table, gennew, osym, bound, bpc, todo, compiling,
                     failed, linked>>

Remove(f) ==
  /\ edits < MaxEdits /\ edits' = edits + 1
  /\ f \in Present \ Headers
  /\ content' = [content EXCEPT ![f] = "none"]
  /\ changed' = TRUE
  /\ UNCHANGED <<objVars, buildVars>>

-----------------------------------------------------------------------------
(* A build starts: scan, audit, generate.  An error in the scan or the audit   *)
(* ends the whole process.  write_if_changed leaves an equal table alone; the  *)
(* table of a set of routes has one name for each of them.                     *)
Scan ==
  /\ bpc = "scan"
  /\ IF \E f \in Routes : content[f] = "client"
     THEN bpc' = "die" /\ UNCHANGED <<table, gennew, todo>>
     ELSE /\ bpc' = "client"
          /\ table' = RouteTable
          /\ gennew' = (gennew \/ table # RouteTable)
          /\ todo' = {u \in For("wasm") : u[2] \in Present}
  /\ failed' = FALSE
  /\ linked' = FALSE
  /\ UNCHANGED <<srcVars, newer, objs, objcur, relink, outcur, osym, bound,
                 compiling, torn>>

needs_rebuild(u) == u \in newer \/ u[2] \notin Present

(* A pool thread takes the next job, in no particular order.                   *)
JobSkips(u) ==
  /\ u \in todo /\ ~needs_rebuild(u)
  /\ todo' = todo \ {u}
  /\ UNCHANGED <<srcVars, objVars, bpc, compiling, torn, failed, linked>>

Mut_JobStarts(u) ==
  /\ u \in todo /\ needs_rebuild(u)
  /\ todo' = todo \ {u}
  /\ compiling' = compiling \cup {[unit |-> u, ok |-> content[u[2]] = "ok"]}
  /\ UNCHANGED <<srcVars, objVars, bpc, torn, failed, linked>>

JobStarts(u) ==
  /\ u \in todo /\ needs_rebuild(u)
  /\ Cardinality(compiling) < Jobs
  /\ todo' = todo \ {u}
  /\ compiling' = compiling \cup {[unit |-> u, ok |-> content[u[2]] = "ok"]}
  /\ UNCHANGED <<srcVars, objVars, bpc, torn, failed, linked>>

(* -DCERCO_ROUTE_SYMBOL, from the scan of this build.                          *)
NameGiven(f) == IF f \in table THEN SymIn(table, f) ELSE Unnamed

(* The object is written when the compiler is done, so it is newer than a      *)
(* source saved meanwhile.                                                     *)
JobEnds(j) ==
  LET u == j.unit
  IN  /\ j \in compiling
      /\ compiling' = compiling \ {j}
      /\ torn' = torn \ {u}
      /\ IF j.ok
         THEN /\ objs' = objs \cup {u}
              /\ newer' = newer \ {u}
              /\ objcur' = IF u \in torn THEN objcur \ {u} ELSE objcur \cup {u}
              /\ osym' = [f \in Routes |-> IF f = u[2] THEN NameGiven(f) ELSE osym[f]]
              /\ relink' = Outs
              /\ UNCHANGED failed
         ELSE /\ failed' = TRUE
              /\ UNCHANGED <<objs, newer, objcur, osym, relink>>
      /\ UNCHANGED <<srcVars, outcur, table, gennew, bound, bpc, todo, linked>>

(* Every object in the directory is linked, those of removed sources too.  Two *)
(* that define the same symbol do not link, nor does a table that names a      *)
(* symbol no object defines.                                                   *)
Defines(u) == IF u[2] \in Routes THEN osym[u[2]] ELSE Symbol[u[2]]

Clash(o) == \E u, v \in objs \cap For(o) : u # v /\ Defines(u) = Defines(v)

(* The linker gives each route of the table the handler defined by that name.  *)
Bind(R) == {p \in R \X Routes : /\ <<"server", p[2]>> \in objs
                                /\ osym[p[2]] = SymIn(R, p[1])}

LinkFails(o) ==
  \/ Clash(o)
  \/ o = "server" /\ \E f \in table : \A p \in Bind(table) : p[1] # f

outputs_up_to_date(o, outdated) == o \notin outdated

Linked(o) == [outcur EXCEPT ![o] = {u[2] : u \in objcur \cap For(o)}]

PoolDone == todo = {} /\ compiling = {}

ClientDone ==
  /\ bpc = "client" /\ PoolDone
  /\ IF failed \/ ("wasm" \in relink /\ LinkFails("wasm"))
     THEN bpc' = "fail" /\ UNCHANGED <<relink, outcur, todo>>
     ELSE /\ bpc' = "server"
          /\ outcur' = IF outputs_up_to_date("wasm", relink) THEN outcur ELSE Linked("wasm")
          /\ relink' = relink \ {"wasm"}
          /\ todo' = {u \in For("server") : u[2] \in Present}
  /\ UNCHANGED <<srcVars, newer, objs, objcur, table, gennew, osym, bound, compiling,
                 torn, failed, linked>>

(* The generated table is compiled with the server's sources: it only          *)
(* changes in Scan, so that compile is part of this step.                      *)
ServerDone ==
  LET old == IF gennew THEN Outs ELSE relink
  IN  /\ bpc = "server" /\ PoolDone
      /\ gennew' = FALSE
      /\ IF failed \/ ("server" \in old /\ LinkFails("server"))
         THEN bpc' = "fail" /\ relink' = old /\ UNCHANGED <<outcur, bound, linked>>
         ELSE /\ bpc' = "ok"
              /\ relink' = old \ {"server"}
              /\ IF outputs_up_to_date("server", old)
                 THEN UNCHANGED <<outcur, bound, linked>>
                 ELSE /\ outcur' = Linked("server")
                      /\ bound' = Bind(table)
                      /\ linked' = TRUE
      /\ UNCHANGED <<srcVars, newer, table, objs, objcur, osym, todo, compiling, torn,
                     failed>>
=============================================================================
