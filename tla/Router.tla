------------------------------- MODULE Router -------------------------------
(***************************************************************************)
(* The route table of the server (runtime/server/router.c): how a request  *)
(* path and method select an entry of the generated table, which           *)
(* parameters are captured for it, and where the dispatcher sends the      *)
(* request (dispatch.c).                                                   *)
(*                                                                         *)
(* A path is the sequence of the texts between its slashes after the       *)
(* leading one: "/a//b/" is <<"a", "", "b", "">> and "/" is <<"">>.  A     *)
(* segment of a table path is its sigil and its name: ":id", "*rest",      *)
(* "users".  Tables are in the order the build scanned the source files.   *)
(***************************************************************************)
EXTENDS Naturals, Sequences, FiniteSets

CERCO_RT_MAX_SEGS == 24
MaxPathSegs == 64
MaxParams == 16

LeastOf(m, n) == IF m < n THEN m ELSE n

(* Texts are compared without case. *)
Lower(t) == IF t = "A" THEN "a" ELSE t
cerco_strcaseeq(s, t) == Lower(s) = Lower(t)

(* The segments of a path: an empty text after the last slash is no segment. *)
Split(path) == IF path[Len(path)] = "" THEN SubSeq(path, 1, Len(path) - 1) ELSE path

seg_parse(p) ==
  CASE p.sigil = ":"                 -> [kind |-> "param", text |-> p.name]
    [] p.sigil = "*" /\ p.name # "" -> [kind |-> "catchall", text |-> p.name]
    [] OTHER -> [kind |-> "lit", text |-> IF p.sigil = "" THEN p.name ELSE p.sigil]

ParsedSegs(segs) ==
  [s \in 1..LeastOf(Len(segs), CERCO_RT_MAX_SEGS) |-> seg_parse(segs[s])]

router_init(routes) ==
  [i \in 1..Len(routes) |->
     [method |-> routes[i].method, segs |-> ParsedSegs(routes[i].segs)]]

seg_eq(seg, text) == seg.kind # "lit" \/ cerco_strcaseeq(seg.text, text)

(* One turn of the matching loop: seg_i request segments are consumed. *)
MatchStep(req, m, seg) ==
  IF m.stop THEN m
  ELSE IF seg.kind = "catchall" THEN [m EXCEPT !.stop = TRUE, !.catchall_hit = TRUE]
  ELSE IF m.seg_i >= Len(req) \/ ~seg_eq(seg, req[m.seg_i + 1])
    THEN [m EXCEPT !.stop = TRUE, !.matched = FALSE]
  ELSE [m EXCEPT !.seg_i = @ + 1]

MatchLoop(segs, req) ==
  LET m[s \in 0..Len(segs)] ==
        IF s = 0 THEN [seg_i |-> 0, matched |-> TRUE, catchall_hit |-> FALSE, stop |-> FALSE]
        ELSE MatchStep(req, m[s - 1], segs[s])
  IN  m

Mut_Matched(segs, req) == MatchLoop(segs, req)[Len(segs)].matched

(* Segments left over match only a catch-all. *)
Matched(segs, req) ==
  LET m == MatchLoop(segs, req)[Len(segs)]
  IN  m.matched /\ (m.catchall_hit \/ m.seg_i = Len(req))

AddParam(params, name, value) ==
  IF Len(params) < MaxParams
    THEN Append(params, [name |-> name, value |-> value]) ELSE params

(* One turn of the capture loop; it ends with the request segments, so a      *)
(* catch-all that stands for nothing captures nothing.                        *)
CaptureStep(req, c, seg) ==
  IF c.stop \/ c.seg_i >= Len(req) THEN c
  ELSE IF seg.kind = "catchall"
    THEN [c EXCEPT !.stop = TRUE,
                   !.params = AddParam(@, seg.text, SubSeq(req, c.seg_i + 1, Len(req)))]
  ELSE [c EXCEPT !.seg_i = @ + 1,
                 !.params = IF seg.kind = "param"
                              THEN AddParam(@, seg.text, <<req[c.seg_i + 1]>>) ELSE @]

CaptureLoop(segs, req, params) ==
  LET c[s \in 0..Len(segs)] ==
        IF s = 0 THEN [seg_i |-> 0, params |-> params, stop |-> FALSE]
        ELSE CaptureStep(req, c[s - 1], segs[s])
  IN  c

Mut_Capture(segs, req, params) == CaptureLoop(segs, req, params)[Len(segs)].params

(* The parameters of every route whose path matches replace those before. *)
Capture(segs, req, params) == CaptureLoop(segs, req, <<>>)[Len(segs)].params

MethodServes(m, method) == m = method \/ (method = "HEAD" /\ m = "GET")

Visit(table, method, req, f, i) ==
  LET rr == table[i]
  IN  IF f.result = "match" \/ ~Matched(rr.segs, req) THEN f
      ELSE IF MethodServes(rr.method, method)
        THEN [f EXCEPT !.result = "match", !.fn = i,
                       !.params = Capture(rr.segs, req, @)]
      ELSE [f EXCEPT !.result = "method_mismatch",
                     !.allowed = @ \cup {rr.method},
                     !.params = Capture(rr.segs, req, @)]

NotFound == [result |-> "miss", fn |-> 0, allowed |-> {}, params |-> <<>>]

Search(table, method, req) ==
  LET f[i \in 0..Len(table)] ==
        IF i = 0 THEN NotFound ELSE Visit(table, method, req, f[i - 1], i)
  IN  f

router_find(table, method, path) ==
  LET req == Split(path)
  IN  IF Len(req) > MaxPathSegs THEN NotFound
      ELSE Search(table, method, req)[Len(table)]

(* The Allow header of a refused method names the methods of the mask it has  *)
(* a text for, HEAD never among them; an empty list is replaced by a fixed    *)
(* one.                                                                       *)
AllowOf(methods) == IF methods = {} THEN {"GET", "HEAD", "OPTIONS"} ELSE methods

Worded == {"GET", "POST", "PUT", "PATCH", "DELETE"}
router_send_405(allowed) == AllowOf(allowed \cap (Worded \cup {"OPTIONS"}))

(* The page of a 404 is the first GET entry the build wrote for it, or 0 when *)
(* the project has none.                                                      *)
NotFoundPage == <<[kind |-> "lit", text |-> "__cerco"], [kind |-> "lit", text |-> "404"]>>
router_send_404(table) ==
  LET pages == {i \in DOMAIN table : table[i].method = "GET" /\ table[i].segs = NotFoundPage}
  IN  IF pages = {} THEN 0 ELSE CHOOSE i \in pages : \A j \in pages : i <= j

HasExtension(text) == text = "b.c"
static_is_asset_path(path) == HasExtension(path[Len(path)])

(* Where a request that is not below /__cerco/ goes: to a worker with the     *)
(* handler fn, to the files, or to an answer of the event loop.               *)
Goes(to, fn, allow) == [to |-> to, fn |-> fn, allow |-> allow]

conn_request_dispatch(table, method, path) ==
  LET f == router_find(table, method, path)
  IN  CASE f.result = "match" -> Goes("worker", f.fn, {})
        [] f.result = "method_mismatch" /\ method = "OPTIONS" ->
             Goes("204", 0, AllowOf(f.allowed \cap Worded))
        [] f.result = "method_mismatch" /\ method # "OPTIONS" ->
             Goes("405", 0, router_send_405(f.allowed))
        [] f.result = "miss" /\ method \in {"GET", "HEAD"} /\ static_is_asset_path(path) ->
             Goes("static", 0, {})
        [] OTHER -> Goes("404", router_send_404(table), {})

-----------------------------------------------------------------------------
(* What a handler reads of a parameter; <<>> stands for none. *)
cerco_param(params, name) ==
  LET hits == {k \in 1..Len(params) : cerco_strcaseeq(params[k].name, name)}
  IN  IF hits = {} THEN <<>> ELSE params[CHOOSE k \in hits : \A j \in hits : k <= j].value

-----------------------------------------------------------------------------
(* What a table path promises, said without the loops.  Segments behind a     *)
(* catch-all have no effect; the others stand for the request segments in     *)
(* their places, and a catch-all for all the rest.                            *)
InEffect(segs, s) == \A t \in 1..(s - 1) : segs[t].kind # "catchall"

Fits(segs, path) ==
  LET req == Split(path)
  IN  /\ Len(req) <= MaxPathSegs
      /\ \A s \in 1..Len(segs) :
           InEffect(segs, s) /\ segs[s].kind # "catchall" =>
             /\ s <= Len(req)
             /\ segs[s].kind = "lit" => Lower(segs[s].text) = Lower(req[s])
      /\ (\A s \in 1..Len(segs) : segs[s].kind # "catchall") => Len(req) <= Len(segs)

(* A name can be read when the segment is the first of that name and one of   *)
(* the first MaxParams that have a name.                                      *)
Named(segs, s) == {t \in 1..s : segs[t].kind # "lit"}
Readable(segs, s) ==
  /\ s \in Named(segs, s) /\ InEffect(segs, s)
  /\ Cardinality(Named(segs, s)) <= MaxParams
  /\ \A t \in Named(segs, s - 1) : Lower(segs[t].text) # Lower(segs[s].text)

StandsFor(segs, s, req) ==
  IF segs[s].kind = "catchall" THEN SubSeq(req, s, Len(req)) ELSE <<req[s]>>
=============================================================================
