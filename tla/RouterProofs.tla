---------------------------- MODULE RouterProofs ----------------------------
(***************************************************************************)
(* The route a request runs and the parameters its handler reads, for      *)
(* every table, path and method.  Each loop of router_find is followed     *)
(* turn by turn (NatSets): what holds after k segments or k entries is     *)
(* stated without the loop and shown to survive the next one.              *)
(***************************************************************************)
EXTENDS Request, NatSets, SequenceTheorems, FiniteSetTheorems, TLAPS

Seg == [kind : {"lit", "param", "catchall"}, text : STRING]

(* The matching loop, segment by segment. *)
LEMMA MatchTurn ==
  ASSUME NEW segs, NEW req, Len(segs) \in Nat
  PROVE  /\ MatchLoop(segs, req)[0] = [seg_i |-> 0, matched |-> TRUE, catchall_hit |-> FALSE, stop |-> FALSE]
         /\ \A k \in 1..Len(segs) :
              MatchLoop(segs, req)[k] = MatchStep(req, MatchLoop(segs, req)[k - 1], segs[k])
<1> DEFINE n == Len(segs)
           T(f, k) == IF k = 0 THEN [seg_i |-> 0, matched |-> TRUE, catchall_hit |-> FALSE, stop |-> FALSE]
                      ELSE MatchStep(req, f[k - 1], segs[k])
           S == {m \in 0..n : \E f : f = [k \in 0..m |-> T(f, k)]}
<1>1. n \in Nat
  OBVIOUS
<1>2. MatchLoop(segs, req) = CHOOSE f : f = [k \in 0..n |-> T(f, k)]
  BY DEF MatchLoop
<1> HIDE DEF n
<1>3. 0 \in S
  <2> DEFINE g == [k \in 0..0 |-> [seg_i |-> 0, matched |-> TRUE, catchall_hit |-> FALSE, stop |-> FALSE]]
  <2>1. g = [k \in 0..0 |-> T(g, k)]
    OBVIOUS
  <2>2. \E f : f = [k \in 0..0 |-> T(f, k)]
    BY <2>1
  <2> QED
    BY <1>1, <2>2
<1>4. ASSUME NEW m \in 0..n, m \in S, m < n PROVE m + 1 \in S
  <2> HIDE DEF T
  <2>1. PICK f : f = [k \in 0..m |-> T(f, k)]
    BY <1>4
  <2> DEFINE g == [k \in 0..(m + 1) |-> IF k <= m THEN f[k] ELSE T(f, m + 1)]
  <2>2. ASSUME NEW k \in 0..(m + 1) PROVE g[k] = T(g, k)
    <3>1. CASE k = 0
      <4>1. g[0] = f[0] /\ f[0] = T(f, 0)
        BY <1>1, <2>1
      <4> QED
        BY <3>1, <4>1 DEF T
    <3>2. CASE k \in 1..m
      <4>1. k - 1 \in 0..m /\ k - 1 \in 0..(m + 1) /\ k - 1 <= m /\ k <= m
        BY <1>1, <3>2
      <4>2. g[k - 1] = f[k - 1]
        BY <4>1
      <4>3. g[k] = f[k] /\ f[k] = T(f, k)
        BY <2>1, <3>2, <4>1
      <4>4. T(g, k) = T(f, k)
        BY <4>2 DEF T
      <4> QED
        BY <4>3, <4>4
    <3>3. CASE k = m + 1
      <4>1. k - 1 \in 0..(m + 1) /\ k - 1 <= m /\ ~(k <= m)
        BY <1>1, <3>3
      <4>2. g[k - 1] = f[k - 1]
        BY <4>1
      <4>3. g[k] = T(f, k)
        BY <3>3, <4>1
      <4>4. T(g, k) = T(f, k)
        BY <4>2 DEF T
      <4> QED
        BY <4>3, <4>4
    <3> QED
      BY <1>1, <3>1, <3>2, <3>3
  <2>3. g = [k \in 0..(m + 1) |-> T(g, k)]
    BY <2>2
  <2>4. m + 1 \in 0..n
    BY <1>1, <1>4
  <2> HIDE DEF g
  <2>5. \E h : h = [k \in 0..(m + 1) |-> T(h, k)]
    BY <2>3
  <2> QED
    BY <2>4, <2>5
<1>5. n \in S
  <2> HIDE DEF S
  <2>1. \A k \in 0..n : k \in S
    BY <1>1, <1>3, <1>4, EveryTurn
  <2> QED
    BY <1>1, <2>1
<1>6. MatchLoop(segs, req) = [k \in 0..n |-> T(MatchLoop(segs, req), k)]
  <2> HIDE DEF T
  <2>1. \E f : f = [k \in 0..n |-> T(f, k)]
    BY <1>5
  <2> QED
    BY <1>2, <2>1, Zenon
<1>7. 0 \in 0..n /\ \A k \in 1..n : k \in 0..n /\ k # 0
  BY <1>1
<1> QED
  BY <1>6, <1>7 DEF n

(* The capture loop, segment by segment. *)
LEMMA CaptureTurn ==
  ASSUME NEW segs, NEW req, NEW params, Len(segs) \in Nat
  PROVE  /\ CaptureLoop(segs, req, params)[0] = [seg_i |-> 0, params |-> params, stop |-> FALSE]
         /\ \A k \in 1..Len(segs) :
              CaptureLoop(segs, req, params)[k] = CaptureStep(req, CaptureLoop(segs, req, params)[k - 1], segs[k])
<1> DEFINE n == Len(segs)
           T(f, k) == IF k = 0 THEN [seg_i |-> 0, params |-> params, stop |-> FALSE]
                      ELSE CaptureStep(req, f[k - 1], segs[k])
           S == {m \in 0..n : \E f : f = [k \in 0..m |-> T(f, k)]}
<1>1. n \in Nat
  OBVIOUS
<1>2. CaptureLoop(segs, req, params) = CHOOSE f : f = [k \in 0..n |-> T(f, k)]
  BY DEF CaptureLoop
<1> HIDE DEF n
<1>3. 0 \in S
  <2> DEFINE g == [k \in 0..0 |-> [seg_i |-> 0, params |-> params, stop |-> FALSE]]
  <2>1. g = [k \in 0..0 |-> T(g, k)]
    OBVIOUS
  <2>2. \E f : f = [k \in 0..0 |-> T(f, k)]
    BY <2>1
  <2> QED
    BY <1>1, <2>2
<1>4. ASSUME NEW m \in 0..n, m \in S, m < n PROVE m + 1 \in S
  <2> HIDE DEF T
  <2>1. PICK f : f = [k \in 0..m |-> T(f, k)]
    BY <1>4
  <2> DEFINE g == [k \in 0..(m + 1) |-> IF k <= m THEN f[k] ELSE T(f, m + 1)]
  <2>2. ASSUME NEW k \in 0..(m + 1) PROVE g[k] = T(g, k)
    <3>1. CASE k = 0
      <4>1. g[0] = f[0] /\ f[0] = T(f, 0)
        BY <1>1, <2>1
      <4> QED
        BY <3>1, <4>1 DEF T
    <3>2. CASE k \in 1..m
      <4>1. k - 1 \in 0..m /\ k - 1 \in 0..(m + 1) /\ k - 1 <= m /\ k <= m
        BY <1>1, <3>2
      <4>2. g[k - 1] = f[k - 1]
        BY <4>1
      <4>3. g[k] = f[k] /\ f[k] = T(f, k)
        BY <2>1, <3>2, <4>1
      <4>4. T(g, k) = T(f, k)
        BY <4>2 DEF T
      <4> QED
        BY <4>3, <4>4
    <3>3. CASE k = m + 1
      <4>1. k - 1 \in 0..(m + 1) /\ k - 1 <= m /\ ~(k <= m)
        BY <1>1, <3>3
      <4>2. g[k - 1] = f[k - 1]
        BY <4>1
      <4>3. g[k] = T(f, k)
        BY <3>3, <4>1
      <4>4. T(g, k) = T(f, k)
        BY <4>2 DEF T
      <4> QED
        BY <4>3, <4>4
    <3> QED
      BY <1>1, <3>1, <3>2, <3>3
  <2>3. g = [k \in 0..(m + 1) |-> T(g, k)]
    BY <2>2
  <2>4. m + 1 \in 0..n
    BY <1>1, <1>4
  <2> HIDE DEF g
  <2>5. \E h : h = [k \in 0..(m + 1) |-> T(h, k)]
    BY <2>3
  <2> QED
    BY <2>4, <2>5
<1>5. n \in S
  <2> HIDE DEF S
  <2>1. \A k \in 0..n : k \in S
    BY <1>1, <1>3, <1>4, EveryTurn
  <2> QED
    BY <1>1, <2>1
<1>6. CaptureLoop(segs, req, params) = [k \in 0..n |-> T(CaptureLoop(segs, req, params), k)]
  <2> HIDE DEF T
  <2>1. \E f : f = [k \in 0..n |-> T(f, k)]
    BY <1>5
  <2> QED
    BY <1>2, <2>1, Zenon
<1>7. 0 \in 0..n /\ \A k \in 1..n : k \in 0..n /\ k # 0
  BY <1>1
<1> QED
  BY <1>6, <1>7 DEF n

(* The search, entry by entry. *)
LEMMA SearchTurn ==
  ASSUME NEW table, NEW method, NEW req, Len(table) \in Nat
  PROVE  /\ Search(table, method, req)[0] = NotFound
         /\ \A k \in 1..Len(table) :
              Search(table, method, req)[k] = Visit(table, method, req, Search(table, method, req)[k - 1], k)
<1> DEFINE n == Len(table)
           T(f, k) == IF k = 0 THEN NotFound
                      ELSE Visit(table, method, req, f[k - 1], k)
           S == {m \in 0..n : \E f : f = [k \in 0..m |-> T(f, k)]}
<1>1. n \in Nat
  OBVIOUS
<1>2. Search(table, method, req) = CHOOSE f : f = [k \in 0..n |-> T(f, k)]
  BY DEF Search
<1> HIDE DEF n
<1>3. 0 \in S
  <2> DEFINE g == [k \in 0..0 |-> NotFound]
  <2>1. g = [k \in 0..0 |-> T(g, k)]
    OBVIOUS
  <2>2. \E f : f = [k \in 0..0 |-> T(f, k)]
    BY <2>1
  <2> QED
    BY <1>1, <2>2
<1>4. ASSUME NEW m \in 0..n, m \in S, m < n PROVE m + 1 \in S
  <2> HIDE DEF T
  <2>1. PICK f : f = [k \in 0..m |-> T(f, k)]
    BY <1>4
  <2> DEFINE g == [k \in 0..(m + 1) |-> IF k <= m THEN f[k] ELSE T(f, m + 1)]
  <2>2. ASSUME NEW k \in 0..(m + 1) PROVE g[k] = T(g, k)
    <3>1. CASE k = 0
      <4>1. g[0] = f[0] /\ f[0] = T(f, 0)
        BY <1>1, <2>1
      <4> QED
        BY <3>1, <4>1 DEF T
    <3>2. CASE k \in 1..m
      <4>1. k - 1 \in 0..m /\ k - 1 \in 0..(m + 1) /\ k - 1 <= m /\ k <= m
        BY <1>1, <3>2
      <4>2. g[k - 1] = f[k - 1]
        BY <4>1
      <4>3. g[k] = f[k] /\ f[k] = T(f, k)
        BY <2>1, <3>2, <4>1
      <4>4. T(g, k) = T(f, k)
        BY <4>2 DEF T
      <4> QED
        BY <4>3, <4>4
    <3>3. CASE k = m + 1
      <4>1. k - 1 \in 0..(m + 1) /\ k - 1 <= m /\ ~(k <= m)
        BY <1>1, <3>3
      <4>2. g[k - 1] = f[k - 1]
        BY <4>1
      <4>3. g[k] = T(f, k)
        BY <3>3, <4>1
      <4>4. T(g, k) = T(f, k)
        BY <4>2 DEF T
      <4> QED
        BY <4>3, <4>4
    <3> QED
      BY <1>1, <3>1, <3>2, <3>3
  <2>3. g = [k \in 0..(m + 1) |-> T(g, k)]
    BY <2>2
  <2>4. m + 1 \in 0..n
    BY <1>1, <1>4
  <2> HIDE DEF g
  <2>5. \E h : h = [k \in 0..(m + 1) |-> T(h, k)]
    BY <2>3
  <2> QED
    BY <2>4, <2>5
<1>5. n \in S
  <2> HIDE DEF S
  <2>1. \A k \in 0..n : k \in S
    BY <1>1, <1>3, <1>4, EveryTurn
  <2> QED
    BY <1>1, <2>1
<1>6. Search(table, method, req) = [k \in 0..n |-> T(Search(table, method, req), k)]
  <2> HIDE DEF T
  <2>1. \E f : f = [k \in 0..n |-> T(f, k)]
    BY <1>5
  <2> QED
    BY <1>2, <2>1, Zenon
<1>7. 0 \in 0..n /\ \A k \in 1..n : k \in 0..n /\ k # 0
  BY <1>1
<1> QED
  BY <1>6, <1>7 DEF n

-----------------------------------------------------------------------------
(* No catch-all stands among the first s segments; segment t agrees with the  *)
(* request segment in its place.                                              *)
Plain(segs, s) == \A t \in 1..s : segs[t].kind # "catchall"
Agrees(segs, req, t) == t <= Len(req) /\ seg_eq(segs[t], req[t])

FitsReq(segs, req) ==
  /\ \A t \in 1..Len(segs) : Plain(segs, t) => Agrees(segs, req, t)
  /\ Plain(segs, Len(segs)) => Len(req) <= Len(segs)

LEMMA PlainTurn ==
  ASSUME NEW segs, NEW s \in Nat
  PROVE  /\ Plain(segs, s + 1) <=> Plain(segs, s) /\ segs[s + 1].kind # "catchall"
         /\ Plain(segs, 0)
         /\ \A t \in 1..s : Plain(segs, s) => Plain(segs, t)
<1>1. 1..(s + 1) = 1..s \cup {s + 1} /\ \A t \in 1..s : 1..t \subseteq 1..s
  OBVIOUS
<1> QED
  BY <1>1 DEF Plain

LEMMA FitsIs ==
  ASSUME NEW segs \in Seq(Seg), NEW path \in Seq(STRING), path # <<>>
  PROVE  Split(path) \in Seq(STRING)
         /\ (Fits(segs, path) <=> Len(Split(path)) <= MaxPathSegs /\ FitsReq(segs, Split(path)))
<1> DEFINE req == Split(path)
           n == Len(segs)
<1>1. req \in Seq(STRING)
  <2>1. Len(path) \in Nat /\ Len(path) >= 1
    BY EmptySeq
  <2>2. SubSeq(path, 1, Len(path) - 1) \in Seq(STRING)
    <3>1. 1 \in 1..(Len(path) + 1) /\ Len(path) - 1 \in (1 - 1)..Len(path)
      BY <2>1
    <3> QED
      BY <3>1, SubSeqProperties
  <2> QED
    BY <2>2 DEF Split
<1>2. n \in Nat /\ \A t \in 1..n : segs[t].kind \in {"lit", "param", "catchall"}
  <2>1. n \in Nat /\ \A t \in 1..n : segs[t] \in Seg
    BY ElementOfSeq
  <2> QED
    BY <2>1 DEF Seg
<1>3. ASSUME NEW t \in 1..n
      PROVE  Plain(segs, t) <=> InEffect(segs, t) /\ segs[t].kind # "catchall"
  <2>1. 1..t = 1..(t - 1) \cup {t}
    OBVIOUS
  <2> QED
    BY <2>1 DEF Plain, InEffect
<1>4. ASSUME NEW t \in 1..n, segs[t].kind # "catchall"
      PROVE  Agrees(segs, req, t) <=>
               t <= Len(req) /\ (segs[t].kind = "lit" => Lower(segs[t].text) = Lower(req[t]))
  BY <1>2 DEF Agrees, seg_eq, cerco_strcaseeq
<1>5. Fits(segs, path) <=>
        /\ Len(req) <= MaxPathSegs
        /\ \A s \in 1..n :
             InEffect(segs, s) /\ segs[s].kind # "catchall" =>
               s <= Len(req) /\ (segs[s].kind = "lit" => Lower(segs[s].text) = Lower(req[s]))
        /\ (\A s \in 1..n : segs[s].kind # "catchall") => Len(req) <= n
  BY DEF Fits
<1>6. Plain(segs, n) <=> \A s \in 1..n : segs[s].kind # "catchall"
  BY DEF Plain
<1> HIDE DEF req, n
<1>7. Fits(segs, path) <=> Len(req) <= MaxPathSegs /\ FitsReq(segs, req)
  <2>1. FitsReq(segs, req) <=>
          /\ \A t \in 1..n : Plain(segs, t) => Agrees(segs, req, t)
          /\ Plain(segs, n) => Len(req) <= n
    BY DEF FitsReq, n
  <2> QED
    BY <1>3, <1>4, <1>5, <1>6, <2>1
<1> QED
  BY <1>1, <1>7 DEF req

-----------------------------------------------------------------------------
(* After s turns the loop has matched them all, met a catch-all, or found a   *)
(* segment that does not agree.                                               *)
Turn == [seg_i : Nat, matched : BOOLEAN, catchall_hit : BOOLEAN, stop : BOOLEAN]

MatchInv(m, segs, req, s) ==
  /\ m \in Turn
  /\ ~m.stop => /\ m.matched /\ ~m.catchall_hit /\ m.seg_i = s
                /\ Plain(segs, s) /\ \A t \in 1..s : Agrees(segs, req, t)
  /\ m.stop /\ m.matched => /\ m.catchall_hit /\ ~Plain(segs, s)
                            /\ \A t \in 1..s : Plain(segs, t) => Agrees(segs, req, t)
  /\ m.stop /\ ~m.matched => \E t \in 1..s : Plain(segs, t) /\ ~Agrees(segs, req, t)

LEMMA TurnSets ==
  ASSUME NEW m \in Turn, NEW e
  PROVE  /\ e = [m EXCEPT !.stop = TRUE, !.catchall_hit = TRUE] =>
              e \in Turn /\ e.stop /\ e.catchall_hit /\ (e.matched <=> m.matched)
         /\ e = [m EXCEPT !.stop = TRUE, !.matched = FALSE] =>
              e \in Turn /\ e.stop /\ ~e.matched
         /\ e = [m EXCEPT !.seg_i = @ + 1] =>
              /\ e \in Turn /\ e.seg_i = m.seg_i + 1 /\ (e.stop <=> m.stop)
              /\ (e.matched <=> m.matched) /\ (e.catchall_hit <=> m.catchall_hit)
<1>1. ASSUME e = [m EXCEPT !.stop = TRUE, !.catchall_hit = TRUE]
      PROVE  e \in Turn /\ e.stop /\ e.catchall_hit /\ (e.matched <=> m.matched)
  BY <1>1 DEF Turn
<1>2. ASSUME e = [m EXCEPT !.stop = TRUE, !.matched = FALSE]
      PROVE  e \in Turn /\ e.stop /\ ~e.matched
  BY <1>2 DEF Turn
<1>3. ASSUME e = [m EXCEPT !.seg_i = @ + 1]
      PROVE  /\ e \in Turn /\ e.seg_i = m.seg_i + 1 /\ (e.stop <=> m.stop)
             /\ (e.matched <=> m.matched) /\ (e.catchall_hit <=> m.catchall_hit)
  BY <1>3 DEF Turn
<1> QED
  BY <1>1, <1>2, <1>3

LEMMA MatchKeeps ==
  ASSUME NEW segs \in Seq(Seg), NEW req \in Seq(STRING), NEW s \in Nat, s + 1 \in 1..Len(segs),
         NEW m, MatchInv(m, segs, req, s)
  PROVE  MatchInv(MatchStep(req, m, segs[s + 1]), segs, req, s + 1)
<1> DEFINE seg == segs[s + 1]
           e == MatchStep(req, m, seg)
<1>1. m \in Turn
  BY DEF MatchInv
<1>2. /\ Plain(segs, s + 1) <=> Plain(segs, s) /\ seg.kind # "catchall"
      /\ \A t \in 1..s : Plain(segs, s) => Plain(segs, t)
  BY PlainTurn
<1>3. s + 1 \in 1..(s + 1) /\ \A t \in 1..(s + 1) : t \in 1..s \/ t = s + 1
  OBVIOUS
<1>4. \A t \in 1..s : t \in 1..(s + 1)
  OBVIOUS
<1> HIDE DEF seg
<1>5. CASE m.stop
  <2>1. e = m
    BY <1>5 DEF MatchStep
  <2>2. ~Plain(segs, s) => ~Plain(segs, s + 1)
    BY <1>2
  <2>3. MatchInv(m, segs, req, s + 1)
    BY <1>1, <1>3, <1>4, <1>5, <2>2 DEF MatchInv
  <2> QED
    BY <2>1, <2>3 DEF seg
<1>6. CASE ~m.stop /\ seg.kind = "catchall"
  <2>1. e = [m EXCEPT !.stop = TRUE, !.catchall_hit = TRUE]
    BY <1>6 DEF MatchStep
  <2>2. e \in Turn /\ e.stop /\ e.catchall_hit /\ (e.matched <=> m.matched)
    BY <1>1, <2>1, TurnSets
  <2>3. m.matched /\ ~Plain(segs, s + 1) /\ \A t \in 1..s : Agrees(segs, req, t)
    BY <1>2, <1>6 DEF MatchInv
  <2> HIDE DEF e
  <2>4. MatchInv(e, segs, req, s + 1)
    BY <1>3, <2>2, <2>3 DEF MatchInv
  <2> QED
    BY <2>4 DEF e, seg
<1>7. CASE ~m.stop /\ seg.kind # "catchall"
  <2>1. /\ m.matched /\ ~m.catchall_hit /\ m.seg_i = s
        /\ Plain(segs, s + 1) /\ \A t \in 1..s : Agrees(segs, req, t)
    BY <1>2, <1>7 DEF MatchInv
  <2>2. Agrees(segs, req, s + 1) <=> ~(m.seg_i >= Len(req) \/ ~seg_eq(seg, req[m.seg_i + 1]))
    <3>1. Len(req) \in Nat
      OBVIOUS
    <3>2. s + 1 <= Len(req) <=> ~(s >= Len(req))
      BY <3>1
    <3> QED
      BY <2>1, <3>2 DEF Agrees, seg
  <2>3. CASE ~Agrees(segs, req, s + 1)
    <3>1. e = [m EXCEPT !.stop = TRUE, !.matched = FALSE]
      BY <1>7, <2>2, <2>3 DEF MatchStep
    <3>2. e \in Turn /\ e.stop /\ ~e.matched
      BY <1>1, <3>1, TurnSets
    <3> HIDE DEF e
    <3>3. MatchInv(e, segs, req, s + 1)
      BY <1>3, <2>1, <2>3, <3>2 DEF MatchInv
    <3> QED
      BY <3>3 DEF e, seg
  <2>4. CASE Agrees(segs, req, s + 1)
    <3>1. e = [m EXCEPT !.seg_i = @ + 1]
      BY <1>7, <2>2, <2>4 DEF MatchStep
    <3>2. /\ e \in Turn /\ e.seg_i = m.seg_i + 1 /\ (e.stop <=> m.stop)
          /\ (e.matched <=> m.matched) /\ (e.catchall_hit <=> m.catchall_hit)
      BY <1>1, <3>1, TurnSets
    <3> HIDE DEF e
    <3>3. MatchInv(e, segs, req, s + 1)
      BY <1>3, <1>7, <2>1, <2>4, <3>2 DEF MatchInv
    <3> QED
      BY <3>3 DEF e, seg
  <2> QED
    BY <2>3, <2>4
<1> QED
  BY <1>5, <1>6, <1>7

(* The loop matches exactly the paths an entry promises to serve. *)
LEMMA MatchedIs ==
  ASSUME NEW segs \in Seq(Seg), NEW req \in Seq(STRING)
  PROVE  Matched(segs, req) <=> FitsReq(segs, req)
<1> DEFINE n == Len(segs)
           M == MatchLoop(segs, req)
           S == {s \in 0..n : MatchInv(M[s], segs, req, s)}
<1>1. n \in Nat /\ Len(req) \in Nat
  OBVIOUS
<1>2. /\ M[0] = [seg_i |-> 0, matched |-> TRUE, catchall_hit |-> FALSE, stop |-> FALSE]
      /\ \A k \in 1..n : M[k] = MatchStep(req, M[k - 1], segs[k])
  BY <1>1, MatchTurn
<1> HIDE DEF M
<1>3. 0 \in S
  <2>1. M[0] \in Turn /\ ~M[0].stop /\ M[0].matched /\ ~M[0].catchall_hit /\ M[0].seg_i = 0
    BY <1>2 DEF Turn
  <2>2. Plain(segs, 0) /\ \A t \in 1..0 : Agrees(segs, req, t)
    BY DEF Plain
  <2>3. MatchInv(M[0], segs, req, 0)
    BY <2>1, <2>2 DEF MatchInv
  <2> QED
    BY <1>1, <2>3
<1>4. \A k \in 0..n : k \in S /\ k < n => k + 1 \in S
  <2> SUFFICES ASSUME NEW k \in 0..n, MatchInv(M[k], segs, req, k), k < n
               PROVE  MatchInv(M[k + 1], segs, req, k + 1) /\ k + 1 \in 0..n
    OBVIOUS
  <2>1. k \in Nat /\ k + 1 \in 1..n /\ k + 1 \in 0..n /\ k + 1 - 1 = k
    BY <1>1
  <2>2. M[k + 1] = MatchStep(req, M[k], segs[k + 1])
    BY <1>2, <2>1
  <2>3. MatchInv(MatchStep(req, M[k], segs[k + 1]), segs, req, k + 1)
    BY <2>1, MatchKeeps
  <2> QED
    BY <2>1, <2>2, <2>3
<1> HIDE DEF S, n
<1>5. \A k \in 0..n : k \in S
  BY <1>1, <1>3, <1>4, EveryTurn
<1> DEFINE m == M[n]
<1>6. MatchInv(m, segs, req, n)
  BY <1>1, <1>5 DEF S
<1>7. Matched(segs, req) <=> m.matched /\ (m.catchall_hit \/ m.seg_i = Len(req))
  BY DEF Matched, M, n
<1> HIDE DEF m
<1>8. FitsReq(segs, req) <=>
        /\ \A t \in 1..n : Plain(segs, t) => Agrees(segs, req, t)
        /\ Plain(segs, n) => Len(req) <= n
  BY DEF FitsReq, n
<1>9. CASE ~m.stop
  <2>1. /\ m.matched /\ ~m.catchall_hit /\ m.seg_i = n /\ Plain(segs, n)
        /\ \A t \in 1..n : Agrees(segs, req, t)
    BY <1>6, <1>9 DEF MatchInv
  <2>2. n = 0 \/ Agrees(segs, req, n)
    BY <1>1, <2>1
  <2>3. n <= Len(req)
    BY <1>1, <2>2 DEF Agrees
  <2>4. n = Len(req) <=> Len(req) <= n
    BY <1>1, <2>3
  <2> QED
    BY <1>7, <1>8, <2>1, <2>4
<1>10. CASE m.stop /\ m.matched
  BY <1>6, <1>7, <1>8, <1>10 DEF MatchInv
<1>11. CASE m.stop /\ ~m.matched
  BY <1>6, <1>7, <1>8, <1>11 DEF MatchInv
<1> QED
  BY <1>9, <1>10, <1>11

-----------------------------------------------------------------------------
(* After i entries the search stands at the first that serves the request, or *)
(* has collected the methods of those that only fit its path.                 *)
Entry == [method : RouteMethods, segs : Seq(Seg)]
Captured(segs, req) == CaptureLoop(segs, req, <<>>)[Len(segs)].params
FitsTo(table, req, i) == {j \in 1..i : FitsReq(table[j].segs, req)}

FindInv(f, table, method, req, i) ==
  /\ f = [result |-> f.result, fn |-> f.fn, allowed |-> f.allowed, params |-> f.params]
  /\ \/ /\ f.result = "miss" /\ f.allowed = {} /\ FitsTo(table, req, i) = {}
     \/ /\ f.result = "match" /\ f.fn \in FitsTo(table, req, i)
        /\ MethodServes(table[f.fn].method, method)
        /\ \A j \in FitsTo(table, req, i) : MethodServes(table[j].method, method) => f.fn <= j
        /\ f.params = Captured(table[f.fn].segs, req)
     \/ /\ f.result = "method_mismatch" /\ FitsTo(table, req, i) # {}
        /\ \A j \in FitsTo(table, req, i) : ~MethodServes(table[j].method, method)
        /\ f.allowed = {table[j].method : j \in FitsTo(table, req, i)}

Fields == {"result", "fn", "allowed", "params"}

LEMMA SameFields ==
  ASSUME NEW e, NEW g, e = [i \in DOMAIN e |-> e[i]], g = [i \in DOMAIN g |-> g[i]],
         DOMAIN e = Fields, DOMAIN g = Fields, e.result = g.result, e.fn = g.fn,
         e.allowed = g.allowed, e.params = g.params
  PROVE  e = g
<1>1. \A i \in Fields : e[i] = g[i]
  BY DEF Fields
<1> QED
  BY <1>1

LEMMA VisitIs ==
  ASSUME NEW f, f = [result |-> f.result, fn |-> f.fn, allowed |-> f.allowed, params |-> f.params],
         NEW table, NEW method, NEW req, NEW i
  PROVE  /\ f.result = "match" \/ ~Matched(table[i].segs, req) => Visit(table, method, req, f, i) = f
         /\ f.result # "match" /\ Matched(table[i].segs, req) /\ MethodServes(table[i].method, method) =>
              Visit(table, method, req, f, i)
                = [result |-> "match", fn |-> i, allowed |-> f.allowed,
                   params |-> Captured(table[i].segs, req)]
         /\ f.result # "match" /\ Matched(table[i].segs, req) /\ ~MethodServes(table[i].method, method) =>
              Visit(table, method, req, f, i)
                = [result |-> "method_mismatch", fn |-> f.fn,
                   allowed |-> f.allowed \cup {table[i].method}, params |-> Captured(table[i].segs, req)]
<1> DEFINE z == Captured(table[i].segs, req)
           w == f.allowed \cup {table[i].method}
<1>1. Visit(table, method, req, f, i) =
        IF f.result = "match" \/ ~Matched(table[i].segs, req) THEN f
        ELSE IF MethodServes(table[i].method, method)
          THEN [f EXCEPT !.result = "match", !.fn = i, !.params = z]
        ELSE [f EXCEPT !.result = "method_mismatch", !.allowed = w, !.params = z]
  BY DEF Visit, Capture, Captured
<1> HIDE DEF z, w
<1>2. [f EXCEPT !.result = "match", !.fn = i, !.params = z]
        = [result |-> "match", fn |-> i, allowed |-> f.allowed, params |-> z]
  <2> DEFINE e == [f EXCEPT !.result = "match", !.fn = i, !.params = z]
             g == [result |-> "match", fn |-> i, allowed |-> f.allowed, params |-> z]
  <2>1. DOMAIN f = Fields
    BY DEF Fields
  <2>2. e = [q \in DOMAIN e |-> e[q]] /\ g = [q \in DOMAIN g |-> g[q]]
    OBVIOUS
  <2>3. DOMAIN e = Fields /\ DOMAIN g = Fields
    BY <2>1 DEF Fields
  <2>4. e.result = g.result /\ e.fn = g.fn /\ e.allowed = g.allowed /\ e.params = g.params
    BY <2>1 DEF Fields
  <2> HIDE DEF e, g
  <2>5. e = g
    BY <2>2, <2>3, <2>4, SameFields
  <2> QED
    BY <2>5 DEF e, g
<1>3. [f EXCEPT !.result = "method_mismatch", !.allowed = w, !.params = z]
        = [result |-> "method_mismatch", fn |-> f.fn, allowed |-> w, params |-> z]
  <2> DEFINE e == [f EXCEPT !.result = "method_mismatch", !.allowed = w, !.params = z]
             g == [result |-> "method_mismatch", fn |-> f.fn, allowed |-> w, params |-> z]
  <2>1. DOMAIN f = Fields
    BY DEF Fields
  <2>2. e = [q \in DOMAIN e |-> e[q]] /\ g = [q \in DOMAIN g |-> g[q]]
    OBVIOUS
  <2>3. DOMAIN e = Fields /\ DOMAIN g = Fields
    BY <2>1 DEF Fields
  <2>4. e.result = g.result /\ e.fn = g.fn /\ e.allowed = g.allowed /\ e.params = g.params
    BY <2>1 DEF Fields
  <2> HIDE DEF e, g
  <2>5. e = g
    BY <2>2, <2>3, <2>4, SameFields
  <2> QED
    BY <2>5 DEF e, g
<1> QED
  BY <1>1, <1>2, <1>3 DEF z, w

LEMMA FindKeeps ==
  ASSUME NEW table \in Seq(Entry), NEW method, NEW req \in Seq(STRING),
         NEW i \in Nat, i + 1 \in 1..Len(table), NEW f, FindInv(f, table, method, req, i)
  PROVE  FindInv(Visit(table, method, req, f, i + 1), table, method, req, i + 1)
<1> DEFINE n == i + 1
           g == Visit(table, method, req, f, n)
           before == FitsTo(table, req, i)
           now == FitsTo(table, req, n)
<1>1. f = [result |-> f.result, fn |-> f.fn, allowed |-> f.allowed, params |-> f.params]
  BY DEF FindInv
<1>2. table[n] \in Entry
  BY ElementOfSeq
<1>3. Matched(table[n].segs, req) <=> FitsReq(table[n].segs, req)
  BY <1>2, MatchedIs DEF Entry
<1>4. /\ FitsReq(table[n].segs, req) => now = before \cup {n}
      /\ ~FitsReq(table[n].segs, req) => now = before
      /\ \A j \in before : j <= n
  BY DEF FitsTo
<1>5. n \in Nat /\ n <= n
  OBVIOUS
<1> HIDE DEF n, g, before, now
<1>6. CASE f.result = "match" \/ ~FitsReq(table[n].segs, req)
  <2>1. g = f
    BY <1>1, <1>3, <1>6, VisitIs DEF g
  <2>2. CASE ~FitsReq(table[n].segs, req)
    <3>1. FindInv(f, table, method, req, n)
      BY <1>4, <2>2 DEF FindInv, before, now
    <3> QED
      BY <2>1, <3>1 DEF g, n
  <2>3. CASE f.result = "match" /\ FitsReq(table[n].segs, req)
    <3>1. /\ f.fn \in before /\ MethodServes(table[f.fn].method, method)
          /\ \A j \in before : MethodServes(table[j].method, method) => f.fn <= j
          /\ f.params = Captured(table[f.fn].segs, req)
      BY <2>3 DEF FindInv, before
    <3>2. f.fn \in now /\ \A j \in now : MethodServes(table[j].method, method) => f.fn <= j
      BY <1>4, <2>3, <3>1
    <3>3. FindInv(f, table, method, req, n)
      BY <1>1, <2>3, <3>1, <3>2 DEF FindInv, now
    <3> QED
      BY <2>1, <3>3 DEF g, n
  <2> QED
    BY <1>6, <2>2, <2>3
<1>7. CASE f.result # "match" /\ FitsReq(table[n].segs, req)
  <2>1. now = before \cup {n} /\ n \in now
    BY <1>4, <1>7
  <2>2. /\ \A j \in before : ~MethodServes(table[j].method, method)
        /\ f.allowed = {table[j].method : j \in before}
    <3>1. before = {} /\ f.allowed = {} =>
            /\ \A j \in before : ~MethodServes(table[j].method, method)
            /\ f.allowed = {table[j].method : j \in before}
      OBVIOUS
    <3> QED
      BY <1>7, <3>1 DEF FindInv, before
  <2>3. CASE MethodServes(table[n].method, method)
    <3>1. g = [result |-> "match", fn |-> n, allowed |-> f.allowed,
               params |-> Captured(table[n].segs, req)]
      BY <1>1, <1>3, <1>7, <2>3, VisitIs DEF g
    <3>2. /\ g = [result |-> g.result, fn |-> g.fn, allowed |-> g.allowed, params |-> g.params]
          /\ g.result = "match" /\ g.fn = n /\ g.params = Captured(table[n].segs, req)
      BY <3>1
    <3>3. \A j \in now : MethodServes(table[j].method, method) => n <= j
      BY <1>5, <2>1, <2>2
    <3>4. FindInv(g, table, method, req, n)
      BY <2>1, <2>3, <3>2, <3>3 DEF FindInv, now
    <3> QED
      BY <3>4 DEF g, n
  <2>4. CASE ~MethodServes(table[n].method, method)
    <3>1. g = [result |-> "method_mismatch", fn |-> f.fn, allowed |-> f.allowed \cup {table[n].method},
               params |-> Captured(table[n].segs, req)]
      BY <1>1, <1>3, <1>7, <2>4, VisitIs DEF g
    <3>2. /\ g = [result |-> g.result, fn |-> g.fn, allowed |-> g.allowed, params |-> g.params]
          /\ g.result = "method_mismatch" /\ g.allowed = f.allowed \cup {table[n].method}
      BY <3>1
    <3>3. \A j \in now : ~MethodServes(table[j].method, method)
      BY <2>1, <2>2, <2>4
    <3>4. g.allowed = {table[j].method : j \in now}
      BY <2>1, <2>2, <3>2
    <3>5. now # {}
      BY <2>1
    <3>6. FindInv(g, table, method, req, n)
      BY <3>2, <3>3, <3>4, <3>5 DEF FindInv, now
    <3> QED
      BY <3>6 DEF g, n
  <2> QED
    BY <2>3, <2>4
<1> QED
  BY <1>6, <1>7

LEMMA FindIs ==
  ASSUME NEW table \in Seq(Entry), NEW method, NEW req \in Seq(STRING)
  PROVE  FindInv(Search(table, method, req)[Len(table)], table, method, req, Len(table))
<1> DEFINE n == Len(table)
           F == Search(table, method, req)
           S == {i \in 0..n : FindInv(F[i], table, method, req, i)}
<1>1. n \in Nat
  OBVIOUS
<1>2. F[0] = NotFound /\ \A k \in 1..n : F[k] = Visit(table, method, req, F[k - 1], k)
  BY <1>1, SearchTurn
<1> HIDE DEF F
<1>3. 0 \in S
  <2>1. FitsTo(table, req, 0) = {}
    BY DEF FitsTo
  <2>2. FindInv(NotFound, table, method, req, 0)
    BY <2>1 DEF FindInv, NotFound
  <2> QED
    BY <1>1, <1>2, <2>2
<1>4. \A k \in 0..n : k \in S /\ k < n => k + 1 \in S
  <2> SUFFICES ASSUME NEW k \in 0..n, FindInv(F[k], table, method, req, k), k < n
               PROVE  FindInv(F[k + 1], table, method, req, k + 1) /\ k + 1 \in 0..n
    OBVIOUS
  <2>1. k \in Nat /\ k + 1 \in 1..n /\ k + 1 \in 0..n /\ k + 1 - 1 = k
    BY <1>1
  <2>2. F[k + 1] = Visit(table, method, req, F[k], k + 1)
    BY <1>2, <2>1
  <2>3. FindInv(Visit(table, method, req, F[k], k + 1), table, method, req, k + 1)
    BY <2>1, FindKeeps
  <2> QED
    BY <2>1, <2>2, <2>3
<1> HIDE DEF S, n
<1>5. \A k \in 0..n : k \in S
  BY <1>1, <1>3, <1>4, EveryTurn
<1>6. n \in S
  BY <1>1, <1>5
<1> QED
  BY <1>6 DEF S, F, n

-----------------------------------------------------------------------------
(* What is searched stays as it was given, and the parsed table has entries   *)
(* of known segments only.                                                    *)
RouteOK == kind = "route" => input \in [table : Tables, method : Methods, path : Paths]

LEMMA RouteStays == Spec => []RouteOK
<1>1. Init => RouteOK
  BY DEF Init, RouteOK
<1>2. RouteOK /\ [Next]_vars => RouteOK'
  <2> SUFFICES ASSUME RouteOK, [Next]_vars PROVE RouteOK'
    OBVIOUS
  <2>1. kind' = kind /\ input' = input
    BY DEF Next, vars, HandlerAllocs, cerco_arena_alloc, AllocFits, AllocGrows, AllocDenied,
       RequestEnds
  <2> QED
    BY <2>1 DEF RouteOK
<1> QED
  BY <1>1, <1>2, PTL DEF Spec

LEMMA ParsedType ==
  ASSUME NEW routes \in Seq([method : RouteMethods, segs : Seq([sigil : STRING, name : STRING])])
  PROVE  router_init(routes) \in Seq(Entry) /\ DOMAIN router_init(routes) = 1..Len(router_init(routes))
<1> DEFINE n == Len(routes)
           P(i) == [method |-> routes[i].method, segs |-> ParsedSegs(routes[i].segs)]
<1>1. n \in Nat
  OBVIOUS
<1>2. ASSUME NEW i \in 1..n PROVE P(i) \in Entry
  <2> DEFINE ps == routes[i].segs
             k == LeastOf(Len(ps), CERCO_RT_MAX_SEGS)
  <2>1. routes[i] \in [method : RouteMethods, segs : Seq([sigil : STRING, name : STRING])]
    BY ElementOfSeq
  <2>2. routes[i].method \in RouteMethods /\ ps \in Seq([sigil : STRING, name : STRING])
    BY <2>1
  <2> HIDE DEF ps
  <2>3. Len(ps) \in Nat
    BY <2>2
  <2>4. k \in Nat /\ k <= Len(ps)
    BY <2>3 DEF LeastOf, CERCO_RT_MAX_SEGS
  <2>5. ASSUME NEW s \in 1..k PROVE seg_parse(ps[s]) \in Seg
    <3>1. s \in 1..Len(ps)
      BY <2>3, <2>4
    <3>2. ps[s] \in [sigil : STRING, name : STRING]
      BY <2>2, <3>1, ElementOfSeq
    <3>3. ps[s].sigil \in STRING /\ ps[s].name \in STRING
      BY <3>2
    <3>4. CASE ps[s].sigil = ":"
      BY <3>3, <3>4 DEF seg_parse, Seg
    <3>5. CASE ps[s].sigil = "*" /\ ps[s].name # ""
      BY <3>3, <3>5 DEF seg_parse, Seg
    <3>6. CASE ps[s].sigil # ":" /\ ~(ps[s].sigil = "*" /\ ps[s].name # "")
      BY <3>3, <3>6 DEF seg_parse, Seg
    <3> QED
      BY <3>4, <3>5, <3>6
  <2>6. ParsedSegs(ps) = [s \in 1..k |-> seg_parse(ps[s])]
    BY DEF ParsedSegs
  <2> HIDE DEF k
  <2>7. ParsedSegs(ps) \in Seq(Seg)
    BY <2>4, <2>5, <2>6
  <2> QED
    BY <2>2, <2>7 DEF Entry, ps
<1>3. router_init(routes) = [i \in 1..n |-> P(i)]
  BY DEF router_init
<1> HIDE DEF n, P
<1> QED
  BY <1>1, <1>2, <1>3

LEMMA RouteGiven ==
  ASSUME RouteOK, kind = "route"
  PROVE  /\ Parsed \in Seq(Entry) /\ DOMAIN Parsed = 1..Len(Parsed)
         /\ input.path \in Seq(STRING) /\ input.path # <<>>
         /\ Split(input.path) \in Seq(STRING)
         /\ \A i \in 1..Len(Parsed) :
              Fits(Parsed[i].segs, input.path) <=>
                /\ Len(Split(input.path)) <= MaxPathSegs
                /\ FitsReq(Parsed[i].segs, Split(input.path))
<1>1. input.table \in Tables /\ input.path \in Paths
  BY DEF RouteOK
<1>2. /\ input.table \in Seq([method : RouteMethods, segs : Seq([sigil : STRING, name : STRING])])
      /\ input.path \in Seq(STRING) /\ input.path # <<>>
  BY <1>1, RouteAssumption
<1>3. Parsed \in Seq(Entry) /\ DOMAIN Parsed = 1..Len(Parsed)
  BY <1>2, ParsedType DEF Parsed
<1>4. <<>> \in Seq(Seg)
  OBVIOUS
<1>5. Split(input.path) \in Seq(STRING)
  BY <1>2, <1>4, FitsIs
<1>6. ASSUME NEW i \in 1..Len(Parsed)
      PROVE  Fits(Parsed[i].segs, input.path) <=>
                /\ Len(Split(input.path)) <= MaxPathSegs
                /\ FitsReq(Parsed[i].segs, Split(input.path))
  <2>1. Parsed[i] \in Entry
    BY <1>3, ElementOfSeq
  <2>2. Parsed[i].segs \in Seq(Seg)
    BY <2>1 DEF Entry
  <2> QED
    BY <1>2, <2>2, FitsIs
<1> QED
  BY <1>2, <1>3, <1>5, <1>6

(* A request runs the first entry that serves it; it is answered 204 or 405   *)
(* with the methods of all the entries that fit its path only when none       *)
(* serves it, and goes to the files or to the 404 only when none fits         *)
(* (dispatch.c 30-69; router.c 95-177), for every table, path and method.     *)
(* The inductive part is FindInv, over the entries, on top of MatchInv, over  *)
(* the segments of one.                                                       *)
THEOREM FirstRouteRuns == Spec => []RouterChoosesFirst
<1>1. ASSUME RouteOK, kind = "route" PROVE RouterChoosesFirst
  <2> DEFINE table == Parsed
             method == input.method
             req == Split(input.path)
             n == Len(table)
             f == router_find(table, method, input.path)
             d == conn_request_dispatch(table, method, input.path)
             fit == {i \in DOMAIN Parsed : Fits(Parsed[i].segs, input.path)}
             run == {i \in fit : MethodServes(Parsed[i].method, input.method)}
             named == {Parsed[i].method : i \in fit} \ {"HEAD"}
             other == d.to = "404" \/ (d.to = "static" /\ input.method \in {"GET", "HEAD"})
  <2>1. /\ table \in Seq(Entry) /\ DOMAIN table = 1..n /\ req \in Seq(STRING)
        /\ \A i \in 1..n : Fits(table[i].segs, input.path) <=>
             Len(req) <= MaxPathSegs /\ FitsReq(table[i].segs, req)
    BY <1>1, RouteGiven
  <2>2. Len(req) \in Nat /\ n \in Nat
    BY <2>1
  <2>3. fit = IF Len(req) <= MaxPathSegs THEN FitsTo(table, req, n) ELSE {}
    BY <2>1 DEF FitsTo
  <2>4. ASSUME f.result = "miss" PROVE other
    <3> DEFINE file == method \in {"GET", "HEAD"} /\ static_is_asset_path(input.path)
    <3>1. d = IF file THEN Goes("static", 0, {}) ELSE Goes("404", router_send_404(table), {})
      BY <2>4 DEF conn_request_dispatch
    <3> HIDE DEF d
    <3> QED
      BY <3>1 DEF Goes
  <2>5. CASE Len(req) > MaxPathSegs
    <3>1. f = NotFound /\ fit = {} /\ run = {}
      BY <2>2, <2>3, <2>5 DEF router_find, MaxPathSegs
    <3>2. other
      BY <2>4, <3>1 DEF NotFound
    <3> HIDE DEF fit, d
    <3> QED
      BY <3>1, <3>2 DEF RouterChoosesFirst, fit, d
  <2>6. CASE ~(Len(req) > MaxPathSegs)
    <3>1. f = Search(table, method, req)[n]
      BY <2>6 DEF router_find
    <3>2. FindInv(f, table, method, req, n)
      BY <2>1, <3>1, FindIs
    <3>3. fit = FitsTo(table, req, n)
      BY <2>2, <2>3, <2>6 DEF MaxPathSegs
    <3>4. \/ f.result = "miss" /\ fit = {}
          \/ /\ f.result = "match" /\ f.fn \in run /\ \A i \in run : f.fn <= i
          \/ /\ f.result = "method_mismatch" /\ fit # {} /\ run = {}
             /\ f.allowed = {Parsed[i].method : i \in fit}
      BY <3>2, <3>3 DEF FindInv
    <3>5. /\ f.result = "match" => d = Goes("worker", f.fn, {})
          /\ f.result = "method_mismatch" =>
               d = IF method = "OPTIONS" THEN Goes("204", 0, AllowOf(f.allowed \cap Worded))
                                         ELSE Goes("405", 0, router_send_405(f.allowed))
      BY DEF conn_request_dispatch
    <3> HIDE DEF f, d
    <3>6. CASE f.result = "miss" /\ fit = {}
      <4>1. other /\ run = {}
        BY <2>4, <3>6
      <4> HIDE DEF fit
      <4> QED
        BY <3>6, <4>1 DEF RouterChoosesFirst, d, fit
    <3>7. CASE f.result = "match" /\ f.fn \in run /\ \A i \in run : f.fn <= i
      <4>1. d.to = "worker" /\ d.fn = f.fn
        BY <3>5, <3>7 DEF Goes
      <4>2. run # {}
        BY <3>7
      <4> HIDE DEF run
      <4>3. d.to = "worker" /\ d.fn \in run /\ \A i \in run : d.fn <= i
        BY <3>7, <4>1
      <4> QED
        BY <4>2, <4>3 DEF RouterChoosesFirst, d, run
    <3>8. CASE /\ f.result = "method_mismatch" /\ fit # {} /\ run = {}
               /\ f.allowed = {Parsed[i].method : i \in fit}
      <4>1. ASSUME NEW i \in fit
            PROVE Parsed[i].method \in RouteMethods
        <5>1. Parsed[i] \in Entry
          BY <2>1, ElementOfSeq
        <5> QED
          BY <5>1 DEF Entry
      <4>2. f.allowed \ {"HEAD"} = named /\ f.allowed \subseteq RouteMethods
        BY <3>8, <4>1
      <4>3. method = "OPTIONS" => "OPTIONS" \notin f.allowed
        <5> SUFFICES ASSUME method = "OPTIONS", "OPTIONS" \in f.allowed PROVE FALSE
          OBVIOUS
        <5>1. PICK i \in fit : Parsed[i].method = "OPTIONS"
          BY <3>8
        <5>2. i \in run
          BY <5>1 DEF MethodServes
        <5> QED
          BY <3>8, <5>2
      <4> HIDE DEF named, method
      <4>4. /\ f.allowed \cap (Worded \cup {"OPTIONS"}) = named
            /\ method = "OPTIONS" => f.allowed \cap Worded = named
        BY <4>2, <4>3 DEF Worded, RouteMethods
      <4>5. /\ d.to = IF method = "OPTIONS" THEN "204" ELSE "405"
            /\ d.allow = AllowOf(named)
        <5> HIDE DEF fit, run
        <5>1. CASE method = "OPTIONS"
          <6>1. d = Goes("204", 0, AllowOf(named))
            BY <3>5, <3>8, <4>4, <5>1 DEF method
          <6> QED
            BY <5>1, <6>1 DEF Goes
        <5>2. CASE method # "OPTIONS"
          <6>1. d = Goes("405", 0, router_send_405(f.allowed))
            BY <3>5, <3>8, <5>2 DEF method
          <6>2. d = Goes("405", 0, AllowOf(named))
            BY <4>4, <6>1 DEF router_send_405
          <6> QED
            BY <5>2, <6>2 DEF Goes
        <5> QED
          BY <5>1, <5>2
      <4>6. named # {} => d.allow = named
        BY <4>5 DEF AllowOf
      <4> HIDE DEF fit, run
      <4> QED
        BY <3>8, <4>5, <4>6 DEF RouterChoosesFirst, d, fit, run, named, method
    <3> QED
      BY <3>4, <3>6, <3>7, <3>8
  <2> QED
    BY <2>5, <2>6
<1>2. RouteOK => RouterChoosesFirst
  BY <1>1 DEF RouterChoosesFirst
<1> QED
  BY <1>2, RouteStays, PTL

-----------------------------------------------------------------------------
(* The segments that have a name, counted.                                    *)
LEMMA NamedCount ==
  ASSUME NEW segs, NEW s \in Nat
  PROVE  /\ Cardinality(Named(segs, s)) \in Nat
         /\ segs[s + 1].kind # "lit" =>
              Cardinality(Named(segs, s + 1)) = Cardinality(Named(segs, s)) + 1
         /\ segs[s + 1].kind = "lit" => Named(segs, s + 1) = Named(segs, s)
<1>1. IsFiniteSet(1..s) /\ Named(segs, s) \subseteq 1..s
  BY FS_Interval DEF Named
<1>2. IsFiniteSet(Named(segs, s))
  BY <1>1, FS_Subset
<1>3. Cardinality(Named(segs, s)) \in Nat
  BY <1>2, FS_CardinalityType
<1>4. s + 1 \notin Named(segs, s)
  BY <1>1
<1>5. /\ segs[s + 1].kind # "lit" => Named(segs, s + 1) = Named(segs, s) \cup {s + 1}
      /\ segs[s + 1].kind = "lit" => Named(segs, s + 1) = Named(segs, s)
  <2>1. 1..(s + 1) = 1..s \cup {s + 1}
    OBVIOUS
  <2> QED
    BY <2>1 DEF Named
<1>6. Cardinality(Named(segs, s) \cup {s + 1}) = Cardinality(Named(segs, s)) + 1
  BY <1>2, <1>4, FS_AddElement
<1> QED
  BY <1>3, <1>5, <1>6

LEMMA NamedUpTo ==
  ASSUME NEW segs, NEW u \in Nat, NEW t \in Nat, u <= t
  PROVE  Cardinality(Named(segs, u)) <= Cardinality(Named(segs, t))
<1>1. IsFiniteSet(1..t) /\ Named(segs, t) \subseteq 1..t
  BY FS_Interval DEF Named
<1>2. IsFiniteSet(Named(segs, t))
  BY <1>1, FS_Subset
<1>3. Named(segs, u) \subseteq Named(segs, t)
  <2>1. 1..u \subseteq 1..t
    OBVIOUS
  <2> QED
    BY <2>1 DEF Named
<1> QED
  BY <1>2, <1>3, FS_Subset

LEMMA NamedOrder ==
  ASSUME NEW segs, NEW u \in Nat, NEW t \in Nat, u < t, segs[t].kind # "lit"
  PROVE  Cardinality(Named(segs, u)) < Cardinality(Named(segs, t))
<1> DEFINE p == t - 1
<1>1. p \in Nat /\ p + 1 = t /\ u <= p
  OBVIOUS
<1> HIDE DEF p
<1>2. Cardinality(Named(segs, t)) = Cardinality(Named(segs, p)) + 1
  BY <1>1, NamedCount
<1>3. Cardinality(Named(segs, u)) <= Cardinality(Named(segs, p))
  BY <1>1, NamedUpTo
<1>4. Cardinality(Named(segs, u)) \in Nat /\ Cardinality(Named(segs, p)) \in Nat
  BY <1>1, NamedCount
<1> QED
  BY <1>2, <1>3, <1>4

-----------------------------------------------------------------------------
(* The parameters of the first e segments: the k-th is that of the k-th       *)
(* segment with a name, and MaxParams of them are kept.                       *)
Param == [name : STRING, value : Seq(STRING)]
ParamOf(segs, t, req) == [name |-> segs[t].text, value |-> StandsFor(segs, t, req)]

Exact(params, segs, req, e) ==
  /\ params \in Seq(Param)
  /\ Len(params) = LeastOf(Cardinality(Named(segs, e)), MaxParams)
  /\ \A k \in 1..Len(params) :
       \E t \in Named(segs, e) :
         Cardinality(Named(segs, t)) = k /\ params[k] = ParamOf(segs, t, req)

LEMMA ExactLit ==
  ASSUME NEW params, NEW segs, NEW req, NEW e \in Nat, Exact(params, segs, req, e),
         segs[e + 1].kind = "lit"
  PROVE  Exact(params, segs, req, e + 1)
<1>1. Named(segs, e + 1) = Named(segs, e)
  BY NamedCount
<1> QED
  BY <1>1 DEF Exact

LEMMA ExactNamed ==
  ASSUME NEW params, NEW segs, NEW req, NEW e \in Nat, Exact(params, segs, req, e),
         segs[e + 1].kind # "lit", ParamOf(segs, e + 1, req) \in Param, NEW v,
         v = StandsFor(segs, e + 1, req)
  PROVE  Exact(AddParam(params, segs[e + 1].text, v), segs, req, e + 1)
<1> DEFINE n == e + 1
           x == ParamOf(segs, n, req)
           q == AddParam(params, segs[n].text, v)
           a == Cardinality(Named(segs, e))
           b == Cardinality(Named(segs, n))
<1>1. a \in Nat /\ b = a + 1
  BY NamedCount
<1>2. n \in Named(segs, n) /\ \A t \in Named(segs, e) : t \in Named(segs, n)
  <2>1. n \in 1..n /\ 1..e \subseteq 1..n
    OBVIOUS
  <2> QED
    BY <2>1 DEF Named
<1>3. /\ params \in Seq(Param) /\ Len(params) = LeastOf(a, MaxParams)
      /\ \A k \in 1..Len(params) :
           \E t \in Named(segs, e) :
             Cardinality(Named(segs, t)) = k /\ params[k] = ParamOf(segs, t, req)
  BY DEF Exact
<1>4. x = [name |-> segs[n].text, value |-> v] /\ x \in Param
  BY DEF ParamOf
<1>5. q = IF Len(params) < MaxParams THEN Append(params, x) ELSE params
  BY <1>4 DEF AddParam
<1> HIDE DEF n, x, q, a, b
<1>6. Len(params) \in Nat
  BY <1>3
<1>7. CASE Len(params) < MaxParams
  <2>1. Len(params) = a
    BY <1>1, <1>3, <1>7 DEF LeastOf, MaxParams
  <2>2. b = LeastOf(b, MaxParams)
    BY <1>1, <1>7, <2>1 DEF LeastOf, MaxParams
  <2>3. q = Append(params, x)
    BY <1>5, <1>7
  <2>4. /\ q \in Seq(Param) /\ Len(q) = Len(params) + 1 /\ q[Len(params) + 1] = x
        /\ \A k \in 1..Len(params) : q[k] = params[k]
    BY <1>3, <1>4, <2>3, AppendProperties
  <2>5. Len(q) = b
    BY <1>1, <2>1, <2>4
  <2>6. ASSUME NEW k \in 1..Len(q)
        PROVE  \E t \in Named(segs, n) :
                 Cardinality(Named(segs, t)) = k /\ q[k] = ParamOf(segs, t, req)
    <3>1. CASE k = Len(params) + 1
      <4>1. Cardinality(Named(segs, n)) = k
        BY <1>1, <2>1, <3>1 DEF b
      <4>2. q[k] = ParamOf(segs, n, req)
        BY <2>4, <3>1 DEF x
      <4> QED
        BY <1>2, <4>1, <4>2
    <3>2. CASE k # Len(params) + 1
      <4>1. k \in 1..Len(params)
        BY <1>6, <2>4, <3>2
      <4> QED
        BY <1>2, <1>3, <2>4, <4>1
    <3> QED
      BY <3>1, <3>2
  <2>7. Exact(q, segs, req, n)
    BY <2>2, <2>4, <2>5, <2>6 DEF Exact, b
  <2> QED
    BY <2>7 DEF q, n
<1>8. CASE ~(Len(params) < MaxParams)
  <2>1. q = params
    BY <1>5, <1>8
  <2>2. Len(params) = LeastOf(b, MaxParams)
    BY <1>1, <1>3, <1>8 DEF LeastOf, MaxParams
  <2>3. Exact(q, segs, req, n)
    BY <1>2, <1>3, <2>1, <2>2 DEF Exact, b
  <2> QED
    BY <2>3 DEF q, n
<1> QED
  BY <1>7, <1>8

-----------------------------------------------------------------------------
(* After s turns the capture loop holds the parameters of all of them, or of  *)
(* those up to a catch-all, which it leaves out when nothing is left for it.  *)
Ended(segs, req, e) ==
  \/ e >= 1 /\ segs[e].kind = "catchall"
  \/ e >= Len(req) /\ segs[e + 1].kind = "catchall"

Capturing == [seg_i : Nat, params : Seq(Param), stop : BOOLEAN]

CaptureInv(c, segs, req, s) ==
  /\ c \in Capturing
  /\ \/ ~c.stop /\ c.seg_i = s /\ Plain(segs, s) /\ Exact(c.params, segs, req, s)
     \/ /\ c.stop \/ c.seg_i >= Len(req)
        /\ \E e \in Nat : e <= s /\ Ended(segs, req, e) /\ Exact(c.params, segs, req, e)

LEMMA CaptureStops ==
  ASSUME NEW c \in Capturing, NEW p \in Seq(Param), NEW d,
         d = [c EXCEPT !.stop = TRUE, !.params = p]
  PROVE  d \in Capturing /\ d.stop /\ d.params = p
BY DEF Capturing

LEMMA CaptureKeeps ==
  ASSUME NEW segs \in Seq(Seg), NEW req \in Seq(STRING), FitsReq(segs, req), NEW s \in Nat,
         s + 1 \in 1..Len(segs), NEW c, CaptureInv(c, segs, req, s)
  PROVE  CaptureInv(CaptureStep(req, c, segs[s + 1]), segs, req, s + 1)
<1> DEFINE n == s + 1
           seg == segs[n]
           d == CaptureStep(req, c, seg)
<1>1. c \in Capturing
  BY DEF CaptureInv
<1>2. segs[n] \in Seg
  BY ElementOfSeq
<1>3. seg.kind \in {"lit", "param", "catchall"} /\ seg.text \in STRING
  BY <1>2 DEF Seg
<1>4. /\ Plain(segs, n) <=> Plain(segs, s) /\ seg.kind # "catchall"
      /\ n \in Nat /\ s <= n /\ n >= 1 /\ Len(req) \in Nat
  <2>1. Plain(segs, n) <=> Plain(segs, s) /\ seg.kind # "catchall"
    BY PlainTurn
  <2>2. n \in Nat /\ s <= n /\ n >= 1
    OBVIOUS
  <2>3. Len(req) \in Nat
    OBVIOUS
  <2> QED
    BY <2>1, <2>2, <2>3
<1>5. c.stop \/ c.seg_i >= Len(req) => d = c
  BY DEF CaptureStep
<1>6. ~(c.stop \/ c.seg_i >= Len(req)) =>
        d = IF seg.kind = "catchall"
              THEN [c EXCEPT !.stop = TRUE,
                             !.params = AddParam(@, seg.text, SubSeq(req, c.seg_i + 1, Len(req)))]
              ELSE [c EXCEPT !.seg_i = @ + 1,
                             !.params = IF seg.kind = "param"
                                          THEN AddParam(@, seg.text, <<req[c.seg_i + 1]>>) ELSE @]
  BY DEF CaptureStep
<1>7. Plain(segs, n) => n <= Len(req)
  BY DEF FitsReq, Agrees
<1> HIDE DEF seg, d
<1>8. CASE c.stop \/ c.seg_i >= Len(req)
  <2>1. \E e \in Nat : e <= s /\ Ended(segs, req, e) /\ Exact(c.params, segs, req, e)
    <3>1. CASE ~c.stop /\ c.seg_i = s /\ Plain(segs, s) /\ Exact(c.params, segs, req, s)
      <4>1. s >= Len(req)
        BY <1>8, <3>1
      <4>2. ~Plain(segs, n)
        BY <1>4, <1>7, <4>1
      <4>3. Ended(segs, req, s)
        BY <1>4, <3>1, <4>1, <4>2 DEF Ended, seg
      <4> QED
        BY <3>1, <4>3
    <3> QED
      BY <3>1 DEF CaptureInv
  <2>2. PICK e \in Nat : e <= s /\ Ended(segs, req, e) /\ Exact(c.params, segs, req, e)
    BY <2>1
  <2>3. e <= n
    BY <1>4, <2>2
  <2>4. CaptureInv(c, segs, req, n)
    BY <1>1, <1>8, <2>2, <2>3 DEF CaptureInv
  <2> QED
    BY <1>5, <1>8, <2>4 DEF d, seg
<1>9. CASE ~(c.stop \/ c.seg_i >= Len(req))
  <2>1. ~c.stop /\ c.seg_i = s /\ Plain(segs, s) /\ Exact(c.params, segs, req, s)
    BY <1>9 DEF CaptureInv
  <2>2. n <= Len(req)
    BY <1>4, <1>9, <2>1
  <2>3. req[n] \in STRING /\ <<req[n]>> \in Seq(STRING)
    BY <1>4, <2>2
  <2>4. SubSeq(req, n, Len(req)) \in Seq(STRING)
    <3>1. \A i \in n..Len(req) : req[i] \in STRING
      BY <1>4
    <3> QED
      BY <1>4, <3>1, SubSeqProperties
  <2>5. ParamOf(segs, n, req) \in Param
    BY <1>3, <2>3, <2>4 DEF ParamOf, Param, StandsFor, seg
  <2>6. CASE seg.kind = "catchall"
    <3> DEFINE p == AddParam(c.params, seg.text, SubSeq(req, n, Len(req)))
    <3>1. d = [c EXCEPT !.stop = TRUE, !.params = p]
      BY <1>6, <1>9, <2>1, <2>6
    <3>2. SubSeq(req, n, Len(req)) = StandsFor(segs, n, req) /\ segs[n].kind # "lit"
      BY <2>6 DEF StandsFor, seg
    <3>3. Exact(p, segs, req, n)
      BY <2>1, <2>5, <3>2, ExactNamed DEF seg
    <3> HIDE DEF p
    <3>4. p \in Seq(Param)
      BY <3>3 DEF Exact
    <3>5. d \in Capturing /\ d.stop /\ d.params = p
      BY <1>1, <3>1, <3>4, CaptureStops
    <3>6. Ended(segs, req, n)
      BY <1>4, <2>6 DEF Ended, seg
    <3>7. n <= n
      BY <1>4
    <3>8. CaptureInv(d, segs, req, n)
      BY <1>4, <3>3, <3>5, <3>6, <3>7 DEF CaptureInv
    <3> QED
      BY <3>8 DEF d, seg
  <2>7. CASE seg.kind # "catchall"
    <3> DEFINE p == IF seg.kind = "param" THEN AddParam(c.params, seg.text, <<req[n]>>) ELSE c.params
    <3>1. d = [c EXCEPT !.seg_i = n, !.params = p]
      BY <1>6, <1>9, <2>1, <2>7
    <3>2. Exact(p, segs, req, n)
      <4>1. CASE seg.kind = "param"
        <5>1. <<req[n]>> = StandsFor(segs, n, req) /\ segs[n].kind # "lit"
          BY <4>1 DEF StandsFor, seg
        <5>2. Exact(AddParam(c.params, segs[n].text, <<req[n]>>), segs, req, n)
          BY <2>1, <2>5, <5>1, ExactNamed
        <5> QED
          BY <4>1, <5>2 DEF seg
      <4>2. CASE seg.kind = "lit"
        <5>1. Exact(c.params, segs, req, n)
          BY <2>1, <4>2, ExactLit DEF seg
        <5> QED
          BY <4>2, <5>1
      <4> QED
        BY <1>3, <2>7, <4>1, <4>2
    <3> HIDE DEF p
    <3>3. p \in Seq(Param)
      BY <3>2 DEF Exact
    <3> HIDE DEF n
    <3>4. d \in Capturing /\ d.seg_i = n /\ d.params = p /\ ~d.stop
      <4>1. n \in Nat /\ ~c.stop
        BY <1>4, <2>1
      <4>2. d \in Capturing
        BY <1>1, <3>1, <3>3, <4>1 DEF Capturing
      <4>3. d.seg_i = n /\ d.params = p
        BY <1>1, <3>1 DEF Capturing
      <4>4. d.stop = c.stop
        BY <1>1, <3>1 DEF Capturing
      <4> QED
        BY <4>1, <4>2, <4>3, <4>4
    <3>5. Plain(segs, n) /\ d.seg_i = n /\ ~d.stop
      BY <1>4, <2>1, <2>7, <3>4
    <3>6. CaptureInv(d, segs, req, n)
      BY <3>2, <3>4, <3>5 DEF CaptureInv
    <3> QED
      BY <3>6 DEF d, seg, n
  <2> QED
    BY <2>6, <2>7
<1> QED
  BY <1>8, <1>9

LEMMA CapturedIs ==
  ASSUME NEW segs \in Seq(Seg), NEW req \in Seq(STRING), FitsReq(segs, req)
  PROVE  \E e \in Nat : /\ e <= Len(segs) /\ (e = Len(segs) \/ Ended(segs, req, e))
                        /\ Exact(Captured(segs, req), segs, req, e)
<1> DEFINE n == Len(segs)
           C == CaptureLoop(segs, req, <<>>)
           S == {s \in 0..n : CaptureInv(C[s], segs, req, s)}
<1>1. n \in Nat
  OBVIOUS
<1>2. /\ C[0] = [seg_i |-> 0, params |-> <<>>, stop |-> FALSE]
      /\ \A k \in 1..n : C[k] = CaptureStep(req, C[k - 1], segs[k])
  BY <1>1, CaptureTurn
<1> HIDE DEF C
<1>3. 0 \in S
  <2>1. C[0] \in Capturing /\ ~C[0].stop /\ C[0].seg_i = 0 /\ C[0].params = <<>>
    BY <1>2 DEF Capturing
  <2>2. Plain(segs, 0)
    BY DEF Plain
  <2>3. Named(segs, 0) = {}
    BY DEF Named
  <2>4. Cardinality(Named(segs, 0)) = 0
    BY <2>3, FS_EmptySet
  <2>5. <<>> \in Seq(Param) /\ Len(<<>>) = 0 /\ 1..0 = {}
    OBVIOUS
  <2>6. LeastOf(0, MaxParams) = 0
    BY DEF LeastOf, MaxParams
  <2>7. Exact(<<>>, segs, req, 0)
    BY <2>4, <2>5, <2>6 DEF Exact
  <2>8. CaptureInv(C[0], segs, req, 0)
    BY <2>1, <2>2, <2>7 DEF CaptureInv
  <2> QED
    BY <1>1, <2>8
<1>4. \A k \in 0..n : k \in S /\ k < n => k + 1 \in S
  <2> SUFFICES ASSUME NEW k \in 0..n, CaptureInv(C[k], segs, req, k), k < n
               PROVE  CaptureInv(C[k + 1], segs, req, k + 1) /\ k + 1 \in 0..n
    OBVIOUS
  <2>1. k \in Nat /\ k + 1 \in 1..n /\ k + 1 \in 0..n /\ k + 1 - 1 = k
    BY <1>1
  <2>2. C[k + 1] = CaptureStep(req, C[k], segs[k + 1])
    BY <1>2, <2>1
  <2>3. CaptureInv(CaptureStep(req, C[k], segs[k + 1]), segs, req, k + 1)
    BY <2>1, CaptureKeeps
  <2> QED
    BY <2>1, <2>2, <2>3
<1> HIDE DEF S, n
<1>5. \A k \in 0..n : k \in S
  BY <1>1, <1>3, <1>4, EveryTurn
<1>6. CaptureInv(C[n], segs, req, n)
  BY <1>1, <1>5 DEF S
<1>7. Captured(segs, req) = C[n].params
  BY DEF Captured, C, n
<1>8. n <= n
  BY <1>1
<1>9. \E e \in Nat : e <= n /\ (e = n \/ Ended(segs, req, e)) /\ Exact(C[n].params, segs, req, e)
  BY <1>1, <1>6, <1>8 DEF CaptureInv
<1> QED
  BY <1>7, <1>9 DEF n

(* A name that can be read stands for its place in the path. *)
LEMMA ReadIs ==
  ASSUME NEW segs \in Seq(Seg), NEW req \in Seq(STRING), NEW params, NEW e \in Nat,
         e <= Len(segs), e = Len(segs) \/ Ended(segs, req, e), Exact(params, segs, req, e),
         NEW s \in 1..Len(segs), Readable(segs, s)
  PROVE  cerco_param(params, segs[s].text) = StandsFor(segs, s, req)
<1> DEFINE pos(t) == Cardinality(Named(segs, t))
           n == Len(segs)
           name == segs[s].text
           hits == {k \in 1..Len(params) : cerco_strcaseeq(params[k].name, name)}
<1>1. n \in Nat /\ s \in Nat /\ s >= 1 /\ s <= n /\ Len(req) \in Nat
  OBVIOUS
<1>2. segs[s].kind # "lit" /\ InEffect(segs, s) /\ pos(s) <= MaxParams
  BY DEF Readable, Named
<1>3. \A t \in Named(segs, s - 1) : Lower(segs[t].text) # Lower(name)
  BY DEF Readable
<1>4. /\ params \in Seq(Param) /\ Len(params) = LeastOf(pos(e), MaxParams)
      /\ \A k \in 1..Len(params) :
           \E t \in Named(segs, e) : pos(t) = k /\ params[k] = ParamOf(segs, t, req)
  BY DEF Exact
<1>5. \A t \in Nat : pos(t) \in Nat
  BY NamedCount
<1>6. \A t \in Named(segs, e) : t \in Nat /\ t >= 1 /\ t <= e /\ segs[t].kind # "lit"
  BY DEF Named
<1>7. \A u, t \in Nat : u < t /\ segs[t].kind # "lit" => pos(u) < pos(t)
  BY NamedOrder
<1>8. \A u, t \in Nat : u <= t => pos(u) <= pos(t)
  BY NamedUpTo
<1>9. cerco_param(params, name) =
        IF hits = {} THEN <<>> ELSE params[CHOOSE k \in hits : \A j \in hits : k <= j].value
  BY DEF cerco_param
<1>10. ASSUME NEW t \in Named(segs, e), t < s
       PROVE  ParamOf(segs, t, req).name = segs[t].text /\ Lower(segs[t].text) # Lower(name)
  <2>1. t \in 1..(s - 1)
    BY <1>1, <1>6, <1>10
  <2>2. t \in Named(segs, s - 1)
    BY <1>6, <2>1 DEF Named
  <2> QED
    BY <1>3, <2>2 DEF ParamOf
<1> HIDE DEF pos, n, name
<1>11. CASE s <= e
  <2> DEFINE a == pos(s)
  <2>1. a \in Nat /\ a >= 1
    <3>1. 0 \in Nat /\ 0 < s
      BY <1>1
    <3>2. pos(0) < pos(s) /\ pos(0) \in Nat /\ pos(s) \in Nat
      BY <1>1, <1>2, <1>5, <1>7, <3>1
    <3> QED
      BY <3>2
  <2>2. a <= pos(e) /\ pos(e) \in Nat
    BY <1>1, <1>5, <1>8, <1>11
  <2>3. a \in 1..Len(params)
    BY <1>2, <1>4, <2>1, <2>2 DEF LeastOf, MaxParams
  <2>4. PICK u \in Named(segs, e) : pos(u) = a /\ params[a] = ParamOf(segs, u, req)
    BY <1>4, <2>3
  <2>5. u = s
    <3>1. u \in Nat /\ segs[u].kind # "lit"
      BY <1>6
    <3>2. ~(u < s) /\ ~(s < u)
      <4>1. ~(a < a)
        BY <2>1
      <4> QED
        BY <1>1, <1>2, <1>7, <2>4, <3>1, <4>1
    <3> QED
      BY <1>1, <3>1, <3>2
  <2>6. params[a].name = name /\ params[a].value = StandsFor(segs, s, req)
    BY <2>4, <2>5 DEF ParamOf, name
  <2>7. a \in hits
    BY <2>3, <2>6 DEF cerco_strcaseeq
  <2>8. ASSUME NEW j \in hits PROVE a <= j
    <3> SUFFICES ASSUME ~(a <= j) PROVE FALSE
      OBVIOUS
    <3>1. j \in 1..Len(params) /\ Lower(params[j].name) = Lower(name)
      BY DEF cerco_strcaseeq
    <3>2. PICK t \in Named(segs, e) : pos(t) = j /\ params[j] = ParamOf(segs, t, req)
      BY <1>4, <3>1
    <3>3. t < s
      <4>1. t \in Nat
        BY <1>6
      <4>2. s <= t => a <= j
        BY <1>1, <1>8, <3>2, <4>1
      <4> QED
        BY <1>1, <4>1, <4>2
    <3> QED
      BY <1>10, <3>1, <3>2, <3>3
  <2>9. \A j \in hits : j \in Nat
    BY <1>4
  <2> HIDE DEF hits, a
  <2>10. \A k \in hits : (\A j \in hits : k <= j) => k = a
    BY <2>1, <2>7, <2>8, <2>9
  <2>11. (CHOOSE k \in hits : \A j \in hits : k <= j) = a
    BY <2>7, <2>8, <2>10
  <2> QED
    BY <1>9, <2>6, <2>7, <2>11 DEF name
<1>12. CASE ~(s <= e)
  <2>1. e # n /\ e < s
    BY <1>1, <1>12
  <2>2. ~(e >= 1 /\ segs[e].kind = "catchall")
    <3>1. e >= 1 => e \in 1..(s - 1)
      BY <1>1, <2>1
    <3> QED
      BY <1>2, <3>1 DEF InEffect
  <2>3. e >= Len(req) /\ segs[e + 1].kind = "catchall"
    BY <2>1, <2>2 DEF Ended, n
  <2>4. s = e + 1
    <3>1. e + 1 \notin 1..(s - 1)
      BY <1>2, <2>3 DEF InEffect
    <3> QED
      BY <1>1, <2>1, <3>1
  <2>5. StandsFor(segs, s, req) = SubSeq(req, s, Len(req))
    BY <2>3, <2>4 DEF StandsFor
  <2>6. SubSeq(req, s, Len(req)) = <<>>
    <3>1. ~(s <= Len(req)) /\ s \in Int /\ Len(req) \in Int
      BY <1>1, <2>3, <2>4
    <3>2. \A i \in s..Len(req) : req[i] \in STRING
      BY <3>1
    <3>3. SubSeq(req, s, Len(req)) \in Seq(STRING) /\ Len(SubSeq(req, s, Len(req))) = 0
      BY <3>1, <3>2, SubSeqProperties
    <3> QED
      BY <3>3, EmptySeq
  <2>7. hits = {}
    <3> SUFFICES ASSUME NEW k \in hits PROVE FALSE
      OBVIOUS
    <3>1. k \in 1..Len(params) /\ Lower(params[k].name) = Lower(name)
      BY DEF cerco_strcaseeq
    <3>2. PICK t \in Named(segs, e) : pos(t) = k /\ params[k] = ParamOf(segs, t, req)
      BY <1>4, <3>1
    <3>3. t < s
      BY <1>1, <1>6, <2>1
    <3> QED
      BY <1>10, <3>1, <3>2, <3>3
  <2> HIDE DEF hits
  <2> QED
    BY <1>9, <2>5, <2>6, <2>7 DEF name
<1> QED
  BY <1>11, <1>12

(* The parameters a handler reads are those of the entry that runs it, and    *)
(* each stands for its place in the requested path (router.c 121-157; req.c   *)
(* 94-98), for every table, path and method.                                  *)
THEOREM ParamsRebuildPath == Spec => []RouterParamsRebuildPath
<1>1. ASSUME RouteOK, kind = "route" PROVE RouterParamsRebuildPath
  <2> DEFINE f == router_find(Parsed, input.method, input.path)
             segs == Parsed[f.fn].segs
             req == Split(input.path)
             n == Len(Parsed)
  <2> SUFFICES ASSUME f.result = "match"
               PROVE  /\ \A s \in 1..Len(segs) :
                           Readable(segs, s) =>
                             cerco_param(f.params, segs[s].text) = StandsFor(segs, s, req)
                      /\ \A k \in 1..Len(f.params) :
                           \E s \in Named(segs, Len(segs)) : f.params[k].name = segs[s].text
    BY DEF RouterParamsRebuildPath
  <2>1. Parsed \in Seq(Entry) /\ req \in Seq(STRING)
    BY <1>1, RouteGiven
  <2>2. f = Search(Parsed, input.method, req)[n]
    <3>1. NotFound.result # "match"
      BY DEF NotFound
    <3> QED
      BY <3>1 DEF router_find
  <2>3. FindInv(f, Parsed, input.method, req, n)
    BY <2>1, <2>2, FindIs
  <2> HIDE DEF f
  <2>4. f.fn \in 1..n /\ FitsReq(segs, req) /\ f.params = Captured(segs, req)
    BY <2>3 DEF FindInv, FitsTo
  <2>5. Parsed[f.fn] \in Entry
    BY <2>1, <2>4, ElementOfSeq
  <2>6. segs \in Seq(Seg)
    BY <2>5 DEF Entry
  <2> HIDE DEF segs, req, n
  <2>7. PICK e \in Nat : /\ e <= Len(segs) /\ (e = Len(segs) \/ Ended(segs, req, e))
                         /\ Exact(f.params, segs, req, e)
    BY <2>1, <2>4, <2>6, CapturedIs
  <2>8. \A s \in 1..Len(segs) :
          Readable(segs, s) => cerco_param(f.params, segs[s].text) = StandsFor(segs, s, req)
    BY <2>1, <2>6, <2>7, ReadIs
  <2>9. ASSUME NEW k \in 1..Len(f.params)
        PROVE  \E s \in Named(segs, Len(segs)) : f.params[k].name = segs[s].text
    <3>1. PICK t \in Named(segs, e) : f.params[k] = ParamOf(segs, t, req)
      BY <2>7 DEF Exact
    <3>2. Len(segs) \in Nat
      BY <2>6
    <3>3. t \in Named(segs, Len(segs))
      BY <2>7, <3>2 DEF Named
    <3>4. f.params[k].name = segs[t].text
      BY <3>1 DEF ParamOf
    <3> QED
      BY <3>3, <3>4
  <2> QED
    BY <2>8, <2>9
<1>2. RouteOK => RouterParamsRebuildPath
  BY <1>1 DEF RouterParamsRebuildPath
<1> QED
  BY <1>2, RouteStays, PTL
=============================================================================
