---------------------------- MODULE ClientProofs ----------------------------
(* Theorems about Client, for every application (pages, layout, components),   *)
(* every table size and every limit.  ClientInv is kept by each task; what a   *)
(* task does is the composition of a few routines (cerco_http, hydrate_roots,  *)
(* cerco_fetch_reserve, cerco_navigate), so a lemma describes each of those.   *)
EXTENDS ClientInductive, FiniteSetTheorems, SequenceTheorems, TLAPS

-----------------------------------------------------------------------------
(* Data: minima, the roots of a page, buffer numbers.                          *)

(* Min of a nonempty set of naturals is its least element.                     *)
LEMMA MinIsLeast ==
  ASSUME NEW S, S \subseteq Nat, S # {}
  PROVE  Min(S) \in S /\ \A y \in S : Min(S) <= y
<1> DEFINE R == {s \in Nat \X Nat : s[1] < s[2]}
<1>1. IsWellFoundedOn(R, Nat)
  BY NatLessThanWellFounded, Zenon DEF OpToRel
<1>2. PICK x \in S : \A y \in S : ~(<<y, x>> \in R)
  BY <1>1, WFMin
<1>3. \A y \in S : x <= y
  <2> SUFFICES ASSUME NEW y \in S, y < x PROVE FALSE
    OBVIOUS
  <2>1. <<y, x>> \in Nat \X Nat /\ <<y, x>>[1] < <<y, x>>[2]
    OBVIOUS
  <2>2. <<y, x>> \in R
    BY <2>1, Zenon
  <2> QED
    BY <1>2, <2>2
<1> QED
  BY <1>3 DEF Min

(* The response buffer of a fetch exists.                                      *)
LEMMA BufOfFetch ==
  ASSUME NEW id \in FetchIds
  PROVE  id % FetchSlots \in BufIds
<1>1. FetchSlots \in Nat \ {0} /\ MaxFetches \in Nat \ {0}
  BY ClientAssumption
<1> QED
  BY <1>1 DEF FetchIds, BufIds

(* The roots of a page: a sequence without repetition that fits the event      *)
(* table; the roots of its page region are none of the layout's.               *)
LEMMA RootsOfPage ==
  ASSUME NEW p \in Pages
  PROVE  /\ Roots(p) \in Seq(Els)
         /\ Len(Roots(p)) \in Nat \ {0} /\ Len(Roots(p)) <= MaxSlots
         /\ \A i, j \in 1 .. Len(Roots(p)) : Roots(p)[i] = Roots(p)[j] => i = j
         /\ PageEls(p) \subseteq Range(Roots(p))
         /\ PageEls(p) \cap LayoutEls = {}
         /\ PageEls(p) \subseteq Els
<1> DEFINE r == PageRoots[p]
<1>1. Header \in Seq(Els) /\ Footer \in Seq(Els) /\ r \in Seq(Els)
  BY ClientAssumption
<1>2. Header \o r \in Seq(Els)
  BY <1>1, ConcatProperties, Zenon
<1>3. Roots(p) \in Seq(Els)
  BY <1>1, <1>2, ConcatProperties, Zenon DEF Roots
<1>4. Range(Roots(p)) = Range(Header) \cup Range(r) \cup Range(Footer)
  <2>1. Range(Header \o r) = Range(Header) \cup Range(r)
    BY <1>1, RangeConcatenation, Zenon
  <2>2. Range((Header \o r) \o Footer) = Range(Header \o r) \cup Range(Footer)
    BY <1>1, <1>2, RangeConcatenation, Zenon
  <2> QED
    BY <2>1, <2>2 DEF Roots
<1>5. Range(Header \o Footer) = Range(Header) \cup Range(Footer)
  BY <1>1, RangeConcatenation, Zenon
<1>6. IsInjective(Roots(p)) /\ Roots(p) # <<>> /\ Len(Roots(p)) <= MaxSlots
  BY ClientAssumption
<1>7. DOMAIN Roots(p) = 1 .. Len(Roots(p)) /\ Len(Roots(p)) \in Nat
  BY <1>3
<1>8. \A i, j \in 1 .. Len(Roots(p)) : Roots(p)[i] = Roots(p)[j] => i = j
  BY <1>6, <1>7, Zenon DEF IsInjective
<1>9. Len(Roots(p)) # 0
  BY <1>3, <1>6, EmptySeq
<1>10. PageEls(p) \subseteq Range(Roots(p)) /\ PageEls(p) \subseteq Els
  BY <1>4 DEF PageEls, Els
<1>11. PageEls(p) \cap LayoutEls = {}
  <2> SUFFICES ASSUME NEW e \in PageEls(p), e \in LayoutEls PROVE FALSE
    OBVIOUS
  <2> DEFINE h == Header f == Footer
  <2>1. PICK k \in 1 .. Len(r) : r[k] = e
    BY <1>1 DEF PageEls, Range
  <2>2. Len(h) \in Nat /\ Len(r) \in Nat /\ Len(f) \in Nat
    BY <1>1
  <2>3. /\ Len(h \o r) = Len(h) + Len(r)
        /\ \A i \in 1 .. Len(h) + Len(r) :
             (h \o r)[i] = IF i <= Len(h) THEN h[i] ELSE r[i - Len(h)]
    BY <1>1, ConcatProperties, Zenon
  <2>4. /\ Len(Roots(p)) = Len(h) + Len(r) + Len(f)
        /\ \A i \in 1 .. Len(h) + Len(r) + Len(f) :
             Roots(p)[i] = IF i <= Len(h) + Len(r) THEN (h \o r)[i]
                           ELSE f[i - (Len(h) + Len(r))]
    <3>1. /\ Len((h \o r) \o f) = Len(h \o r) + Len(f)
          /\ \A i \in 1 .. Len(h \o r) + Len(f) :
               ((h \o r) \o f)[i] = IF i <= Len(h \o r) THEN (h \o r)[i]
                                    ELSE f[i - Len(h \o r)]
      BY <1>1, <1>2, ConcatProperties, Zenon
    <3>2. Roots(p) = (h \o r) \o f
      BY DEF Roots
    <3> HIDE DEF h, f, r
    <3> QED
      BY <2>3, <3>1, <3>2
  <2> HIDE DEF h, f, r
  <2>5. Roots(p)[Len(h) + k] = e /\ Len(h) + k \in 1 .. Len(Roots(p))
    BY <2>1, <2>2, <2>3, <2>4
  <2>6. CASE e \in Range(h)
    <3>1. PICK i \in 1 .. Len(h) : h[i] = e
      BY <1>1, <2>6 DEF Range, h
    <3>2. Roots(p)[i] = e /\ i \in 1 .. Len(Roots(p)) /\ i # Len(h) + k
      BY <2>1, <2>2, <2>3, <2>4, <3>1
    <3> QED
      BY <1>8, <2>2, <2>5, <3>2
  <2>7. CASE e \in Range(f)
    <3>1. PICK i \in 1 .. Len(f) : f[i] = e
      BY <1>1, <2>7 DEF Range, f
    <3> DEFINE m == Len(h) + Len(r) + i
    <3>2. /\ m \in 1 .. Len(h) + Len(r) + Len(f)
          /\ ~(m <= Len(h) + Len(r)) /\ m - (Len(h) + Len(r)) = i
          /\ m # Len(h) + k
      BY <2>1, <2>2, <3>1
    <3> HIDE DEF m
    <3>3. Roots(p)[m] = e /\ m \in 1 .. Len(Roots(p))
      BY <2>4, <3>1, <3>2
    <3> QED
      BY <1>8, <2>5, <3>2, <3>3
  <2> QED
    BY <1>5, <2>6, <2>7 DEF LayoutEls, h, f
<1> QED
  BY <1>3, <1>6, <1>7, <1>8, <1>9, <1>10, <1>11

(* A root is found at its place.                                               *)
LEMMA RootFound ==
  ASSUME NEW p \in Pages, NEW e \in Range(Roots(p))
  PROVE  /\ RootAt(p, e) \in 1 .. Len(Roots(p))
         /\ Roots(p)[RootAt(p, e)] = e
<1>1. \E i \in DOMAIN Roots(p) : Roots(p)[i] = e
  BY DEF Range
<1>2. RootAt(p, e) \in DOMAIN Roots(p) /\ Roots(p)[RootAt(p, e)] = e
  BY <1>1 DEF RootAt
<1>3. Roots(p) \in Seq(Els)
  BY RootsOfPage
<1>4. DOMAIN Roots(p) = 1 .. Len(Roots(p))
  BY <1>3
<1> QED
  BY <1>2, <1>4

-----------------------------------------------------------------------------
(* Heap: what each routine that allocates or rewinds makes of a sound heap.    *)

BufType == [at : Nat, cap : 0 .. FetchMax]

(* A rewind to the sticky part keeps all of it, and there are no states left.  *)
LEMMA HeapForget ==
  ASSUME NEW top \in Nat, NEW fl \in Nat, NEW bs, NEW body, NEW table,
         HeapOk(top, fl, bs, body, table)
  PROVE  HeapOk(fl, fl, bs, body, <<>>)
<1>1. DOMAIN <<>> = {}
  OBVIOUS
<1>2. StatesApart(fl, bs, body, <<>>)
  BY <1>1 DEF StatesApart
<1> QED
  BY <1>2 DEF HeapOk, Bounded

(* A response buffer that has to grow is taken from behind all there is.       *)
LEMMA HeapReserve ==
  ASSUME TypeOK, HeapOk(heap_ptr, floor, bufs, sf_body, slots),
         NEW id \in FetchIds, NEW size \in Sizes, cerco_fetch_reserve(id, size)
  PROVE  /\ TopAfter(id, size) \in Nat /\ floor' \in 0 .. TopAfter(id, size)
         /\ bufs' \in [BufIds -> BufType]
         /\ HeapOk(TopAfter(id, size), floor', bufs', sf_body, slots)
<1> DEFINE b == id % FetchSlots top == TopAfter(id, size)
<1>1. /\ b \in BufIds /\ size \in 0 .. FetchMax /\ FetchMax \in Nat
      /\ bufs \in [BufIds -> BufType] /\ heap_ptr \in Nat /\ floor \in 0 .. heap_ptr
      /\ slots \in Seq(Handler) /\ sf_body \in Nat \cup {None} /\ None \notin Nat
  BY BufOfFetch, ClientAssumption DEF TypeOK, BufType, Sizes
<1>2. bufs[b].cap \in Nat /\ bufs[b].at \in Nat
  BY <1>1 DEF BufType
<1>3. CASE ~Grows(id, size)
  <2>1. top = heap_ptr /\ floor' = floor /\ bufs' = bufs
    BY <1>1, <1>3 DEF TopAfter, FloorAfter, cerco_fetch_reserve
  <2> QED
    BY <1>1, <2>1
<1>4. CASE Grows(id, size)
  <2> DEFINE new == [at |-> heap_ptr, cap |-> size]
  <2>1. /\ top = heap_ptr + size /\ floor' = heap_ptr + size
        /\ bufs' = [bufs EXCEPT ![b] = new]
    BY <1>4 DEF TopAfter, FloorAfter, cerco_fetch_reserve
  <2>2. size > 0
    BY <1>1, <1>2, <1>4 DEF Grows
  <2>3. new \in BufType /\ new.at = heap_ptr /\ new.cap = size
    BY <1>1 DEF BufType
  <2> HIDE DEF new, b, top
  <2>4. bufs' \in [BufIds -> BufType]
    BY <1>1, <2>1, <2>3
  <2>5. \A c \in BufIds : bufs'[c] = IF c = b THEN new ELSE bufs[c]
    BY <1>1, <2>1
  <2>6. \A c \in BufIds : bufs[c].cap \in Nat /\ bufs[c].at \in Nat
    BY <1>1 DEF BufType
  <2>7. /\ ScratchTop <= floor /\ floor <= heap_ptr
        /\ BufsApart(floor, bufs) /\ BodyApart(floor, bufs, sf_body)
        /\ StatesApart(heap_ptr, bufs, sf_body, slots)
    BY DEF HeapOk, Bounded
  <2>8. Bounded(top, floor')
    BY <1>1, <2>1, <2>7 DEF Bounded, ScratchTop
  <2>9. BufsApart(floor', bufs')
    <3> SUFFICES ASSUME NEW c \in BufIds, bufs'[c].cap > 0
                 PROVE  /\ ScratchTop <= bufs'[c].at
                        /\ bufs'[c].at + bufs'[c].cap <= floor'
                        /\ \A d \in BufIds \ {c} : bufs'[d].cap > 0 =>
                             Apart(bufs'[c].at, bufs'[c].cap, bufs'[d].at, bufs'[d].cap)
      BY DEF BufsApart
    <3>1. CASE c = b
      <4>1. bufs'[c] = new
        BY <1>1, <2>5, <3>1
      <4>2. ScratchTop <= bufs'[c].at /\ bufs'[c].at + bufs'[c].cap <= floor'
        BY <1>1, <2>1, <2>3, <2>7, <4>1 DEF ScratchTop
      <4>3. ASSUME NEW d \in BufIds \ {c}, bufs'[d].cap > 0
            PROVE  Apart(bufs'[c].at, bufs'[c].cap, bufs'[d].at, bufs'[d].cap)
        <5>1. bufs'[d] = bufs[d] /\ bufs[d].cap > 0
          BY <2>5, <3>1, <4>3
        <5>2. bufs[d].at + bufs[d].cap <= floor
          BY <2>7, <5>1 DEF BufsApart
        <5> QED
          BY <1>1, <2>3, <2>6, <2>7, <4>1, <5>1, <5>2 DEF Apart
      <4> QED
        BY <4>2, <4>3
    <3>2. CASE c # b
      <4>1. bufs'[c] = bufs[c] /\ bufs[c].cap > 0
        BY <2>5, <3>2
      <4>2. ScratchTop <= bufs[c].at /\ bufs[c].at + bufs[c].cap <= floor
        BY <2>7, <4>1 DEF BufsApart
      <4>3. ASSUME NEW d \in BufIds \ {c}, bufs'[d].cap > 0
            PROVE  Apart(bufs'[c].at, bufs'[c].cap, bufs'[d].at, bufs'[d].cap)
        <5>1. CASE d = b
          BY <1>1, <2>3, <2>5, <2>6, <2>7, <4>1, <4>2, <5>1 DEF Apart
        <5>2. CASE d # b
          <6>1. bufs'[d] = bufs[d] /\ bufs[d].cap > 0
            BY <2>5, <4>3, <5>2
          <6> QED
            BY <2>7, <4>1, <6>1 DEF BufsApart
        <5> QED
          BY <5>1, <5>2
      <4>4. bufs'[c].at + bufs'[c].cap <= floor'
        BY <1>1, <2>1, <2>6, <2>7, <4>1, <4>2
      <4> QED
        BY <4>1, <4>2, <4>3, <4>4
    <3> QED
      BY <3>1, <3>2
  <2>10. BodyApart(floor', bufs', sf_body)
    <3> SUFFICES ASSUME sf_body # None
                 PROVE  /\ ScratchTop <= sf_body /\ sf_body < floor'
                        /\ \A c \in BufIds : bufs'[c].cap > 0 =>
                             Apart(sf_body, 1, bufs'[c].at, bufs'[c].cap)
      BY DEF BodyApart
    <3>1. sf_body \in Nat
      BY <1>1
    <3>2. ScratchTop <= sf_body /\ sf_body < floor
      BY <2>7 DEF BodyApart
    <3>3. sf_body < floor'
      BY <1>1, <2>1, <2>7, <3>1, <3>2
    <3>4. ASSUME NEW c \in BufIds, bufs'[c].cap > 0
          PROVE  Apart(sf_body, 1, bufs'[c].at, bufs'[c].cap)
      <4>1. CASE c = b
        BY <1>1, <2>3, <2>5, <2>7, <3>1, <3>2, <4>1 DEF Apart
      <4>2. CASE c # b
        <5>1. bufs'[c] = bufs[c] /\ bufs[c].cap > 0
          BY <2>5, <3>4, <4>2
        <5> QED
          BY <2>7, <5>1 DEF BodyApart
      <4> QED
        BY <4>1, <4>2
    <3> QED
      BY <3>2, <3>3, <3>4
  <2>11. StatesApart(top, bufs', sf_body, slots)
    <3> SUFFICES ASSUME NEW i \in DOMAIN slots
                 PROVE  /\ ScratchTop <= slots[i].state /\ slots[i].state < top
                        /\ slots[i].state # sf_body
                        /\ \A c \in BufIds : bufs'[c].cap > 0 =>
                             Apart(slots[i].state, 1, bufs'[c].at, bufs'[c].cap)
                        /\ \A j \in DOMAIN slots \ {i} : slots[i].state # slots[j].state
      BY DEF StatesApart
    <3>1. slots[i].state \in Nat
      <4>1. slots[i] \in Handler
        BY <1>1
      <4> QED
        BY <4>1 DEF Handler
    <3>2. /\ ScratchTop <= slots[i].state /\ slots[i].state < heap_ptr
          /\ slots[i].state # sf_body
          /\ \A j \in DOMAIN slots \ {i} : slots[i].state # slots[j].state
      BY <2>7 DEF StatesApart
    <3>3. ASSUME NEW c \in BufIds, bufs'[c].cap > 0
          PROVE  Apart(slots[i].state, 1, bufs'[c].at, bufs'[c].cap)
      <4>1. CASE c = b
        BY <1>1, <2>3, <2>5, <3>1, <3>2, <4>1 DEF Apart
      <4>2. CASE c # b
        <5>1. bufs'[c] = bufs[c] /\ bufs[c].cap > 0
          BY <2>5, <3>3, <4>2
        <5> QED
          BY <2>7, <5>1 DEF StatesApart
      <4> QED
        BY <4>1, <4>2
    <3> QED
      BY <1>1, <2>1, <3>1, <3>2, <3>3
  <2>12. top \in Nat /\ floor' \in 0 .. top
    BY <1>1, <2>1
  <2> QED
    BY <2>4, <2>8, <2>9, <2>10, <2>11, <2>12 DEF HeapOk, top
<1> QED
  BY <1>3, <1>4

(* The server-function body is taken from behind all there is, once.           *)
LEMMA HeapBody ==
  ASSUME TypeOK, HeapOk(heap_ptr, floor, bufs, sf_body, slots),
         sf_body = None, sf_body' = heap_ptr, cerco_alloc_sticky(1)
  PROVE  /\ heap_ptr' \in Nat /\ floor' \in 0 .. heap_ptr' /\ sf_body' \in Nat
         /\ HeapOk(heap_ptr', floor', bufs, sf_body', slots)
<1>1. /\ heap_ptr \in Nat /\ floor \in 0 .. heap_ptr /\ slots \in Seq(Handler)
      /\ \A b \in BufIds : bufs[b].cap \in Nat /\ bufs[b].at \in Nat
  BY DEF TypeOK
<1>2. heap_ptr' = heap_ptr + 1 /\ floor' = heap_ptr + 1
  BY DEF cerco_alloc_sticky
<1>3. /\ ScratchTop <= floor /\ floor <= heap_ptr
      /\ BufsApart(floor, bufs) /\ StatesApart(heap_ptr, bufs, sf_body, slots)
  BY DEF HeapOk, Bounded
<1>4. Bounded(heap_ptr', floor')
  BY <1>1, <1>2, <1>3 DEF Bounded, ScratchTop
<1>5. BufsApart(floor', bufs)
  <2>1. \A b \in BufIds : bufs[b].at + bufs[b].cap <= floor =>
                            bufs[b].at + bufs[b].cap <= floor'
    BY <1>1, <1>2, <1>3
  <2> QED
    BY <1>3, <2>1 DEF BufsApart
<1>6. BodyApart(floor', bufs, sf_body')
  <2>1. ScratchTop <= sf_body' /\ sf_body' < floor'
    BY <1>1, <1>2, <1>3 DEF ScratchTop
  <2>2. ASSUME NEW b \in BufIds, bufs[b].cap > 0
        PROVE  Apart(sf_body', 1, bufs[b].at, bufs[b].cap)
    <3>1. bufs[b].at + bufs[b].cap <= floor
      BY <1>3, <2>2 DEF BufsApart
    <3> QED
      BY <1>1, <1>3, <3>1 DEF Apart
  <2> QED
    BY <2>1, <2>2 DEF BodyApart
<1>7. StatesApart(heap_ptr', bufs, sf_body', slots)
  <2>1. \A i \in DOMAIN slots : slots[i].state \in Nat /\ slots[i].state < heap_ptr
    <3>1. \A i \in DOMAIN slots : slots[i] \in Handler
      BY <1>1
    <3> QED
      BY <1>3, <3>1 DEF StatesApart, Handler
  <2>2. \A i \in DOMAIN slots : slots[i].state < heap_ptr' /\ slots[i].state # sf_body'
    BY <1>1, <1>2, <2>1
  <2> QED
    BY <1>3, <2>2 DEF StatesApart
<1> QED
  BY <1>1, <1>2, <1>4, <1>5, <1>6, <1>7 DEF HeapOk

-----------------------------------------------------------------------------
(* Hydration: the handlers and the listeners that hydrate_roots adds.          *)

(* The heap pointer behind the mounts of page p from top on.                   *)
Above(p, top) == top + Len(Roots(p)) + IF cmd_buf = None THEN 1 ELSE 0

(* The handlers mounted for a page: as many of its roots, in order, as the     *)
(* table has room for, each with a state of its own between top and the new    *)
(* heap pointer.                                                               *)
MountSound(m, p, top, table) ==
  /\ m \in Seq(Handler) /\ Len(table) + Len(m) <= MaxSlots
  /\ \A i \in 1 .. Len(Roots(p)) : Len(table) + i <= MaxSlots => i \in 1 .. Len(m)
  /\ \A i \in 1 .. Len(m) :
       /\ i \in 1 .. Len(Roots(p))
       /\ m[i].el = Roots(p)[i] /\ m[i].live
       /\ top <= m[i].state /\ m[i].state < Above(p, top)
  /\ \A i, j \in 1 .. Len(m) : i # j => m[i].state # m[j].state

(* Mounted gives such handlers.                                                *)
LEMMA MountedHandlers ==
  ASSUME NEW p \in Pages, NEW top \in Nat, NEW table \in Seq(Handler),
         Len(table) <= MaxSlots
  PROVE  MountSound(Mounted(p, top, table), p, top, table)
<1> DEFINE r == Roots(p)
           n == Min({Len(r), MaxSlots - Len(table)})
           State(i) == top + i - 1 + IF cmd_buf = None /\ i > 1 THEN 1 ELSE 0
           m == Mounted(p, top, table)
<1>1. r \in Seq(Els) /\ Len(r) \in Nat /\ Len(table) \in Nat /\ MaxSlots \in Nat
  BY RootsOfPage, ClientAssumption
<1>2. /\ n \in {Len(r), MaxSlots - Len(table)}
      /\ n <= Len(r) /\ n <= MaxSlots - Len(table)
  <2>1. MaxSlots - Len(table) \in Nat
    BY <1>1
  <2> QED
    BY <1>1, <2>1, MinIsLeast
<1>3. n \in Nat /\ Len(table) + n <= MaxSlots
  BY <1>1, <1>2
<1>4. m = [i \in 1 .. n |-> [el |-> r[i], state |-> State(i), live |-> TRUE]]
  BY Zenon DEF Mounted
<1> HIDE DEF n, m, r
<1>5. \A i \in 1 .. n : r[i] \in Els /\ State(i) \in Nat
  BY <1>1, <1>2, <1>3
<1>6. \A i \in 1 .. n : [el |-> r[i], state |-> State(i), live |-> TRUE] \in Handler
  BY <1>5 DEF Handler
<1>7. m \in Seq(Handler) /\ Len(m) = n
  <2>1. m \in [1 .. n -> Handler]
    BY <1>4, <1>6, Zenon
  <2> QED
    BY <1>3, <2>1
<1>8. \A i \in 1 .. n : m[i].el = r[i] /\ m[i].state = State(i) /\ m[i].live
  BY <1>4
<1>9. \A i \in 1 .. Len(r) : Len(table) + i <= MaxSlots => i \in 1 .. n
  BY <1>1, <1>2, <1>3
<1>10. \A i \in 1 .. n : i \in 1 .. Len(r) /\ top <= State(i) /\ State(i) < Above(p, top)
  <2> USE DEF r
  <2> QED
    BY <1>1, <1>2, <1>3 DEF Above
<1>11. \A i, j \in 1 .. n : i # j => State(i) # State(j)
  BY <1>3
<1> HIDE DEF State
<1>12. /\ m \in Seq(Handler) /\ Len(table) + Len(m) <= MaxSlots
       /\ \A i \in 1 .. Len(r) : Len(table) + i <= MaxSlots => i \in 1 .. Len(m)
       /\ \A i \in 1 .. Len(m) :
            /\ i \in 1 .. Len(r)
            /\ m[i].el = r[i] /\ m[i].live
            /\ top <= m[i].state /\ m[i].state < Above(p, top)
       /\ \A i, j \in 1 .. Len(m) : i # j => m[i].state # m[j].state
  BY <1>3, <1>7, <1>8, <1>9, <1>10, <1>11
<1> QED
  BY <1>12, Zenon DEF r, m, MountSound

(* The states of the mounts lie above all that the heap held.                  *)
LEMMA HeapMount ==
  ASSUME NEW p \in Pages, NEW top \in Nat, NEW fl \in Nat,
         NEW bs \in [BufIds -> BufType], NEW body \in Nat \cup {None},
         NEW table \in Seq(Handler), Len(table) <= MaxSlots,
         HeapOk(top, fl, bs, body, table)
  PROVE  /\ Above(p, top) \in Nat
         /\ HeapOk(Above(p, top), fl, bs, body, table \o Mounted(p, top, table))
<1> DEFINE m == Mounted(p, top, table) all == table \o m hi == Above(p, top)
<1>1. /\ m \in Seq(Handler)
      /\ \A i \in 1 .. Len(m) : top <= m[i].state /\ m[i].state < hi
      /\ \A i, j \in 1 .. Len(m) : i # j => m[i].state # m[j].state
  <2>1. MountSound(m, p, top, table)
    BY MountedHandlers
  <2> HIDE DEF m
  <2> QED
    BY <2>1 DEF MountSound
<1>2. hi \in Nat /\ top <= hi
  <2>1. Len(Roots(p)) \in Nat
    BY RootsOfPage
  <2> QED
    BY <2>1 DEF Above
<1>3. /\ ScratchTop <= fl /\ fl <= top
      /\ BufsApart(fl, bs) /\ BodyApart(fl, bs, body) /\ StatesApart(top, bs, body, table)
  BY DEF HeapOk, Bounded
<1> HIDE DEF m, hi
<1>4. /\ all \in Seq(Handler) /\ Len(all) = Len(table) + Len(m)
      /\ \A i \in 1 .. Len(table) + Len(m) :
           all[i] = IF i <= Len(table) THEN table[i] ELSE m[i - Len(table)]
  BY <1>1, ConcatProperties, Zenon
<1>5. Len(table) \in Nat /\ Len(m) \in Nat /\ DOMAIN table = 1 .. Len(table)
  BY <1>1
<1> HIDE DEF all
<1>6. DOMAIN all = 1 .. Len(table) + Len(m)
  BY <1>4
<1>7. \A i \in 1 .. Len(table) : all[i] = table[i] /\ table[i].state < top
                                  /\ table[i].state \in Nat
  <2>1. \A i \in 1 .. Len(table) : table[i] \in Handler
    OBVIOUS
  <2>2. \A i \in 1 .. Len(table) : table[i].state \in Nat
    BY <2>1 DEF Handler
  <2>3. \A i \in 1 .. Len(table) : table[i].state < top
    BY <1>3, <1>5 DEF StatesApart
  <2> QED
    BY <1>4, <1>5, <2>2, <2>3
<1>8. \A i \in 1 .. Len(table) + Len(m) : ~(i <= Len(table)) =>
         /\ i - Len(table) \in 1 .. Len(m)
         /\ all[i] = m[i - Len(table)]
         /\ all[i].state \in Nat /\ top <= all[i].state /\ all[i].state < hi
  <2>1. \A i \in 1 .. Len(m) : m[i].state \in Nat
    <3>1. \A i \in 1 .. Len(m) : m[i] \in Handler
      BY <1>1
    <3> QED
      BY <3>1 DEF Handler
  <2> QED
    BY <1>1, <1>4, <1>5, <2>1
<1>9. StatesApart(hi, bs, body, all)
  <2> SUFFICES ASSUME NEW i \in 1 .. Len(table) + Len(m)
               PROVE  /\ ScratchTop <= all[i].state /\ all[i].state < hi
                      /\ all[i].state # body
                      /\ \A b \in BufIds : bs[b].cap > 0 =>
                           Apart(all[i].state, 1, bs[b].at, bs[b].cap)
                      /\ \A j \in (1 .. Len(table) + Len(m)) \ {i} :
                           all[i].state # all[j].state
    BY <1>6 DEF StatesApart
  <2>1. CASE i <= Len(table)
    <3>1. i \in 1 .. Len(table) /\ i \in DOMAIN table
      BY <1>5, <2>1
    <3>2. /\ ScratchTop <= all[i].state /\ all[i].state < top
          /\ all[i].state # body
          /\ \A b \in BufIds : bs[b].cap > 0 =>
               Apart(all[i].state, 1, bs[b].at, bs[b].cap)
          /\ \A j \in DOMAIN table \ {i} : all[i].state # table[j].state
      BY <1>3, <1>7, <3>1 DEF StatesApart
    <3>3. ASSUME NEW j \in (1 .. Len(table) + Len(m)) \ {i}
          PROVE  all[i].state # all[j].state
      <4>1. CASE j <= Len(table)
        BY <1>5, <1>7, <3>2, <4>1
      <4>2. CASE ~(j <= Len(table))
        BY <1>7, <1>8, <3>1, <3>2, <4>2
      <4> QED
        BY <4>1, <4>2
    <3> QED
      BY <1>2, <1>7, <3>1, <3>2, <3>3
  <2>2. CASE ~(i <= Len(table))
    <3>1. /\ i - Len(table) \in 1 .. Len(m) /\ all[i] = m[i - Len(table)]
          /\ all[i].state \in Nat /\ top <= all[i].state /\ all[i].state < hi
      BY <1>8, <2>2
    <3>2. ScratchTop <= all[i].state
      BY <1>3, <3>1 DEF ScratchTop
    <3>3. all[i].state # body
      <4>1. CASE body = None
        BY <3>1, <4>1, ClientAssumption
      <4>2. CASE body # None
        <5>1. body \in Nat /\ body < fl
          BY <1>3, <4>2 DEF BodyApart
        <5> QED
          BY <1>3, <3>1, <5>1
      <4> QED
        BY <4>1, <4>2
    <3>4. ASSUME NEW b \in BufIds, bs[b].cap > 0
          PROVE  Apart(all[i].state, 1, bs[b].at, bs[b].cap)
      <4>1. bs[b].at \in Nat /\ bs[b].cap \in Nat
        BY ClientAssumption DEF BufType
      <4>2. bs[b].at + bs[b].cap <= fl
        BY <1>3, <3>4 DEF BufsApart
      <4> QED
        BY <1>3, <3>1, <4>1, <4>2 DEF Apart
    <3>5. ASSUME NEW j \in (1 .. Len(table) + Len(m)) \ {i}
          PROVE  all[i].state # all[j].state
      <4>1. CASE j <= Len(table)
        BY <1>5, <1>7, <3>1, <4>1
      <4>2. CASE ~(j <= Len(table))
        <5>1. /\ j - Len(table) \in 1 .. Len(m) /\ all[j] = m[j - Len(table)]
              /\ j - Len(table) # i - Len(table)
          BY <1>5, <1>8, <4>2
        <5> QED
          BY <1>1, <3>1, <5>1
      <4> QED
        BY <4>1, <4>2
    <3> QED
      BY <3>1, <3>2, <3>3, <3>4, <3>5
  <2> QED
    BY <2>1, <2>2
<1>10. Bounded(hi, fl)
  BY <1>2, <1>3 DEF Bounded
<1>11. HeapOk(hi, fl, bs, body, all)
  BY <1>3, <1>9, <1>10 DEF HeapOk
<1> QED
  BY <1>2, <1>11 DEF hi, all, m

(* After hydrate_roots the listeners of the page region reach the handlers of  *)
(* their own elements; all have one if the table was empty.                    *)
LEMMA Hydrates ==
  ASSUME NEW p \in Pages, NEW top \in Nat, NEW table \in Seq(Handler),
         Len(table) <= MaxSlots,
         NEW heard \in [Els -> Seq(0 .. MaxSlots - 1)],
         \A e \in PageEls(p) : heard[e] = <<>>,
         shown' = p, hydrate_roots(p, top, table, heard)
  PROVE  /\ slots' \in Seq(Handler) /\ Len(slots') <= MaxSlots
         /\ listeners' \in [Els -> Seq(0 .. MaxSlots - 1)]
         /\ ListenersInv'
         /\ table = <<>> => Hydrated(p)'
<1> DEFINE m == Mounted(p, top, table) n == Len(table)
           At(e) == n + RootAt(p, e) - 1
<1>1. MountSound(m, p, top, table)
  BY MountedHandlers
<1>2. /\ slots' = table \o m
      /\ listeners' = [e \in Els |->
           IF e \in Range(Roots(p)) /\ n + RootAt(p, e) <= MaxSlots
           THEN Append(heard[e], At(e)) ELSE heard[e]]
  BY DEF hydrate_roots, Heard
<1> HIDE DEF m
<1>3. /\ m \in Seq(Handler) /\ n + Len(m) <= MaxSlots
      /\ \A i \in 1 .. Len(Roots(p)) : n + i <= MaxSlots => i \in 1 .. Len(m)
      /\ \A i \in 1 .. Len(m) : m[i].el = Roots(p)[i] /\ m[i].live
  BY <1>1 DEF MountSound
<1>4. n \in Nat /\ Len(m) \in Nat /\ MaxSlots \in Nat /\ Len(Roots(p)) \in Nat
  BY <1>3, RootsOfPage, ClientAssumption
<1>5. /\ slots' \in Seq(Handler) /\ Len(slots') = n + Len(m)
      /\ \A i \in 1 .. n + Len(m) :
           slots'[i] = IF i <= n THEN table[i] ELSE m[i - n]
  BY <1>2, <1>3, ConcatProperties, Zenon
<1> HIDE DEF n
<1>6. \A k \in 1 .. Len(m) : /\ n + k \in 1 .. n + Len(m) /\ ~(n + k <= n)
                             /\ (n + k) - n = k
  BY <1>4
<1>7. \A k \in 1 .. Len(m) : slots'[n + k] = m[k]
  BY <1>5, <1>6
<1>8. ASSUME NEW e \in Range(Roots(p)), n + RootAt(p, e) <= MaxSlots
      PROVE  /\ At(e) \in 0 .. MaxSlots - 1 /\ At(e) < Len(slots')
             /\ At(e) + 1 \in 1 .. Len(slots')
             /\ slots'[At(e) + 1].el = e /\ slots'[At(e) + 1].live
  <2> DEFINE k == RootAt(p, e)
  <2>1. k \in 1 .. Len(Roots(p)) /\ Roots(p)[k] = e
    BY RootFound
  <2> HIDE DEF k
  <2>2. n + k <= MaxSlots
    BY <1>8 DEF k
  <2>3. k \in 1 .. Len(m)
    BY <1>3, <2>1, <2>2
  <2>4. At(e) = n + k - 1
    BY DEF k
  <2>5. At(e) + 1 = n + k
    BY <1>4, <2>3, <2>4
  <2>6. slots'[At(e) + 1].el = e /\ slots'[At(e) + 1].live
    BY <1>3, <1>7, <2>1, <2>3, <2>5
  <2> QED
    BY <1>4, <1>5, <2>2, <2>3, <2>4, <2>5, <2>6
<1> HIDE DEF At
<1>9. listeners' \in [Els -> Seq(0 .. MaxSlots - 1)]
  <2>1. ASSUME NEW e \in Els
        PROVE  (IF e \in Range(Roots(p)) /\ n + RootAt(p, e) <= MaxSlots
                THEN Append(heard[e], At(e)) ELSE heard[e]) \in Seq(0 .. MaxSlots - 1)
    <3>1. heard[e] \in Seq(0 .. MaxSlots - 1)
      OBVIOUS
    <3>2. CASE e \in Range(Roots(p)) /\ n + RootAt(p, e) <= MaxSlots
      <4>1. At(e) \in 0 .. MaxSlots - 1
        BY <1>8, <3>2
      <4> QED
        BY <3>1, <3>2, <4>1, AppendProperties
    <3>3. CASE ~(e \in Range(Roots(p)) /\ n + RootAt(p, e) <= MaxSlots)
      BY <3>1, <3>3
    <3> QED
      BY <3>2, <3>3
  <2> QED
    BY <1>2, <2>1 DEF n
<1>10. ASSUME NEW e \in PageEls(p)
       PROVE  /\ e \in Range(Roots(p))
              /\ listeners'[e] = IF n + RootAt(p, e) <= MaxSlots
                                 THEN <<At(e)>> ELSE <<>>
  <2>1. e \in Range(Roots(p)) /\ e \in Els /\ heard[e] = <<>>
    BY <1>10, RootsOfPage
  <2>2. listeners'[e] = IF n + RootAt(p, e) <= MaxSlots
                        THEN Append(heard[e], At(e)) ELSE heard[e]
    BY <1>2, <2>1 DEF n
  <2>3. Append(<<>>, At(e)) = <<At(e)>>
    OBVIOUS
  <2> QED
    BY <2>1, <2>2, <2>3
<1>11. ListenersInv'
  <2> SUFFICES ASSUME NEW e \in PageEls(p), NEW i \in DOMAIN listeners'[e]
               PROVE  slots'[listeners'[e][i] + 1].el = e /\ slots'[listeners'[e][i] + 1].live
    BY DEF ListenersInv
  <2>1. CASE n + RootAt(p, e) <= MaxSlots
    <3>1. listeners'[e] = <<At(e)>> /\ e \in Range(Roots(p))
      BY <1>10, <2>1
    <3>2. listeners'[e][i] = At(e)
      <4>1. i \in {1}
        BY <3>1
      <4> QED
        BY <3>1, <4>1
    <3> QED
      BY <1>8, <2>1, <3>1, <3>2
  <2>2. CASE ~(n + RootAt(p, e) <= MaxSlots)
    <3>1. listeners'[e] = <<>>
      BY <1>10, <2>2
    <3>2. DOMAIN <<>> = {}
      OBVIOUS
    <3> QED
      BY <3>1, <3>2
  <2> QED
    BY <2>1, <2>2
<1>12. ASSUME table = <<>> PROVE Hydrated(p)'
  <2> SUFFICES ASSUME NEW e \in PageEls(p)
               PROVE  \E h \in Range(slots') : Reaches(e, h)' /\ h.el = e
    BY DEF Hydrated
  <2>1. n = 0
    BY <1>12, EmptySeq DEF n
  <2>2. e \in Range(Roots(p))
    BY <1>10
  <2>3. n + RootAt(p, e) <= MaxSlots
    BY <1>4, <2>1, <2>2, RootFound, RootsOfPage
  <2>4. listeners'[e] = <<At(e)>>
    BY <1>10, <2>3
  <2>5. 1 \in DOMAIN listeners'[e] /\ listeners'[e][1] = At(e)
    BY <2>4
  <2> PICK h : h = slots'[At(e) + 1]
    OBVIOUS
  <2>6. At(e) < Len(slots') /\ At(e) + 1 \in 1 .. Len(slots') /\ h.el = e
    BY <1>8, <2>2, <2>3
  <2>7. h \in Range(slots')
    BY <1>5, <2>6 DEF Range
  <2>8. \E i \in DOMAIN listeners'[e] : /\ listeners'[e][i] < Len(slots')
                                        /\ h = slots'[listeners'[e][i] + 1]
    BY <2>5, <2>6
  <2>9. Reaches(e, h)'
    BY <2>8 DEF Reaches
  <2> QED
    BY <2>6, <2>7, <2>9
<1> QED
  BY <1>3, <1>5, <1>9, <1>11, <1>12

-----------------------------------------------------------------------------
(* Calls: what taking and ending a fetch does to tables that agree.            *)

FetchTable == [FetchIds -> Request \cup {None}]
SfTable == [SfSlots -> Els \cup {None}]

(* A request under way is that of its own fetch.                               *)
LEMMA WireEntry ==
  ASSUME NEW table \in FetchTable, NEW net, Matched(table, net), NEW w \in net
  PROVE  /\ w.id \in FetchIds /\ w.req \in Request
         /\ table[w.id] = w.req /\ table[w.id] # None
         /\ w = [id |-> w.id, req |-> table[w.id]]
<1>1. PICK i \in FetchIds : table[i] # None /\ w = [id |-> i, req |-> table[i]]
  BY DEF Matched
<1> QED
  BY <1>1 DEF FetchTable

(* cerco_http rejects the request, or takes a free id for it.                  *)
LEMMA HttpOutcome ==
  ASSUME NEW table, NEW net, NEW r, cerco_http(r, table, net)
  PROVE  \/ Free(table) = {} /\ fetches' = table /\ wire' = net
         \/ /\ Free(table) # {}
            /\ \E id \in Free(table) : /\ fetches' = [table EXCEPT ![id] = r]
                                       /\ wire' = net \cup {[id |-> id, req |-> r]}
<1>1. CASE Free(table) = {}
  BY <1>1 DEF cerco_http
<1>2. CASE Free(table) # {}
  <2> DEFINE id == fetch_reserve(table)
  <2>1. Free(table) \subseteq Nat
    BY ClientAssumption DEF Free, FetchIds
  <2>2. id \in Free(table)
    BY <1>2, <2>1, MinIsLeast DEF fetch_reserve
  <2>3. fetches' = [table EXCEPT ![id] = r] /\ wire' = net \cup {[id |-> id, req |-> r]}
    BY <1>2 DEF cerco_http
  <2> HIDE DEF id
  <2> QED
    BY <1>2, <2>2, <2>3
<1> QED
  BY <1>1, <1>2

(* The tables agree after a fetch was taken ...                                *)
LEMMA CallTaken ==
  ASSUME NEW table \in FetchTable, NEW net, Matched(table, net),
         NEW id \in Free(table), NEW r \in Request
  PROVE  /\ [table EXCEPT ![id] = r] \in FetchTable
         /\ Matched([table EXCEPT ![id] = r], net \cup {[id |-> id, req |-> r]})
<1> DEFINE t == [table EXCEPT ![id] = r] n == net \cup {[id |-> id, req |-> r]}
<1>1. id \in FetchIds /\ table[id] = None /\ r # None
  BY ClientAssumption DEF Free
<1>2. \A i \in FetchIds : t[i] = IF i = id THEN r ELSE table[i]
  BY DEF FetchTable
<1>3. t \in FetchTable
  BY DEF FetchTable
<1> HIDE DEF t
<1>4. \A w \in n : \E i \in FetchIds : t[i] # None /\ w = [id |-> i, req |-> t[i]]
  <2>1. ASSUME NEW w \in net
        PROVE  \E i \in FetchIds : t[i] # None /\ w = [id |-> i, req |-> t[i]]
    <3>1. PICK i \in FetchIds : table[i] # None /\ w = [id |-> i, req |-> table[i]]
      BY <2>1 DEF Matched
    <3>2. t[i] = table[i]
      BY <1>1, <1>2, <3>1
    <3> QED
      BY <3>1, <3>2
  <2>2. t[id] # None /\ [id |-> id, req |-> r] = [id |-> id, req |-> t[id]]
    BY <1>1, <1>2
  <2> QED
    BY <1>1, <2>1, <2>2
<1>5. \A i \in FetchIds : t[i] # None => [id |-> i, req |-> t[i]] \in n
  <2> SUFFICES ASSUME NEW i \in FetchIds, t[i] # None
               PROVE  [id |-> i, req |-> t[i]] \in n
    OBVIOUS
  <2>1. CASE i = id
    BY <1>2, <2>1
  <2>2. CASE i # id
    <3>1. t[i] = table[i]
      BY <1>2, <2>2
    <3>2. [id |-> i, req |-> table[i]] \in net
      BY <3>1 DEF Matched
    <3> QED
      BY <3>1, <3>2
  <2> QED
    BY <2>1, <2>2
<1> HIDE DEF n
<1>6. Matched(t, n)
  BY <1>4, <1>5 DEF Matched
<1> QED
  BY <1>3, <1>6 DEF t, n

(* ... and after one ended.                                                    *)
LEMMA CallDone ==
  ASSUME NEW table \in FetchTable, NEW net, Matched(table, net), NEW w \in net
  PROVE  /\ [table EXCEPT ![w.id] = None] \in FetchTable
         /\ Matched([table EXCEPT ![w.id] = None], net \ {w})
<1> DEFINE t == [table EXCEPT ![w.id] = None] n == net \ {w}
<1>1. w.id \in FetchIds /\ w = [id |-> w.id, req |-> table[w.id]]
  BY WireEntry
<1>2. t \in FetchTable
  BY <1>1 DEF FetchTable
<1>3. \A i \in FetchIds : t[i] = IF i = w.id THEN None ELSE table[i]
  BY DEF FetchTable
<1> HIDE DEF t
<1>4. \A v \in n : \E i \in FetchIds : t[i] # None /\ v = [id |-> i, req |-> t[i]]
  <2> SUFFICES ASSUME NEW v \in n
               PROVE  \E i \in FetchIds : t[i] # None /\ v = [id |-> i, req |-> t[i]]
    OBVIOUS
  <2>1. PICK i \in FetchIds : table[i] # None /\ v = [id |-> i, req |-> table[i]]
    BY DEF Matched
  <2>2. i # w.id
    BY <1>1, <2>1
  <2> QED
    BY <1>3, <2>1, <2>2
<1>5. \A i \in FetchIds : t[i] # None => [id |-> i, req |-> t[i]] \in n
  <2> SUFFICES ASSUME NEW i \in FetchIds, t[i] # None
               PROVE  [id |-> i, req |-> t[i]] \in n
    OBVIOUS
  <2>1. i # w.id /\ t[i] = table[i]
    BY <1>3
  <2>2. [id |-> i, req |-> table[i]] \in net
    BY <2>1 DEF Matched
  <2>3. [id |-> i, req |-> table[i]] # w
    <3>1. [id |-> i, req |-> table[i]].id = i
      OBVIOUS
    <3> QED
      BY <2>1, <3>1
  <2> QED
    BY <2>1, <2>2, <2>3
<1> HIDE DEF n
<1>6. Matched(t, n)
  BY <1>4, <1>5 DEF Matched
<1> QED
  BY <1>2, <1>6 DEF t, n

(* A fetch that is no server-function call leaves those calls alone.           *)
LEMMA SfOther ==
  ASSUME NEW table \in FetchTable, NEW pend, SfMatched(table, pend),
         NEW id \in FetchIds, NEW r, r = None \/ r.cb # "sf"
  PROVE  SfMatched([table EXCEPT ![id] = r], pend)
<1> DEFINE t == [table EXCEPT ![id] = r]
<1>1. \A i \in FetchIds : t[i] = IF i = id THEN r ELSE table[i]
  BY DEF FetchTable
<1> HIDE DEF t
<1>2. SfMatched(t, pend)
  BY <1>1 DEF SfMatched
<1> QED
  BY <1>2 DEF t

(* A server-function call takes a pending call that no other fetch has.        *)
LEMMA SfTaken ==
  ASSUME NEW table \in FetchTable, NEW pend \in SfTable, SfMatched(table, pend),
         NEW id \in Free(table), NEW s \in SfSlots, pend[s] = None, NEW e \in Els
  PROVE  SfMatched([table EXCEPT ![id] = [cb |-> "sf", user |-> s, el |-> e]],
                   [pend EXCEPT ![s] = e])
<1> DEFINE r == [cb |-> "sf", user |-> s, el |-> e]
           t == [table EXCEPT ![id] = r] q == [pend EXCEPT ![s] = e]
<1>1. id \in FetchIds /\ table[id] = None
  BY DEF Free
<1>2. \A i \in FetchIds : t[i] = IF i = id THEN r ELSE table[i]
  BY DEF FetchTable
<1>3. \A u \in SfSlots : q[u] = IF u = s THEN e ELSE pend[u]
  BY DEF SfTable
<1>4. r.user = s /\ r.el = e /\ r.cb = "sf"
  OBVIOUS
<1>5. \A i \in FetchIds : table[i] # None /\ table[i].cb = "sf" =>
        table[i].user \in SfSlots /\ table[i].user # s
  <2> SUFFICES ASSUME NEW i \in FetchIds, table[i] # None, table[i].cb = "sf"
               PROVE  table[i].user \in SfSlots /\ table[i].user # s
    OBVIOUS
  <2>1. table[i] \in Request
    BY DEF FetchTable
  <2>2. table[i].user \in SfSlots /\ table[i].el \in Els
    BY <2>1 DEF Request
  <2>3. pend[table[i].user] = table[i].el
    BY DEF SfMatched
  <2> QED
    BY <2>2, <2>3, ClientAssumption
<1> HIDE DEF r, t, q
<1>6. \A i \in FetchIds : t[i] # None /\ t[i].cb = "sf" => q[t[i].user] = t[i].el
  <2> SUFFICES ASSUME NEW i \in FetchIds, t[i] # None, t[i].cb = "sf"
               PROVE  q[t[i].user] = t[i].el
    OBVIOUS
  <2>1. CASE i = id
    BY <1>2, <1>3, <1>4, <2>1
  <2>2. CASE i # id
    <3>1. t[i] = table[i] /\ table[i].user \in SfSlots /\ table[i].user # s
      BY <1>2, <1>5, <2>2
    <3>2. pend[table[i].user] = table[i].el
      BY <3>1 DEF SfMatched
    <3> QED
      BY <1>3, <3>1, <3>2
  <2> QED
    BY <2>1, <2>2
<1>7. \A i, j \in FetchIds :
        i # j /\ t[i] # None /\ t[i].cb = "sf" /\ t[j] # None /\ t[j].cb = "sf"
          => t[j].user # t[i].user
  <2> SUFFICES ASSUME NEW i \in FetchIds, NEW j \in FetchIds, i # j,
                      t[i] # None, t[i].cb = "sf", t[j] # None, t[j].cb = "sf"
               PROVE  t[j].user # t[i].user
    OBVIOUS
  <2>1. CASE i = id
    BY <1>2, <1>4, <1>5, <2>1
  <2>2. CASE j = id
    BY <1>2, <1>4, <1>5, <2>2
  <2>3. CASE i # id /\ j # id
    <3>1. t[i] = table[i] /\ t[j] = table[j]
      BY <1>2, <2>3
    <3> QED
      BY <3>1 DEF SfMatched
  <2> QED
    BY <2>1, <2>2, <2>3
<1>8. SfMatched(t, q)
  BY <1>6, <1>7 DEF SfMatched
<1> QED
  BY <1>8 DEF t, q, r

(* The answer of a server function gives its own pending call back.            *)
LEMMA SfDone ==
  ASSUME NEW table \in FetchTable, NEW pend \in SfTable, SfMatched(table, pend),
         NEW id \in FetchIds, table[id] # None, table[id].cb = "sf"
  PROVE  /\ [pend EXCEPT ![table[id].user] = None] \in SfTable
         /\ SfMatched([table EXCEPT ![id] = None],
                      [pend EXCEPT ![table[id].user] = None])
<1> DEFINE t == [table EXCEPT ![id] = None] q == [pend EXCEPT ![table[id].user] = None]
<1>1. \A i \in FetchIds : t[i] = IF i = id THEN None ELSE table[i]
  BY DEF FetchTable
<1>2. \A u \in SfSlots : q[u] = IF u = table[id].user THEN None ELSE pend[u]
  BY DEF SfTable
<1>3. q \in SfTable
  BY DEF SfTable
<1>4. \A i \in FetchIds : t[i] # None /\ t[i].cb = "sf" => t[i].user \in SfSlots
  <2> SUFFICES ASSUME NEW i \in FetchIds, t[i] # None, t[i].cb = "sf"
               PROVE  t[i].user \in SfSlots
    OBVIOUS
  <2>1. t[i] \in Request
    BY <1>1 DEF FetchTable
  <2> QED
    BY <2>1 DEF Request
<1> HIDE DEF t, q
<1>5. \A i \in FetchIds : t[i] # None /\ t[i].cb = "sf" => q[t[i].user] = t[i].el
  <2> SUFFICES ASSUME NEW i \in FetchIds, t[i] # None, t[i].cb = "sf"
               PROVE  q[t[i].user] = t[i].el
    OBVIOUS
  <2>1. i # id /\ t[i] = table[i]
    BY <1>1
  <2>2. table[i].user # table[id].user /\ pend[table[i].user] = table[i].el
    BY <2>1 DEF SfMatched
  <2> QED
    BY <1>2, <1>4, <2>1, <2>2
<1>6. SfMatched(t, q)
  BY <1>1, <1>5 DEF SfMatched
<1> QED
  BY <1>3, <1>6 DEF t, q

-----------------------------------------------------------------------------
(* Tasks.  First the three kinds of change that several tasks make.            *)

(* cerco_navigate from a heap rewound to its sticky part.                      *)
LEMMA Navigated ==
  ASSUME ClientInv, booted, NEW p \in Pages, NEW low,
         NEW table \in FetchTable, NEW net, Matched(table, net),
         sf_pending' \in SfTable, SfMatched(table, sf_pending'),
         low = floor', floor' \in Nat, bufs' \in [BufIds -> BufType],
         HeapOk(low, low, bufs', sf_body, <<>>),
         url' \in Pages, cerco_navigate(p, low, table, net)
  PROVE  ClientInv'
<1> DEFINE r == [cb |-> "nav", user |-> p, el |-> None]
<1>1. r \in Request /\ r.cb = "nav" /\ r.user = p
  BY DEF Request
<1>2. /\ path' = p /\ slots' = <<>> /\ heap_ptr' = low
      /\ cerco_http(r, table, net)
      /\ settled' = (Free(table) # {} /\ \A w \in net : ~IsNav(w))
      /\ shown' = shown /\ booted' = booted /\ listeners' = listeners
      /\ cmd_buf' = cmd_buf /\ sf_body' = sf_body
  BY DEF cerco_navigate, cerco_events_reset
<1> HIDE DEF r
<1>3. /\ shown \in Pages /\ listeners \in [Els -> Seq(0 .. MaxSlots - 1)]
      /\ cmd_buf \in Nat \cup {None} /\ sf_body \in Nat \cup {None}
      /\ booted \in BOOLEAN /\ MaxSlots \in Nat
  BY ClientAssumption DEF ClientInv, TypeOK
<1>4. slots' \in Seq(Handler) /\ Len(slots') = 0 /\ Range(slots') = {}
  <2>1. DOMAIN <<>> = {} /\ <<>> \in Seq(Handler) /\ Len(<<>>) = 0
    OBVIOUS
  <2> QED
    BY <1>2, <2>1 DEF Range
<1>5. \/ Free(table) = {} /\ fetches' = table /\ wire' = net
      \/ /\ Free(table) # {}
         /\ \E id \in Free(table) : /\ fetches' = [table EXCEPT ![id] = r]
                                    /\ wire' = net \cup {[id |-> id, req |-> r]}
  BY <1>2, HttpOutcome
<1>6. fetches' \in FetchTable /\ CallsInv'
  <2>1. CASE Free(table) = {} /\ fetches' = table /\ wire' = net
    BY <2>1 DEF CallsInv
  <2>2. ASSUME NEW id \in Free(table), fetches' = [table EXCEPT ![id] = r],
               wire' = net \cup {[id |-> id, req |-> r]}
        PROVE  fetches' \in FetchTable /\ CallsInv'
    <3>1. fetches' \in FetchTable /\ Matched(fetches', wire')
      BY <1>1, <2>2, CallTaken
    <3>2. id \in FetchIds /\ r.cb # "sf"
      BY <1>1 DEF Free
    <3>3. SfMatched(fetches', sf_pending')
      BY <2>2, <3>2, SfOther
    <3> QED
      BY <3>1, <3>3 DEF CallsInv
  <2> QED
    BY <1>5, <2>1, <2>2
<1>7. TypeOK'
  <2>1. settled' \in BOOLEAN
    BY <1>2
  <2>2. \A w \in wire' : w.id \in FetchIds /\ w.req \in Request
    BY <1>6, WireEntry DEF CallsInv
  <2>3. heap_ptr' \in Nat /\ floor' \in 0 .. heap_ptr'
    BY <1>2
  <2>4. Len(slots') <= MaxSlots
    BY <1>3, <1>4
  <2> QED
    BY <1>2, <1>3, <1>4, <1>6, <2>1, <2>2, <2>3, <2>4
       DEF TypeOK, FetchTable, SfTable, BufType
<1>8. HeapInv'
  BY <1>2 DEF HeapInv
<1>9. ListenersInv'
  <2> SUFFICES ASSUME NEW e \in PageEls(shown), NEW i \in DOMAIN listeners[e]
               PROVE  ~(listeners[e][i] < 0)
    BY <1>2, <1>4 DEF ListenersInv
  <2>1. listeners[e] \in Seq(0 .. MaxSlots - 1)
    BY <1>3, RootsOfPage
  <2> QED
    BY <2>1, <1>3
<1>10. SettledInv'
  <2> SUFFICES ASSUME settled' PROVE UnderWay'
    BY DEF SettledInv
  <2>1. Free(table) # {} /\ \A w \in net : ~IsNav(w)
    BY <1>2
  <2>2. PICK id \in Free(table) : wire' = net \cup {[id |-> id, req |-> r]}
    BY <1>5, <2>1
  <2> DEFINE w == [id |-> id, req |-> r]
  <2>3. w \in wire' /\ IsNav(w) /\ w.req.user = path'
    BY <1>1, <1>2, <2>2 DEF IsNav
  <2>4. \A v \in wire' : IsNav(v) => v = w
    BY <2>1, <2>2
  <2> QED
    BY <1>2, <2>3, <2>4 DEF UnderWay, IsNav
<1>11. FreshInv'
  BY <1>2 DEF FreshInv
<1> QED
  BY <1>6, <1>7, <1>8, <1>9, <1>10, <1>11 DEF ClientInv

(* A task that leaves the page, its handlers and the navigations alone.        *)
LEMMA PageStays ==
  ASSUME ClientInv, booted,
         UNCHANGED <<url, booted, path, settled, cmd_buf, shown, slots, listeners>>,
         fetches' \in FetchTable, sf_pending' \in SfTable, CallsInv',
         \A w : IsNav(w) => (w \in wire' <=> w \in wire),
         heap_ptr' \in Nat, floor' \in 0 .. heap_ptr',
         sf_body' \in Nat \cup {None}, bufs' \in [BufIds -> BufType],
         HeapOk(heap_ptr', floor', bufs', sf_body', slots)
  PROVE  ClientInv'
<1>1. TypeOK'
  <2>1. \A w \in wire' : w.id \in FetchIds /\ w.req \in Request
    BY WireEntry DEF CallsInv
  <2> QED
    BY <2>1 DEF ClientInv, TypeOK, FetchTable, SfTable, BufType
<1>2. HeapInv'
  BY DEF HeapInv
<1>3. ListenersInv'
  BY DEF ClientInv, ListenersInv
<1>4. FreshInv'
  BY DEF FreshInv
<1>5. SettledInv'
  <2> SUFFICES ASSUME settled' PROVE Arrived' \/ UnderWay'
    BY DEF SettledInv
  <2>1. Arrived \/ UnderWay
    BY DEF ClientInv, SettledInv
  <2>2. CASE Arrived
    <3>1. Hydrated(path)'
      BY <2>2 DEF Arrived, Hydrated, Reaches
    <3> QED
      BY <2>2, <3>1 DEF Arrived
  <2>3. CASE UnderWay
    BY <2>3 DEF UnderWay
  <2> QED
    BY <2>1, <2>2, <2>3
<1> QED
  BY <1>1, <1>2, <1>3, <1>4, <1>5 DEF ClientInv

(* A document that was loaded afresh.                                          *)
LEMMA Fresh ==
  ASSUME NEW u \in Pages, FreshDocument(u), url' = u, path' \in Pages
  PROVE  ClientInv'
<1> USE DEF FreshDocument
<1>1. /\ 0 \in Nat /\ 0 \in 0 .. 0 /\ FetchMax \in Nat /\ MaxSlots \in Nat
      /\ <<>> \in Seq(Handler) /\ Len(<<>>) = 0
      /\ <<>> \in Seq(0 .. MaxSlots - 1) /\ DOMAIN <<>> = {}
  BY ClientAssumption
<1>2. TypeOK'
  <2>1. listeners' \in [Els -> Seq(0 .. MaxSlots - 1)]
    BY <1>1
  <2>2. bufs' \in [BufIds -> [at : Nat, cap : 0 .. FetchMax]]
    BY <1>1
  <2>3. /\ fetches' \in [FetchIds -> Request \cup {None}]
        /\ sf_pending' \in [SfSlots -> Els \cup {None}]
    OBVIOUS
  <2>4. slots' \in Seq(Handler) /\ Len(slots') <= MaxSlots
    BY <1>1
  <2>5. /\ heap_ptr' \in Nat /\ floor' \in 0 .. heap_ptr'
        /\ cmd_buf' \in Nat \cup {None} /\ sf_body' \in Nat \cup {None}
        /\ booted' \in BOOLEAN /\ settled' \in BOOLEAN
        /\ url' \in Pages /\ shown' \in Pages /\ wire' = {}
    BY <1>1
  <2> QED
    BY <2>1, <2>2, <2>3, <2>4, <2>5 DEF TypeOK
<1>3. CallsInv'
  <2>1. \A i \in FetchIds : fetches'[i] = None
    OBVIOUS
  <2> QED
    BY <2>1 DEF CallsInv, Matched, SfMatched
<1>4. FreshInv'
  BY DEF FreshInv
<1>5. HeapInv' /\ SettledInv'
  BY DEF HeapInv, SettledInv
<1>6. ListenersInv'
  <2>1. \A e \in PageEls(u) : e \in Els
    BY RootsOfPage
  <2>2. \A e \in PageEls(u) : DOMAIN listeners'[e] = {}
    BY <1>1, <2>1
  <2> QED
    BY <2>2 DEF ListenersInv
<1> QED
  BY <1>2, <1>3, <1>4, <1>5, <1>6 DEF ClientInv

-----------------------------------------------------------------------------
(* Then each task.                                                             *)

(* What a running client may rely on before a task.                            *)
LEMMA Running ==
  ASSUME ClientInv
  PROVE  /\ fetches \in FetchTable /\ sf_pending \in SfTable
         /\ Matched(fetches, wire) /\ SfMatched(fetches, sf_pending)
         /\ bufs \in [BufIds -> BufType] /\ slots \in Seq(Handler)
         /\ heap_ptr \in Nat /\ floor \in 0 .. heap_ptr /\ floor \in Nat
         /\ booted => HeapOk(heap_ptr, floor, bufs, sf_body, slots)
         /\ wire # {} => booted
         /\ url \in Pages /\ shown \in Pages /\ path \in Pages
         /\ cmd_buf \in Nat \cup {None} /\ sf_body \in Nat \cup {None}
BY DEF ClientInv, TypeOK, CallsInv, HeapInv, FreshInv, FetchTable, SfTable, BufType

(* A rewind of a running client to its sticky part.                            *)
LEMMA Rewound ==
  ASSUME ClientInv, booted
  PROVE  HeapOk(floor, floor, bufs, sf_body, <<>>)
BY Running, HeapForget

(* The component of a handler of the event table is one of the application's.  *)
LEMMA HandlerEl ==
  ASSUME ClientInv, NEW h \in Range(slots)
  PROVE  h.el \in Els
<1>1. PICK i \in DOMAIN slots : h = slots[i]
  BY DEF Range
<1>2. h \in Handler
  BY <1>1, Running
<1> QED
  BY <1>2 DEF Handler

(* Init: the first document is fresh.                                          *)
LEMMA InitKeeps ==
  ASSUME Init
  PROVE  ClientInv
<1> USE DEF Init
<1>1. /\ 0 \in Nat /\ 0 \in 0 .. 0 /\ FetchMax \in Nat /\ MaxSlots \in Nat
      /\ <<>> \in Seq(Handler) /\ Len(<<>>) = 0
      /\ <<>> \in Seq(0 .. MaxSlots - 1) /\ DOMAIN <<>> = {}
  BY ClientAssumption
<1>2. TypeOK
  <2>1. listeners \in [Els -> Seq(0 .. MaxSlots - 1)]
    BY <1>1
  <2>2. bufs \in [BufIds -> [at : Nat, cap : 0 .. FetchMax]]
    BY <1>1
  <2>3. /\ fetches \in [FetchIds -> Request \cup {None}]
        /\ sf_pending \in [SfSlots -> Els \cup {None}]
    OBVIOUS
  <2>4. slots \in Seq(Handler) /\ Len(slots) <= MaxSlots
    BY <1>1
  <2>5. /\ heap_ptr \in Nat /\ floor \in 0 .. heap_ptr
        /\ cmd_buf \in Nat \cup {None} /\ sf_body \in Nat \cup {None}
        /\ booted \in BOOLEAN /\ settled \in BOOLEAN
        /\ url \in Pages /\ shown \in Pages /\ path \in Pages /\ wire = {}
    BY <1>1
  <2> QED
    BY <2>1, <2>2, <2>3, <2>4, <2>5 DEF TypeOK
<1>3. CallsInv
  <2>1. \A i \in FetchIds : fetches[i] = None
    OBVIOUS
  <2> QED
    BY <2>1 DEF CallsInv, Matched, SfMatched
<1>4. FreshInv
  BY DEF FreshInv
<1>5. HeapInv /\ SettledInv
  BY DEF HeapInv, SettledInv
<1>6. ListenersInv
  <2>1. \A e \in PageEls(shown) : e \in Els
    BY RootsOfPage
  <2>2. \A e \in PageEls(shown) : DOMAIN listeners[e] = {}
    BY <1>1, <2>1
  <2> QED
    BY <2>2 DEF ListenersInv
<1> QED
  BY <1>2, <1>3, <1>4, <1>5, <1>6 DEF ClientInv

(* cerco_boot: the first hydration, from an empty table and heap.              *)
LEMMA BootKeeps ==
  ASSUME ClientInv, cerco_boot
  PROVE  ClientInv'
<1> DEFINE top == ScratchTop
<1>1. /\ ~booted /\ booted' = TRUE /\ path' = url /\ floor' = top
      /\ hydrate_roots(shown, top, <<>>, listeners)
      /\ url' = url /\ shown' = shown /\ settled' = settled
      /\ sf_body' = sf_body /\ bufs' = bufs
      /\ fetches' = fetches /\ sf_pending' = sf_pending /\ wire' = wire
  BY DEF cerco_boot, callVars
<1>2. /\ wire = {} /\ sf_body = None /\ cmd_buf = None
      /\ \A b \in BufIds : bufs[b].cap = 0
      /\ \A e \in Els : listeners[e] = <<>>
      /\ settled => shown = url
  BY <1>1 DEF ClientInv, FreshInv
<1>3. /\ listeners \in [Els -> Seq(0 .. MaxSlots - 1)] /\ settled \in BOOLEAN
      /\ MaxSlots \in Nat /\ <<>> \in Seq(Handler) /\ Len(<<>>) = 0
      /\ DOMAIN <<>> = {} /\ top = 1
  BY ClientAssumption DEF ClientInv, TypeOK, ScratchTop
<1>4. \A e \in PageEls(shown) : listeners[e] = <<>>
  BY <1>2, Running, RootsOfPage
<1>5. /\ slots' \in Seq(Handler) /\ Len(slots') <= MaxSlots
      /\ listeners' \in [Els -> Seq(0 .. MaxSlots - 1)]
      /\ ListenersInv' /\ Hydrated(shown)'
  <2>1. shown \in Pages /\ top \in Nat /\ Len(<<>>) <= MaxSlots
    BY <1>3, Running
  <2>2. PICK p \in Pages : p = shown
    BY <2>1
  <2>3. /\ slots' \in Seq(Handler) /\ Len(slots') <= MaxSlots
        /\ listeners' \in [Els -> Seq(0 .. MaxSlots - 1)]
        /\ ListenersInv' /\ Hydrated(p)'
    BY <1>1, <1>3, <1>4, <2>1, <2>2, Hydrates
  <2> QED
    BY <1>1, <2>2, <2>3 DEF Hydrated, Reaches
<1>6. HeapOk(top, top, bufs, sf_body, <<>>)
  BY <1>2, <1>3 DEF HeapOk, Bounded, BufsApart, BodyApart, StatesApart
<1>7. /\ cmd_buf' = top + 1 /\ heap_ptr' = top + Len(Roots(shown)) + 1
      /\ slots' = <<>> \o Mounted(shown, top, <<>>)
  BY <1>1, <1>2 DEF hydrate_roots
<1>8. heap_ptr' = Above(shown, top)
  BY <1>2, <1>7 DEF Above
<1>9. Above(shown, top) \in Nat /\ HeapOk(heap_ptr', floor', bufs', sf_body', slots')
  <2>1. /\ shown \in Pages /\ top \in Nat /\ bufs \in [BufIds -> BufType]
        /\ sf_body \in Nat \cup {None} /\ Len(<<>>) <= MaxSlots
    BY <1>3, Running
  <2>2. /\ Above(shown, top) \in Nat
        /\ HeapOk(Above(shown, top), top, bufs, sf_body, <<>> \o Mounted(shown, top, <<>>))
    BY <1>3, <1>6, <2>1, HeapMount
  <2> QED
    BY <1>1, <1>7, <1>8, <2>2
<1>10. TypeOK'
  <2>1. 0 <= floor' /\ floor' <= heap_ptr' /\ heap_ptr' \in Nat /\ floor' \in Nat
    BY <1>1, <1>3, <1>8, <1>9 DEF HeapOk, Bounded
  <2>2. floor' \in 0 .. heap_ptr' /\ cmd_buf' \in Nat
    BY <1>3, <1>7, <2>1
  <2> QED
    BY <1>1, <1>3, <1>5, <2>1, <2>2 DEF ClientInv, TypeOK
<1>11. HeapInv'
  BY <1>9 DEF HeapInv
<1>12. CallsInv' /\ FreshInv'
  BY <1>1 DEF ClientInv, CallsInv, FreshInv
<1>13. SettledInv'
  <2> SUFFICES ASSUME settled' PROVE Arrived'
    BY DEF SettledInv
  <2>1. shown' = path' /\ wire' = {}
    BY <1>1, <1>2
  <2>2. Hydrated(path)'
    BY <1>5, <2>1 DEF Hydrated, Reaches
  <2> QED
    BY <2>1, <2>2 DEF Arrived
<1> QED
  BY <1>5, <1>10, <1>11, <1>12, <1>13 DEF ClientInv

(* Link: cerco_navigate on the state as it is.                                 *)
LEMMA LinkKeeps ==
  ASSUME ClientInv, NEW p \in Pages, Link(p)
  PROVE  ClientInv'
BY Running, Rewound, Navigated DEF Link

(* LinkBeforeBoot: only the location changes, and settled is given up.         *)
LEMMA LinkBeforeBootKeeps ==
  ASSUME ClientInv, NEW p \in Pages, LinkBeforeBoot(p)
  PROVE  ClientInv'
<1>1. /\ ~booted /\ url' = p /\ settled' = FALSE /\ path' = path /\ booted' = booted
      /\ heap_ptr' = heap_ptr /\ floor' = floor /\ cmd_buf' = cmd_buf
      /\ sf_body' = sf_body /\ bufs' = bufs /\ fetches' = fetches
      /\ sf_pending' = sf_pending /\ wire' = wire /\ shown' = shown
      /\ slots' = slots /\ listeners' = listeners
  BY DEF LinkBeforeBoot, heapVars, callVars, pageVars
<1>2. TypeOK'
  BY <1>1 DEF ClientInv, TypeOK
<1>3. CallsInv' /\ FreshInv' /\ HeapInv' /\ SettledInv'
  BY <1>1 DEF ClientInv, CallsInv, FreshInv, HeapInv, SettledInv
<1>4. ListenersInv'
  BY <1>1 DEF ClientInv, ListenersInv
<1> QED
  BY <1>2, <1>3, <1>4 DEF ClientInv

(* EventNavigates: cerco_navigate from a handler.                              *)
LEMMA EventNavigatesKeeps ==
  ASSUME ClientInv, NEW h \in Range(slots), NEW p \in Pages, EventNavigates(h, p)
  PROVE  ClientInv'
BY Running, Rewound, Navigated DEF EventNavigates, Event

(* EventFetches: one more fetch, or none.                                      *)
LEMMA EventFetchesKeeps ==
  ASSUME ClientInv, NEW h \in Range(slots), EventFetches(h)
  PROVE  ClientInv'
<1> DEFINE r == [cb |-> "get", user |-> h.el, el |-> h.el]
<1>1. r \in Request /\ r.cb = "get"
  BY HandlerEl DEF Request
<1>2. /\ booted /\ cerco_http(r, fetches, wire)
      /\ UNCHANGED <<url, booted, path, settled, cmd_buf, shown, slots, listeners>>
      /\ heap_ptr' = heap_ptr /\ floor' = floor /\ sf_body' = sf_body /\ bufs' = bufs
      /\ sf_pending' = sf_pending
  BY DEF EventFetches, Event, heapVars, pageVars
<1> HIDE DEF r
<1>3. /\ fetches' \in FetchTable /\ CallsInv'
      /\ \A w : IsNav(w) => (w \in wire' <=> w \in wire)
  <2>1. CASE fetches' = fetches /\ wire' = wire
    BY <1>2, <2>1, Running DEF CallsInv
  <2>2. ASSUME NEW id \in Free(fetches), fetches' = [fetches EXCEPT ![id] = r],
               wire' = wire \cup {[id |-> id, req |-> r]}
        PROVE  /\ fetches' \in FetchTable /\ CallsInv'
               /\ \A w : IsNav(w) => (w \in wire' <=> w \in wire)
    <3>1. fetches' \in FetchTable /\ Matched(fetches', wire')
      BY <1>1, <2>2, CallTaken, Running
    <3>2. id \in FetchIds /\ r.cb # "sf"
      BY <1>1 DEF Free
    <3>3. SfMatched(fetches', sf_pending')
      BY <1>2, <2>2, <3>2, SfOther, Running
    <3>4. ~IsNav([id |-> id, req |-> r])
      BY <1>1 DEF IsNav
    <3>5. \A w : IsNav(w) => (w \in wire' <=> w \in wire)
      BY <2>2, <3>4
    <3> QED
      BY <3>1, <3>3, <3>5 DEF CallsInv
  <2> QED
    BY <1>2, <2>1, <2>2, HttpOutcome
<1>4. HeapOk(heap_ptr', floor', bufs', sf_body', slots')
  BY <1>2, Running
<1> QED
  BY <1>2, <1>3, <1>4, Running, PageStays

(* EventCallsSf: the body on the first call, a pending call, and a fetch if    *)
(* there is room for it.                                                       *)
LEMMA EventCallsSfKeeps ==
  ASSUME ClientInv, NEW h \in Range(slots), EventCallsSf(h)
  PROVE  ClientInv'
<1>1. /\ booted
      /\ UNCHANGED <<url, booted, path, settled, cmd_buf, shown, slots, listeners>>
      /\ bufs' = bufs
      /\ IF sf_body = None
         THEN sf_body' = heap_ptr /\ cerco_alloc_sticky(1)
         ELSE sf_body' = sf_body /\ heap_ptr' = heap_ptr /\ floor' = floor
  BY DEF EventCallsSf, Event, pageVars
<1>2. /\ heap_ptr' \in Nat /\ floor' \in 0 .. heap_ptr'
      /\ sf_body' \in Nat \cup {None}
      /\ HeapOk(heap_ptr', floor', bufs', sf_body', slots')
  <2>1. CASE sf_body = None
    <3>1. /\ heap_ptr' \in Nat /\ floor' \in 0 .. heap_ptr' /\ sf_body' \in Nat
          /\ HeapOk(heap_ptr', floor', bufs, sf_body', slots)
      BY <1>1, <2>1, Running, HeapBody DEF ClientInv
    <3> QED
      BY <1>1, <3>1
  <2>2. CASE sf_body # None
    BY <1>1, <2>2, Running
  <2> QED
    BY <2>1, <2>2
<1>3. /\ fetches' \in FetchTable /\ sf_pending' \in SfTable /\ CallsInv'
      /\ \A w : IsNav(w) => (w \in wire' <=> w \in wire)
  <2>1. CASE FreeSf = {}
    <3>1. fetches' = fetches /\ sf_pending' = sf_pending /\ wire' = wire
      BY <2>1 DEF EventCallsSf, callVars
    <3> QED
      BY <3>1, Running DEF CallsInv
  <2>2. CASE FreeSf # {}
    <3>1. PICK s \in FreeSf :
            /\ sf_pending' = [sf_pending EXCEPT ![s] = h.el]
            /\ cerco_http([cb |-> "sf", user |-> s, el |-> h.el], fetches, wire)
      <4>1. FreeSf \subseteq Nat
        BY ClientAssumption DEF FreeSf, SfSlots
      <4>2. Min(FreeSf) \in FreeSf
        BY <2>2, <4>1, MinIsLeast
      <4> QED
        BY <2>2, <4>2 DEF EventCallsSf
    <3> DEFINE r == [cb |-> "sf", user |-> s, el |-> h.el]
    <3>2. s \in SfSlots /\ sf_pending[s] = None /\ h.el \in Els
      BY HandlerEl DEF FreeSf
    <3>3. r \in Request /\ r.cb = "sf"
      BY <3>2 DEF Request
    <3>4. sf_pending' \in SfTable
      BY <3>1, <3>2, Running DEF SfTable
    <3>5. CASE fetches' = fetches /\ wire' = wire
      <4>1. SfMatched(fetches, sf_pending')
        <5>1. ASSUME NEW i \in FetchIds, fetches[i] # None, fetches[i].cb = "sf"
              PROVE  sf_pending'[fetches[i].user] = fetches[i].el
          <6>1. fetches[i] \in Request
            BY <5>1, Running DEF FetchTable
          <6>2. fetches[i].user \in SfSlots /\ fetches[i].el \in Els
            BY <5>1, <6>1 DEF Request
          <6>3. sf_pending[fetches[i].user] = fetches[i].el
            BY <5>1, Running DEF SfMatched
          <6>4. fetches[i].user # s
            BY <3>2, <6>2, <6>3, ClientAssumption
          <6> QED
            BY <3>1, <6>2, <6>3, <6>4, Running DEF SfTable
        <5> QED
          BY <5>1, Running DEF SfMatched
      <4> QED
        BY <3>4, <3>5, <4>1, Running DEF CallsInv
    <3>6. ASSUME NEW id \in Free(fetches), fetches' = [fetches EXCEPT ![id] = r],
                 wire' = wire \cup {[id |-> id, req |-> r]}
          PROVE  /\ fetches' \in FetchTable /\ CallsInv'
                 /\ \A w : IsNav(w) => (w \in wire' <=> w \in wire)
      <4>1. fetches' \in FetchTable /\ Matched(fetches', wire')
        BY <3>3, <3>6, CallTaken, Running
      <4>2. SfMatched(fetches', sf_pending')
        BY <3>1, <3>2, <3>6, SfTaken, Running
      <4>3. ~IsNav([id |-> id, req |-> r])
        BY <3>3 DEF IsNav
      <4>4. \A w : IsNav(w) => (w \in wire' <=> w \in wire)
        BY <3>6, <4>3
      <4> QED
        BY <4>1, <4>2, <4>4 DEF CallsInv
    <3> HIDE DEF r
    <3>7. cerco_http(r, fetches, wire)
      BY <3>1 DEF r
    <3> QED
      BY <3>4, <3>5, <3>6, <3>7, HttpOutcome
  <2> QED
    BY <2>1, <2>2
<1> QED
  BY <1>1, <1>2, <1>3, Running, PageStays

(* What an answer to a component leaves: the fetch and its pending call given  *)
(* back, the response in its buffer.                                           *)
LEMMA Answered ==
  ASSUME ClientInv, NEW w \in wire, NEW size \in Sizes, Answer(w, size)
  PROVE  /\ booted /\ url' = url /\ ~IsNav(w)
         /\ w.id \in FetchIds /\ fetches[w.id] \in Request
         /\ FetchDone(w.id) \in FetchTable /\ Matched(FetchDone(w.id), wire \ {w})
         /\ sf_pending' \in SfTable /\ SfMatched(FetchDone(w.id), sf_pending')
         /\ TopAfter(w.id, size) \in Nat /\ floor' \in 0 .. TopAfter(w.id, size)
         /\ floor' = FloorAfter(w.id, size) /\ bufs' \in [BufIds -> BufType]
         /\ HeapOk(TopAfter(w.id, size), floor', bufs', sf_body, slots)
<1> DEFINE id == w.id
<1>1. /\ fetches[id] # None /\ fetches[id].cb # "nav"
      /\ sf_pending' = IF fetches[id].cb = "sf"
                       THEN [sf_pending EXCEPT ![fetches[id].user] = None]
                       ELSE sf_pending
      /\ cerco_fetch_reserve(id, size) /\ url' = url
  BY DEF Answer
<1>2. booted /\ id \in FetchIds /\ w.req \in Request /\ fetches[id] = w.req
  BY Running, WireEntry
<1>3. FetchDone(id) \in FetchTable /\ Matched(FetchDone(id), wire \ {w})
  BY Running, CallDone DEF FetchDone
<1>4. sf_pending' \in SfTable /\ SfMatched(FetchDone(id), sf_pending')
  <2>1. CASE fetches[id].cb = "sf"
    BY <1>1, <1>2, <2>1, Running, SfDone DEF FetchDone
  <2>2. CASE fetches[id].cb # "sf"
    BY <1>1, <1>2, <2>2, Running, SfOther DEF FetchDone
  <2> QED
    BY <2>1, <2>2
<1>5. /\ TopAfter(id, size) \in Nat /\ floor' \in 0 .. TopAfter(id, size)
      /\ bufs' \in [BufIds -> BufType]
      /\ HeapOk(TopAfter(id, size), floor', bufs', sf_body, slots)
  BY <1>1, <1>2, Running, HeapReserve DEF ClientInv
<1>6. floor' = FloorAfter(id, size)
  BY <1>1 DEF cerco_fetch_reserve
<1>7. ~IsNav(w)
  BY <1>1, <1>2 DEF IsNav
<1> QED
  BY <1>1, <1>2, <1>3, <1>4, <1>5, <1>6, <1>7

(* FetchAnswered: the callback asks again on the freed table, or does not.     *)
LEMMA FetchAnsweredKeeps ==
  ASSUME ClientInv, NEW w \in wire, NEW size \in Sizes, FetchAnswered(w, size)
  PROVE  ClientInv'
<1> DEFINE r == fetches[w.id] done == FetchDone(w.id) rest == wire \ {w}
<1>1. /\ booted /\ ~IsNav(w) /\ w.id \in FetchIds /\ r \in Request /\ url' = url
      /\ done \in FetchTable /\ Matched(done, rest)
      /\ sf_pending' \in SfTable /\ SfMatched(done, sf_pending')
      /\ TopAfter(w.id, size) \in Nat /\ floor' \in 0 .. TopAfter(w.id, size)
      /\ bufs' \in [BufIds -> BufType]
      /\ HeapOk(TopAfter(w.id, size), floor', bufs', sf_body, slots)
  BY Answered DEF FetchAnswered
<1>2. /\ heap_ptr' = TopAfter(w.id, size) /\ sf_body' = sf_body
      /\ UNCHANGED <<url, booted, path, settled, cmd_buf, shown, slots, listeners>>
      /\ \/ fetches' = done /\ wire' = rest
         \/ r.cb = "get" /\ cerco_http(r, done, rest)
  BY <1>1 DEF FetchAnswered, pageVars
<1>3. \A v : IsNav(v) => (v \in rest <=> v \in wire)
  BY <1>1
<1> HIDE DEF r, done, rest
<1>4. /\ fetches' \in FetchTable /\ CallsInv'
      /\ \A v : IsNav(v) => (v \in wire' <=> v \in wire)
  <2>1. CASE fetches' = done /\ wire' = rest
    BY <1>1, <1>3, <2>1 DEF CallsInv
  <2>2. ASSUME r.cb = "get", NEW id \in Free(done),
               fetches' = [done EXCEPT ![id] = r],
               wire' = rest \cup {[id |-> id, req |-> r]}
        PROVE  /\ fetches' \in FetchTable /\ CallsInv'
               /\ \A v : IsNav(v) => (v \in wire' <=> v \in wire)
    <3>1. fetches' \in FetchTable /\ Matched(fetches', wire')
      BY <1>1, <2>2, CallTaken
    <3>2. id \in FetchIds /\ r.cb # "sf"
      BY <2>2 DEF Free
    <3>3. SfMatched(fetches', sf_pending')
      BY <1>1, <2>2, <3>2, SfOther
    <3>4. ~IsNav([id |-> id, req |-> r])
      BY <2>2 DEF IsNav
    <3>5. \A v : IsNav(v) => (v \in wire' <=> v \in wire)
      BY <1>3, <2>2, <3>4
    <3> QED
      BY <3>1, <3>3, <3>5 DEF CallsInv
  <2> QED
    BY <1>2, <2>1, <2>2, HttpOutcome
<1>5. sf_body' \in Nat \cup {None} /\ slots' = slots
  BY <1>2, Running
<1> QED
  BY <1>1, <1>2, <1>4, <1>5, PageStays

(* CallbackNavigates: the rewind keeps the buffer the answer has just taken.   *)
LEMMA CallbackNavigatesKeeps ==
  ASSUME ClientInv, NEW w \in wire, NEW size \in Sizes, NEW p \in Pages,
         CallbackNavigates(w, size, p)
  PROVE  ClientInv'
<1> DEFINE low == FloorAfter(w.id, size)
<1>1. Answer(w, size) /\ cerco_navigate(p, low, FetchDone(w.id), wire \ {w})
  BY DEF CallbackNavigates
<1>2. /\ booted /\ url' = url
      /\ FetchDone(w.id) \in FetchTable /\ Matched(FetchDone(w.id), wire \ {w})
      /\ sf_pending' \in SfTable /\ SfMatched(FetchDone(w.id), sf_pending')
      /\ TopAfter(w.id, size) \in Nat /\ floor' \in 0 .. TopAfter(w.id, size)
      /\ floor' = low /\ bufs' \in [BufIds -> BufType]
      /\ HeapOk(TopAfter(w.id, size), floor', bufs', sf_body, slots)
  BY <1>1, Answered
<1>3. floor' \in Nat
  BY <1>2
<1>4. HeapOk(floor', floor', bufs', sf_body, <<>>)
  BY <1>2, <1>3, HeapForget
<1>5. url' \in Pages
  BY <1>2, Running
<1> QED
  BY <1>1, <1>2, <1>3, <1>4, <1>5, Navigated

(* NavFails: host_nav_reload loads the document afresh.                        *)
LEMMA NavFailsKeeps ==
  ASSUME ClientInv, NEW w \in wire, NavFails(w)
  PROVE  ClientInv'
BY Running, Fresh DEF NavFails

(* A page lands: its region is replaced, the handlers stay in the table, and   *)
(* the roots of the new document are mounted behind them.                      *)
LEMMA PageLandsKeeps ==
  ASSUME ClientInv, NEW w \in wire, NEW size \in Sizes, PageLands(w, size)
  PROVE  ClientInv'
<1> DEFINE top == TopAfter(w.id, size)
           table == [i \in DOMAIN slots |->
                       [slots[i] EXCEPT !.live = @ /\ slots[i].el \in LayoutEls]]
           heard == [e \in Els |-> IF e \in LayoutEls THEN listeners[e] ELSE <<>>]
<1>1. /\ fetches[w.id] # None /\ IsNav(w)
      /\ fetches' = FetchDone(w.id) /\ wire' = wire \ {w}
      /\ cerco_fetch_reserve(w.id, size)
      /\ shown' = w.req.user
      /\ hydrate_roots(w.req.user, top, table, heard)
      /\ UNCHANGED <<url, booted, path, settled, sf_body, sf_pending>>
  BY DEF PageLands
<1>2. /\ booted /\ w.id \in FetchIds /\ w.req \in Request
      /\ fetches[w.id] = w.req
  BY Running, WireEntry
<1>3. PICK p \in Pages : p = w.req.user
  BY <1>1, <1>2 DEF IsNav, Request
<1>4. /\ top \in Nat /\ floor' \in 0 .. top /\ bufs' \in [BufIds -> BufType]
      /\ HeapOk(top, floor', bufs', sf_body, slots)
  BY <1>1, <1>2, Running, HeapReserve DEF ClientInv
<1>5. /\ table \in Seq(Handler) /\ Len(table) = Len(slots) /\ DOMAIN table = DOMAIN slots
      /\ \A i \in DOMAIN slots : table[i].state = slots[i].state
      /\ slots = <<>> => table = <<>>
  <2>1. slots \in Seq(Handler) /\ DOMAIN slots = 1 .. Len(slots) /\ Len(slots) \in Nat
    BY Running
  <2>2. \A i \in DOMAIN slots :
          /\ [slots[i] EXCEPT !.live = @ /\ slots[i].el \in LayoutEls] \in Handler
          /\ [slots[i] EXCEPT !.live = @ /\ slots[i].el \in LayoutEls].state = slots[i].state
    <3> SUFFICES ASSUME NEW i \in DOMAIN slots
                 PROVE  /\ [slots[i] EXCEPT !.live = @ /\ slots[i].el \in LayoutEls] \in Handler
                        /\ [slots[i] EXCEPT !.live = @ /\ slots[i].el \in LayoutEls].state
                             = slots[i].state
      OBVIOUS
    <3>1. slots[i] \in Handler
      BY <2>1
    <3> QED
      BY <3>1 DEF Handler
  <2>3. table \in [1 .. Len(slots) -> Handler]
    BY <2>1, <2>2
  <2>4. table \in Seq(Handler) /\ Len(table) = Len(slots) /\ DOMAIN table = DOMAIN slots
    BY <2>1, <2>3
  <2>5. slots = <<>> => table = <<>>
    BY <2>1, <2>4, EmptySeq
  <2> QED
    BY <2>2, <2>4, <2>5
<1> HIDE DEF top, table
<1>6. HeapOk(top, floor', bufs', sf_body, table)
  BY <1>4, <1>5 DEF HeapOk, StatesApart
<1>7. Len(table) <= MaxSlots
  BY <1>5 DEF ClientInv, TypeOK
<1>8. /\ heard \in [Els -> Seq(0 .. MaxSlots - 1)]
      /\ \A e \in PageEls(p) : heard[e] = <<>>
  <2>1. listeners \in [Els -> Seq(0 .. MaxSlots - 1)] /\ <<>> \in Seq(0 .. MaxSlots - 1)
    BY DEF ClientInv, TypeOK
  <2>2. \A e \in PageEls(p) : e \in Els /\ e \notin LayoutEls
    BY RootsOfPage
  <2> QED
    BY <2>1, <2>2
<1> HIDE DEF heard
<1>9. /\ slots' \in Seq(Handler) /\ Len(slots') <= MaxSlots
      /\ listeners' \in [Els -> Seq(0 .. MaxSlots - 1)]
      /\ ListenersInv' /\ (table = <<>> => Hydrated(p)')
  BY <1>1, <1>3, <1>4, <1>5, <1>7, <1>8, Hydrates
<1>10. /\ slots' = table \o Mounted(p, top, table)
       /\ cmd_buf' \in Nat \cup {None} /\ heap_ptr' = Above(p, top)
  <2>1. Len(Roots(p)) \in Nat
    BY RootsOfPage
  <2>2. hydrate_roots(p, top, table, heard) /\ cmd_buf \in Nat \cup {None}
    BY <1>1, <1>3, Running
  <2>3. slots' = table \o Mounted(p, top, table)
    BY <2>2 DEF hydrate_roots
  <2>4. CASE cmd_buf = None
    <3>1. cmd_buf' = top + 1 /\ heap_ptr' = top + Len(Roots(p)) + 1
      BY <2>2, <2>4 DEF hydrate_roots
    <3> QED
      BY <1>4, <2>3, <2>4, <3>1 DEF Above
  <2>5. CASE cmd_buf # None
    <3>1. cmd_buf' = cmd_buf /\ heap_ptr' = top + Len(Roots(p))
      BY <2>2, <2>5 DEF hydrate_roots
    <3>2. Above(p, top) = top + Len(Roots(p))
      BY <1>4, <2>1, <2>5 DEF Above
    <3> QED
      BY <2>2, <2>3, <3>1, <3>2
  <2> QED
    BY <2>4, <2>5
<1>11. heap_ptr' \in Nat /\ HeapOk(heap_ptr', floor', bufs', sf_body', slots')
  <2>1. floor' \in Nat /\ sf_body \in Nat \cup {None}
    BY <1>4, Running
  <2>2. /\ Above(p, top) \in Nat
        /\ HeapOk(Above(p, top), floor', bufs', sf_body, table \o Mounted(p, top, table))
    BY <1>4, <1>5, <1>6, <1>7, <2>1, HeapMount
  <2> QED
    BY <1>1, <1>10, <2>2
<1>12. fetches' \in FetchTable /\ CallsInv'
  <2>1. fetches' \in FetchTable /\ Matched(fetches', wire')
    BY <1>1, Running, CallDone DEF FetchDone
  <2>2. SfMatched(fetches', sf_pending')
    BY <1>1, <1>2, Running, SfOther DEF FetchDone
  <2> QED
    BY <2>1, <2>2 DEF CallsInv
<1>13. TypeOK'
  <2>1. \A v \in wire' : v.id \in FetchIds /\ v.req \in Request
    BY <1>12, WireEntry DEF CallsInv
  <2>2. floor' \in 0 .. heap_ptr'
    BY <1>4, <1>11 DEF HeapOk, Bounded
  <2>3. shown' \in Pages
    BY <1>1, <1>3
  <2>4. /\ url \in Pages /\ path \in Pages /\ booted \in BOOLEAN /\ settled \in BOOLEAN
        /\ sf_body \in Nat \cup {None} /\ sf_pending \in SfTable
    BY Running DEF ClientInv, TypeOK
  <2> QED
    BY <1>1, <1>4, <1>9, <1>10, <1>11, <1>12, <2>1, <2>2, <2>3, <2>4
       DEF TypeOK, FetchTable, SfTable, BufType
<1>14. HeapInv' /\ FreshInv'
  BY <1>1, <1>2, <1>11 DEF HeapInv, FreshInv
<1>15. SettledInv'
  <2> SUFFICES ASSUME settled' PROVE Arrived'
    BY DEF SettledInv
  <2>1. Arrived \/ UnderWay
    BY <1>1, <1>2 DEF ClientInv, SettledInv
  <2>2. UnderWay
    BY <1>1, <2>1 DEF Arrived
  <2>3. p = path' /\ shown' = path' /\ slots = <<>>
    BY <1>1, <1>3, <2>2 DEF UnderWay
  <2>4. \A v \in wire' : ~IsNav(v)
    BY <1>1, <2>2 DEF UnderWay
  <2>5. Hydrated(path)'
    BY <1>5, <1>9, <2>3 DEF Hydrated, Reaches
  <2> QED
    BY <2>3, <2>4, <2>5 DEF Arrived, IsNav
<1> QED
  BY <1>9, <1>12, <1>13, <1>14, <1>15 DEF ClientInv

(* Every task keeps ClientInv.                                                 *)
LEMMA NextKeeps ==
  ASSUME ClientInv, [Next]_vars
  PROVE  ClientInv'
<1>1. CASE cerco_boot
  BY <1>1, BootKeeps
<1>2. ASSUME NEW p \in Pages, Link(p) PROVE ClientInv'
  BY <1>2, LinkKeeps
<1>3. ASSUME NEW p \in Pages, LinkBeforeBoot(p) PROVE ClientInv'
  BY <1>3, LinkBeforeBootKeeps
<1>4. ASSUME NEW h \in Range(slots), NEW p \in Pages, EventNavigates(h, p)
      PROVE  ClientInv'
  BY <1>4, EventNavigatesKeeps
<1>5. ASSUME NEW h \in Range(slots), EventFetches(h) PROVE ClientInv'
  BY <1>5, EventFetchesKeeps
<1>6. ASSUME NEW h \in Range(slots), EventCallsSf(h) PROVE ClientInv'
  BY <1>6, EventCallsSfKeeps
<1>7. ASSUME NEW w \in wire, NEW size \in Sizes, FetchAnswered(w, size)
      PROVE  ClientInv'
  BY <1>7, FetchAnsweredKeeps
<1>8. ASSUME NEW w \in wire, NEW size \in Sizes, PageLands(w, size)
      PROVE  ClientInv'
  BY <1>8, PageLandsKeeps
<1>9. ASSUME NEW w \in wire, NEW size \in Sizes, NEW p \in Pages,
             CallbackNavigates(w, size, p)
      PROVE  ClientInv'
  BY <1>9, CallbackNavigatesKeeps
<1>10. ASSUME NEW w \in wire, NavFails(w) PROVE ClientInv'
  BY <1>10, NavFailsKeeps
<1>11. CASE UNCHANGED vars
  <2>1. /\ url' = url /\ booted' = booted /\ path' = path /\ settled' = settled
        /\ heap_ptr' = heap_ptr /\ floor' = floor /\ cmd_buf' = cmd_buf
        /\ sf_body' = sf_body /\ bufs' = bufs /\ fetches' = fetches
        /\ sf_pending' = sf_pending /\ wire' = wire /\ shown' = shown
        /\ slots' = slots /\ listeners' = listeners
    BY <1>11 DEF vars, heapVars, callVars, pageVars
  <2>2. TypeOK' /\ CallsInv' /\ FreshInv' /\ HeapInv' /\ ListenersInv'
    BY <2>1 DEF ClientInv, TypeOK, CallsInv, FreshInv, HeapInv, ListenersInv
  <2>3. SettledInv'
    BY <2>1 DEF ClientInv, SettledInv, Arrived, UnderWay, Hydrated, Reaches
  <2> QED
    BY <2>2, <2>3 DEF ClientInv
<1> QED
  BY <1>1, <1>2, <1>3, <1>4, <1>5, <1>6, <1>7, <1>8, <1>9, <1>10, <1>11
     DEF Next, FetchEnds

-----------------------------------------------------------------------------
(* Theorems.                                                                   *)

(* The inductive invariant: calls, heap, handlers and pages are as described   *)
(* in ClientInductive after every task (dom.c, env.c, hydrate.c, sf.c).        *)
THEOREM ClientInvariant == Spec => []ClientInv
<1>1. Init => ClientInv
  BY InitKeeps
<1>2. ClientInv /\ [Next]_vars => ClientInv'
  BY NextKeeps
<1> QED
  BY <1>1, <1>2, PTL DEF Spec

(* Every table, address and counter of the client stays within its type: no    *)
(* table grows past MAX_EVENT_SLOTS, no listener names a slot beyond it, and   *)
(* the sticky part never ends behind the heap (dom.c, env.c, sf.c).            *)
THEOREM ClientTypeCorrect == Spec => []TypeOK
<1>1. ClientInv => TypeOK
  BY DEF ClientInv
<1> QED
  BY <1>1, ClientInvariant, PTL

(* The entry of g_fetches an answer is given to is that of its own request,    *)
(* and each entry in use has an answer to come (dom.c 312-386).                *)
THEOREM AnswersAlwaysMatch == Spec => []AnswersMatch
<1>1. ASSUME ClientInv PROVE AnswersMatch
  <2>1. \A w \in wire : fetches[w.id] = w.req
    BY <1>1, Running, WireEntry
  <2>2. ASSUME NEW i \in FetchIds, fetches[i] # None
        PROVE  \E w \in wire : w.id = i
    <3>1. [id |-> i, req |-> fetches[i]] \in wire
      BY <1>1, <2>2, Running DEF Matched
    <3>2. [id |-> i, req |-> fetches[i]].id = i
      OBVIOUS
    <3> QED
      BY <3>1, <3>2
  <2> QED
    BY <2>1, <2>2 DEF AnswersMatch
<1> QED
  BY <1>1, ClientInvariant, PTL

(* The answer of a server function finds its own pending call (sf.c 125-151).  *)
THEOREM SfCallsAlwaysMatch == Spec => []SfCallsMatch
<1>1. ClientInv => SfCallsMatch
  BY DEF ClientInv, CallsInv, SfMatched, SfCallsMatch
<1> QED
  BY <1>1, ClientInvariant, PTL

(* An event on the page region runs the handler mounted for its element, and   *)
(* only while that element is in the document (dom.c 267-287, host.js 61-80).  *)
THEOREM PageEventsAlwaysOwn == Spec => []PageEventsOwn
<1>1. ASSUME ClientInv PROVE PageEventsOwn
  BY <1>1 DEF ClientInv, ListenersInv, PageEventsOwn, Reaches
<1> QED
  BY <1>1, ClientInvariant, PTL

(* A navigation that was sent without a rival ends on its page, with every     *)
(* root of the region hydrated (hydrate.c 68-140).                           *)
THEOREM PageAlwaysSettles == Spec => []PageSettled
<1>1. ASSUME ClientInv PROVE PageSettled
  <2> SUFFICES ASSUME booted, settled, \A w \in wire : ~IsNav(w)
               PROVE  shown = path /\ Hydrated(shown)
    BY DEF PageSettled, Hydrated
  <2>1. Arrived \/ UnderWay
    BY <1>1 DEF ClientInv, SettledInv
  <2> QED
    BY <2>1 DEF Arrived, UnderWay
<1> QED
  BY <1>1, ClientInvariant, PTL

(* Nothing that outlives a navigation overlaps anything else in use, however   *)
(* rewinds, answers and first calls alternate (env.c 161-170, dom.c 361-368).  *)
THEOREM StickyAlwaysIntact == Spec => []StickyIntact
<1>1. ASSUME ClientInv, booted
      PROVE  LET sticky == {Span(0, ScratchTop)}
                  \cup {Span(bufs[b].at, bufs[b].cap) : b \in {c \in BufIds : bufs[c].cap > 0}}
                  \cup (IF sf_body = None THEN {} ELSE {Span(sf_body, 1)})
                 states == {Span(slots[i].state, 1) : i \in DOMAIN slots}
             IN  /\ \A a, b \in sticky : a # b => a \cap b = {}
                 /\ \A a \in sticky, b \in states : a \cap b = {}
                 /\ Cardinality(states) = Len(slots)
                 /\ UNION (sticky \cup states) \subseteq 0 .. heap_ptr - 1
  <2> DEFINE full == {c \in BufIds : bufs[c].cap > 0}
             body == IF sf_body = None THEN {} ELSE {Span(sf_body, 1)}
             blocks == {Span(bufs[b].at, bufs[b].cap) : b \in full}
             states == {Span(slots[i].state, 1) : i \in DOMAIN slots}
             sticky == {Span(0, ScratchTop)} \cup blocks \cup body
  <2>1. /\ heap_ptr \in Nat /\ floor \in Nat /\ slots \in Seq(Handler)
        /\ ScratchTop <= floor /\ floor <= heap_ptr /\ BufsApart(floor, bufs)
        /\ BodyApart(floor, bufs, sf_body)
        /\ StatesApart(heap_ptr, bufs, sf_body, slots)
    BY <1>1, Running DEF HeapOk, Bounded
  <2>2. \A b \in full : /\ bufs[b].at \in Nat /\ bufs[b].cap \in Nat
                        /\ ScratchTop <= bufs[b].at /\ bufs[b].at + bufs[b].cap <= floor
    <3>1. \A b \in BufIds : bufs[b].at \in Nat /\ bufs[b].cap \in Nat
      BY <1>1, Running, ClientAssumption DEF BufType
    <3> QED
      BY <2>1, <3>1 DEF BufsApart
  <2>3. \A b, c \in full : b # c => Apart(bufs[b].at, bufs[b].cap, bufs[c].at, bufs[c].cap)
    BY <2>1 DEF BufsApart
  <2>4. sf_body # None => /\ sf_body \in Nat /\ ScratchTop <= sf_body /\ sf_body < floor
                          /\ \A b \in full : Apart(sf_body, 1, bufs[b].at, bufs[b].cap)
    BY <1>1, <2>1, Running DEF BodyApart
  <2>5. \A i \in DOMAIN slots :
          /\ slots[i].state \in Nat
          /\ ScratchTop <= slots[i].state /\ slots[i].state < heap_ptr
          /\ slots[i].state # sf_body
          /\ \A b \in full : Apart(slots[i].state, 1, bufs[b].at, bufs[b].cap)
          /\ \A j \in DOMAIN slots \ {i} : slots[i].state # slots[j].state
    <3>1. \A i \in DOMAIN slots : slots[i] \in Handler
      BY <2>1
    <3> QED
      BY <2>1, <3>1 DEF StatesApart, Handler
  <2> HIDE DEF full
  <2>6. \A a, m, b, n \in Nat : Apart(a, m, b, n) => Span(a, m) \cap Span(b, n) = {}
    BY DEF Apart, Span
  <2>7. \A a, b \in Nat : a # b => Span(a, 1) \cap Span(b, 1) = {}
    BY DEF Span
  <2>8. \A a, n \in Nat : ScratchTop <= a => Span(0, ScratchTop) \cap Span(a, n) = {}
    BY DEF Span, ScratchTop
  <2>9. \A x, y \in sticky : x # y => x \cap y = {}
    <3>1. \A x, y \in blocks : x # y => x \cap y = {}
      <4> SUFFICES ASSUME NEW b \in full, NEW c \in full,
                          Span(bufs[b].at, bufs[b].cap) # Span(bufs[c].at, bufs[c].cap)
                   PROVE  Span(bufs[b].at, bufs[b].cap) \cap Span(bufs[c].at, bufs[c].cap) = {}
        OBVIOUS
      <4>1. Apart(bufs[b].at, bufs[b].cap, bufs[c].at, bufs[c].cap)
        BY <2>3
      <4> QED
        BY <2>2, <2>6, <4>1
    <3>2. \A x \in blocks : Span(0, ScratchTop) \cap x = {}
      BY <2>2, <2>8
    <3>3. \A x \in body : /\ Span(0, ScratchTop) \cap x = {}
                          /\ \A y \in blocks : x \cap y = {}
      <4> SUFFICES ASSUME sf_body # None
                   PROVE  /\ Span(0, ScratchTop) \cap Span(sf_body, 1) = {}
                          /\ \A b \in full :
                               Span(sf_body, 1) \cap Span(bufs[b].at, bufs[b].cap) = {}
        OBVIOUS
      <4> QED
        BY <2>2, <2>4, <2>6, <2>8
    <3>4. \A x, y \in body : x = y
      OBVIOUS
    <3> HIDE DEF blocks, body
    <3> QED
      BY <3>1, <3>2, <3>3, <3>4
  <2>10. \A x \in sticky, y \in states : x \cap y = {}
    <3> SUFFICES ASSUME NEW x \in sticky, NEW i \in DOMAIN slots
                 PROVE  x \cap Span(slots[i].state, 1) = {}
      OBVIOUS
    <3>1. CASE x = Span(0, ScratchTop)
      BY <2>5, <2>8, <3>1
    <3>2. ASSUME NEW b \in full, x = Span(bufs[b].at, bufs[b].cap)
          PROVE  x \cap Span(slots[i].state, 1) = {}
      <4>1. Apart(slots[i].state, 1, bufs[b].at, bufs[b].cap)
        BY <2>5
      <4>2. Span(slots[i].state, 1) \cap Span(bufs[b].at, bufs[b].cap) = {}
        BY <2>2, <2>5, <2>6, <4>1
      <4> QED
        BY <3>2, <4>2
    <3>3. ASSUME sf_body # None, x = Span(sf_body, 1)
          PROVE  x \cap Span(slots[i].state, 1) = {}
      BY <2>4, <2>5, <2>7, <3>3
    <3> QED
      BY <3>1, <3>2, <3>3
  <2>11. Cardinality(states) = Len(slots)
    <3> DEFINE f == [i \in 1 .. Len(slots) |-> Span(slots[i].state, 1)]
    <3>1. DOMAIN slots = 1 .. Len(slots) /\ Len(slots) \in Nat
      BY <2>1
    <3>2. \A i, j \in 1 .. Len(slots) : f[i] = f[j] => i = j
      <4> SUFFICES ASSUME NEW i \in 1 .. Len(slots), NEW j \in 1 .. Len(slots),
                          Span(slots[i].state, 1) = Span(slots[j].state, 1)
                   PROVE  i = j
        OBVIOUS
      <4>1. slots[i].state \in Span(slots[i].state, 1)
        BY <2>5, <3>1 DEF Span
      <4>2. slots[i].state \in Span(slots[j].state, 1)
        BY <4>1
      <4>3. slots[i].state = slots[j].state
        BY <2>5, <3>1, <4>2 DEF Span
      <4> QED
        BY <2>5, <3>1, <4>3
    <3>3. f \in [1 .. Len(slots) -> states]
      BY <3>1
    <3>4. \A t \in states : \E i \in 1 .. Len(slots) : f[i] = t
      BY <3>1
    <3>5. DOMAIN f = 1 .. Len(slots)
      OBVIOUS
    <3> HIDE DEF f, states
    <3>6. f \in Bijection(1 .. Len(slots), states)
      BY <3>2, <3>3, <3>4, <3>5 DEF Bijection, Injection, Surjection, IsInjective
    <3>7. ExistsBijection(1 .. Len(slots), states)
      BY <3>6 DEF ExistsBijection
    <3> QED
      BY <3>1, <3>7, FS_CountingElements
  <2>12. \A x \in sticky \cup states : x \subseteq 0 .. heap_ptr - 1
    <3>1. \A a, n \in Nat : a + n <= heap_ptr => Span(a, n) \subseteq 0 .. heap_ptr - 1
      BY <2>1 DEF Span
    <3>2. Span(0, ScratchTop) \subseteq 0 .. heap_ptr - 1
      BY <2>1 DEF Span, ScratchTop
    <3>3. \A b \in full : Span(bufs[b].at, bufs[b].cap) \subseteq 0 .. heap_ptr - 1
      <4> SUFFICES ASSUME NEW b \in full
                   PROVE  bufs[b].at + bufs[b].cap <= heap_ptr
        BY <2>2, <3>1
      <4> QED
        BY <2>1, <2>2
    <3>4. \A i \in DOMAIN slots : Span(slots[i].state, 1) \subseteq 0 .. heap_ptr - 1
      <4> SUFFICES ASSUME NEW i \in DOMAIN slots
                   PROVE  slots[i].state + 1 <= heap_ptr
        BY <2>5, <3>1
      <4> QED
        BY <2>1, <2>5
    <3>5. sf_body # None => Span(sf_body, 1) \subseteq 0 .. heap_ptr - 1
      <4> SUFFICES ASSUME sf_body # None PROVE sf_body + 1 <= heap_ptr
        BY <2>4, <3>1
      <4> QED
        BY <2>1, <2>4
    <3> QED
      BY <3>2, <3>3, <3>4, <3>5
  <2>13. UNION (sticky \cup states) \subseteq 0 .. heap_ptr - 1
    BY <2>12
  <2> HIDE DEF sticky, states
  <2>14. /\ \A x, y \in sticky : x # y => x \cap y = {}
         /\ \A x \in sticky, y \in states : x \cap y = {}
         /\ Cardinality(states) = Len(slots)
         /\ UNION (sticky \cup states) \subseteq 0 .. heap_ptr - 1
    BY <2>9, <2>10, <2>11, <2>13
  <2> QED
    BY <2>14, Zenon DEF sticky, states, blocks, body, full
<1>2. ClientInv => StickyIntact
  BY <1>1, Zenon DEF StickyIntact
<1> QED
  BY <1>2, ClientInvariant, PTL

=============================================================================
