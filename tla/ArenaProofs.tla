---------------------------- MODULE ArenaProofs -----------------------------
(***************************************************************************)
(* Proofs about the request arena: the blocks of a request never overlap   *)
(* and its chunks exceed the limit by a bounded amount, for every first    *)
(* chunk, limit, size and number of allocations.                           *)
(***************************************************************************)
EXTENDS Request, SequenceTheorems, TLAPS

Chunk == [cap : Nat, used : Nat]
Block == [chunk : Nat, at : Nat, size : Nat]

(* The arena between two turns of the loop of cerco_arena_alloc.  The current *)
(* chunk is the last one; a later block of a chunk lies behind the earlier    *)
(* ones because "used" is behind all of them, also while chunks are added.    *)
ArenaShape(a) ==
  /\ a \in [chunks : Seq(Chunk), total : Nat, hard_cap : Nat, oom : BOOLEAN,
            given : Seq(Block)]
  /\ Len(a.chunks) >= 1
  /\ \A c \in 1..Len(a.chunks) : a.chunks[c].used <= a.chunks[c].cap

BlocksInside(a) ==
  \A k \in 1..Len(a.given) :
    /\ a.given[k].at % ArenaAlign = 0
    /\ a.given[k].chunk \in 1..Len(a.chunks)
    /\ a.given[k].at + a.given[k].size <= a.chunks[a.given[k].chunk].used

BlocksOrdered(a) ==
  \A j, k \in 1..Len(a.given) :
    j < k /\ a.given[j].chunk = a.given[k].chunk =>
      a.given[j].at + a.given[j].size <= a.given[k].at

(* The current chunk is part of the total, and a reset leaves the first chunk,*)
(* which is within the limit.                                                 *)
WithinLimit(a) ==
  /\ Cur(a).cap <= a.total
  /\ a.chunks[1].cap <= a.hard_cap /\ 64 <= a.hard_cap
  /\ a.total < 3 * a.hard_cap
  /\ a.total < a.hard_cap + CERCO_ARENA_CHUNK_MAX

ArenaInv ==
  /\ ArenaShape(arena) /\ BlocksInside(arena) /\ BlocksOrdered(arena) /\ WithinLimit(arena)
  /\ want \in Nat

-----------------------------------------------------------------------------
LEMMA AlignedIsNext ==
  ASSUME NEW u \in Nat
  PROVE  Aligned(u) \in Nat /\ Aligned(u) % ArenaAlign = 0 /\ u <= Aligned(u)
BY DEF Aligned, ArenaAlign

LEMMA InitInv == Init => ArenaInv
<1> SUFFICES ASSUME Init PROVE ArenaInv
  OBVIOUS
<1>1. PICK l \in Limits : arena = cerco_arena_init(FirstChunk, l)
  BY DEF Init
<1>2. /\ l \in Nat /\ FirstChunk \in Nat /\ 64 <= FirstChunk /\ FirstChunk <= l
  BY RequestAssumption
<1>3. MaxOf(FirstChunk, 64) = FirstChunk
  BY <1>2 DEF MaxOf
<1> DEFINE c == [cap |-> FirstChunk, used |-> 0]
<1>4. c \in Chunk
  BY <1>2 DEF Chunk
<1>5. /\ arena.chunks = <<c>> /\ arena.total = FirstChunk /\ arena.hard_cap = l
      /\ arena.given = <<>> /\ arena.oom = FALSE
      /\ arena = [chunks |-> <<c>>, total |-> FirstChunk, hard_cap |-> l,
                  oom |-> FALSE, given |-> <<>>]
  BY <1>1, <1>3 DEF cerco_arena_init, chunk_new
<1>6. <<c>> \in Seq(Chunk) /\ Len(<<c>>) = 1 /\ <<c>>[1] = c
  BY <1>4
<1>7. <<>> \in Seq(Block) /\ Len(<<>>) = 0
  OBVIOUS
<1>8. ArenaShape(arena)
  BY <1>2, <1>5, <1>6, <1>7 DEF ArenaShape
<1>9. BlocksInside(arena) /\ BlocksOrdered(arena)
  BY <1>5, <1>7 DEF BlocksInside, BlocksOrdered
<1>10. WithinLimit(arena)
  BY <1>2, <1>5, <1>6 DEF WithinLimit, Cur, CERCO_ARENA_CHUNK_MAX, KiB
<1> QED
  BY <1>8, <1>9, <1>10 DEF ArenaInv, Init

(* A block taken from the current chunk. *)
LEMMA BumpInv ==
  ASSUME NEW a, NEW n \in Nat,
         ArenaShape(a), BlocksInside(a), BlocksOrdered(a), WithinLimit(a), FitsCur(a, n)
  PROVE  LET b == Bump(a, n)
         IN  ArenaShape(b) /\ BlocksInside(b) /\ BlocksOrdered(b) /\ WithinLimit(b)
<1> DEFINE last == Len(a.chunks)
           at == Aligned(Cur(a).used)
           blk == [chunk |-> last, at |-> at, size |-> n]
           new == [cap |-> Cur(a).cap, used |-> at + n]
           b == Bump(a, n)
<1>1. /\ a.chunks \in Seq(Chunk) /\ last \in Nat /\ last >= 1 /\ a.given \in Seq(Block)
      /\ a.total \in Nat /\ a.hard_cap \in Nat
  BY DEF ArenaShape
<1>2. Cur(a) \in Chunk /\ Cur(a).used \in Nat /\ Cur(a).cap \in Nat
      /\ Cur(a).used <= Cur(a).cap /\ Cur(a) = a.chunks[last]
  <2>1. last \in 1..Len(a.chunks)
    BY <1>1
  <2>2. a.chunks[last] \in Chunk
    BY <1>1, <2>1
  <2>3. a.chunks[last].used <= a.chunks[last].cap
    BY <2>1 DEF ArenaShape
  <2> QED
    BY <2>2, <2>3 DEF Cur, Chunk
<1>3. at \in Nat /\ at % ArenaAlign = 0 /\ Cur(a).used <= at
  BY <1>2, AlignedIsNext
<1>4. at + n <= Cur(a).cap
  BY DEF FitsCur
<1>5. blk \in Block /\ new \in Chunk
  BY <1>1, <1>2, <1>3 DEF Block, Chunk
<1> DEFINE cs == [a.chunks EXCEPT ![last].used = at + n]
           gs == Append(a.given, blk)
<1>6. b = [a EXCEPT !.chunks = cs, !.given = gs]
  BY DEF Bump, ArenaShape
<1>7. /\ b.chunks = cs /\ b.given = gs /\ b.total = a.total /\ b.hard_cap = a.hard_cap
      /\ b.oom = a.oom
  BY <1>6 DEF ArenaShape
<1>8. /\ cs \in Seq(Chunk) /\ Len(cs) = last /\ cs[last] = new
      /\ \A c \in 1..last : c # last => cs[c] = a.chunks[c]
  <2>1. cs = [a.chunks EXCEPT ![last] = new]
    <3>1. [a.chunks[last] EXCEPT !.used = at + n] = new
      BY <1>2 DEF Chunk
    <3> QED
      BY <3>1
  <2> QED
    BY <1>1, <1>5, <2>1
<1>9. /\ gs \in Seq(Block) /\ Len(gs) = Len(a.given) + 1 /\ gs[Len(a.given) + 1] = blk
      /\ \A k \in 1..Len(a.given) : gs[k] = a.given[k]
  BY <1>1, <1>5, AppendProperties
<1> HIDE DEF b, cs, gs, blk, new
<1>10. b \in [chunks : Seq(Chunk), total : Nat, hard_cap : Nat, oom : BOOLEAN,
            given : Seq(Block)]
  BY <1>6, <1>8, <1>9 DEF ArenaShape
<1>11. \A c \in 1..last : cs[c].used <= cs[c].cap /\ a.chunks[c].used <= cs[c].used
         /\ cs[c].cap = a.chunks[c].cap
  <2> TAKE c \in 1..last
  <2>1. CASE c = last
    BY <2>1, <1>8, <1>2, <1>3, <1>4 DEF new, Chunk
  <2>2. CASE c # last
    <3>1. a.chunks[c] \in Chunk
      BY <1>1
    <3>2. cs[c] = a.chunks[c]
      BY <2>2, <1>8
    <3>3. a.chunks[c].used <= a.chunks[c].cap
      BY DEF ArenaShape
    <3> QED
      BY <3>1, <3>2, <3>3 DEF Chunk
  <2> QED
    BY <2>1, <2>2
<1>12. ArenaShape(b)
  BY <1>10, <1>11, <1>7, <1>8, <1>1 DEF ArenaShape
<1>13. \A k \in 1..Len(a.given) :
         /\ gs[k] = a.given[k] /\ a.given[k] \in Block
         /\ a.given[k].at + a.given[k].size <= a.chunks[a.given[k].chunk].used
         /\ a.given[k].chunk \in 1..last /\ a.given[k].at % ArenaAlign = 0
  BY <1>9, <1>1, SMTT(30) DEF BlocksInside
<1>14. BlocksInside(b)
  <2> SUFFICES ASSUME NEW k \in 1..Len(gs)
               PROVE  /\ gs[k].at % ArenaAlign = 0
                      /\ gs[k].chunk \in 1..last
                      /\ gs[k].at + gs[k].size <= cs[gs[k].chunk].used
    BY <1>7, <1>8 DEF BlocksInside
  <2>1. CASE k = Len(a.given) + 1
    <3>1. gs[k].at = at /\ gs[k].size = n /\ gs[k].chunk = last /\ cs[last].used = at + n
      BY <2>1, <1>9, <1>8 DEF blk, new
    <3> QED
      BY <3>1, <1>3, <1>1
  <2>2. CASE k # Len(a.given) + 1
    <3>1. k \in 1..Len(a.given)
      BY <2>2, <1>9, <1>1
    <3>2. a.given[k].chunk \in 1..last
      BY <3>1, <1>13
    <3>3. a.chunks[a.given[k].chunk] \in Chunk /\ cs[a.given[k].chunk] \in Chunk
      BY <3>2, <1>1, <1>8
    <3>4. a.chunks[a.given[k].chunk].used <= cs[a.given[k].chunk].used
      BY <3>2, <1>11
    <3>5. /\ gs[k] = a.given[k] /\ a.given[k] \in Block
          /\ a.given[k].at % ArenaAlign = 0
      BY <3>1, <1>13
    <3>6. a.given[k].at + a.given[k].size <= a.chunks[a.given[k].chunk].used
      BY <3>1, <1>13
    <3>7. /\ a.given[k].at \in Nat /\ a.given[k].size \in Nat
          /\ a.chunks[a.given[k].chunk].used \in Nat /\ cs[a.given[k].chunk].used \in Nat
      BY <3>3, <3>5 DEF Block, Chunk
    <3>8. a.given[k].at + a.given[k].size <= cs[a.given[k].chunk].used
      BY <3>4, <3>6, <3>7, SMTT(30)
    <3> QED
      BY <3>2, <3>5, <3>8
  <2> QED
    BY <2>1, <2>2
<1>15. BlocksOrdered(b)
  <2> SUFFICES ASSUME NEW j \in 1..Len(gs), NEW k \in 1..Len(gs), j < k,
                      gs[j].chunk = gs[k].chunk
               PROVE  gs[j].at + gs[j].size <= gs[k].at
    BY <1>7 DEF BlocksOrdered
  <2>1. j \in 1..Len(a.given)
    BY <1>9, <1>1
  <2>2. CASE k = Len(a.given) + 1
    <3>1. gs[k].at = at /\ gs[k].chunk = last
      BY <2>2, <1>9 DEF blk
    <3>2. a.given[j].at + a.given[j].size <= Cur(a).used
      BY <3>1, <2>1, <1>13, <1>2
    <3>3. gs[j] = a.given[j] /\ a.given[j].at \in Nat /\ a.given[j].size \in Nat
      BY <2>1, <1>13 DEF Block
    <3>4. at \in Nat /\ Cur(a).used <= at
      BY <1>3
    <3>5. Cur(a).used \in Nat
      BY <1>2
    <3>6. a.given[j].at + a.given[j].size <= at
      BY <3>2, <3>3, <3>4, <3>5, SMTT(30)
    <3> QED
      BY <3>1, <3>3, <3>6
  <2>3. CASE k # Len(a.given) + 1
    <3>1. k \in 1..Len(a.given)
      BY <2>3, <1>9, <1>1
    <3> QED
      BY <3>1, <2>1, <1>13 DEF BlocksOrdered
  <2> QED
    BY <2>2, <2>3
<1>16. WithinLimit(b)
  <2>1. Cur(b).cap = Cur(a).cap /\ b.chunks[1].cap = a.chunks[1].cap
    BY <1>7, <1>8, <1>11, <1>1, <1>2 DEF Cur
  <2> QED
    BY <2>1, <1>7 DEF WithinLimit
<1> QED
  BY <1>12, <1>14, <1>15, <1>16 DEF b

(* A chunk added by arena_grow: only what is needed was compared with the     *)
(* limit.                                                                     *)
LEMMA GrowInv ==
  ASSUME NEW a, NEW n \in Nat, n > 0,
         ArenaShape(a), BlocksInside(a), BlocksOrdered(a), WithinLimit(a), CanGrow(a, n)
  PROVE  LET b == arena_grow(a, n)
         IN  ArenaShape(b) /\ BlocksInside(b) /\ BlocksOrdered(b) /\ WithinLimit(b)
<1> DEFINE last == Len(a.chunks)
           cap == NextCap(a, n)
           new == [cap |-> cap, used |-> 0]
           b == arena_grow(a, n)
           cs == Append(a.chunks, new)
<1>1. /\ a.chunks \in Seq(Chunk) /\ last \in Nat /\ last >= 1 /\ a.given \in Seq(Block)
      /\ a.total \in Nat /\ a.hard_cap \in Nat
  BY DEF ArenaShape
<1>2. Cur(a).cap \in Nat
  <2>1. last \in 1..Len(a.chunks)
    BY <1>1
  <2>2. a.chunks[last] \in Chunk
    BY <1>1, <2>1
  <2> QED
    BY <2>2 DEF Cur, Chunk
<1>3. /\ cap \in Nat /\ cap <= CERCO_ARENA_CHUNK_MAX
      /\ cap <= 2 * Cur(a).cap \/ cap <= n
  BY <1>2 DEF NextCap, MinOf, MaxOf, CERCO_ARENA_CHUNK_MAX, KiB
<1>4. a.total + n <= a.hard_cap
  BY <1>1 DEF CanGrow, WithinLimit
<1>5. new \in Chunk
  BY <1>3 DEF Chunk
<1>6. b = [a EXCEPT !.chunks = cs, !.total = a.total + cap]
  BY DEF arena_grow, ArenaShape, chunk_new
<1>7. /\ b.chunks = cs /\ b.given = a.given /\ b.total = a.total + cap
      /\ b.hard_cap = a.hard_cap
  BY <1>6 DEF ArenaShape
<1>8. /\ cs \in Seq(Chunk) /\ Len(cs) = last + 1 /\ cs[last + 1] = new
      /\ \A c \in 1..last : cs[c] = a.chunks[c]
  BY <1>1, <1>5, AppendProperties
<1> HIDE DEF cs
<1>9. b \in [chunks : Seq(Chunk), total : Nat, hard_cap : Nat, oom : BOOLEAN,
            given : Seq(Block)]
  <2>1. a.total + cap \in Nat
    BY <1>1, <1>3
  <2> QED
    BY <1>6, <1>8, <2>1 DEF ArenaShape
<1>10. \A c \in 1..(last + 1) : cs[c].used <= cs[c].cap
  <2> TAKE c \in 1..(last + 1)
  <2>1. CASE c = last + 1
    BY <2>1, <1>8, <1>3
  <2>2. CASE c # last + 1
    BY <2>2, <1>8, <1>1, SMTT(30) DEF ArenaShape
  <2> QED
    BY <2>1, <2>2
<1> HIDE DEF b, new, cap
<1>11. ArenaShape(b)
  BY <1>9, <1>10, <1>7, <1>8, <1>1 DEF ArenaShape
<1>12. BlocksInside(b)
  <2> SUFFICES ASSUME NEW k \in 1..Len(a.given)
               PROVE  /\ a.given[k].at % ArenaAlign = 0
                      /\ a.given[k].chunk \in 1..(last + 1)
                      /\ a.given[k].at + a.given[k].size <= cs[a.given[k].chunk].used
    BY <1>7, <1>8 DEF BlocksInside
  <2>1. /\ a.given[k].at % ArenaAlign = 0 /\ a.given[k].chunk \in 1..last
        /\ a.given[k].at + a.given[k].size <= a.chunks[a.given[k].chunk].used
    BY DEF BlocksInside
  <2>2. a.given[k].chunk \in 1..(last + 1)
    BY <2>1, <1>1
  <2> QED
    BY <2>1, <2>2, <1>8
<1>13. BlocksOrdered(b)
  BY <1>7 DEF BlocksOrdered
<1>14. WithinLimit(b)
  <2>1. Cur(b).cap = cap /\ b.chunks[1].cap = a.chunks[1].cap
    BY <1>7, <1>8, <1>1 DEF Cur, new
  <2>2. a.total + cap < 3 * a.hard_cap
    BY <1>1, <1>2, <1>3, <1>4, SMTT(30) DEF WithinLimit
  <2>3. a.total + cap < a.hard_cap + CERCO_ARENA_CHUNK_MAX
    BY <1>1, <1>3, <1>4 DEF CERCO_ARENA_CHUNK_MAX, KiB
  <2> QED
    BY <2>1, <2>2, <2>3, <1>7, <1>1, <1>3 DEF WithinLimit
<1> QED
  BY <1>11, <1>12, <1>13, <1>14 DEF b

LEMMA ResetInv ==
  ASSUME NEW a, ArenaShape(a), WithinLimit(a)
  PROVE  LET b == cerco_arena_reset(a)
         IN  ArenaShape(b) /\ BlocksInside(b) /\ BlocksOrdered(b) /\ WithinLimit(b)
<1> DEFINE b == cerco_arena_reset(a)
           f == a.chunks[1].cap
           c == [cap |-> f, used |-> 0]
<1>1. a.chunks \in Seq(Chunk) /\ Len(a.chunks) >= 1 /\ a.hard_cap \in Nat
  BY DEF ArenaShape
<1>2. f \in Nat /\ Head(a.chunks).cap = f
  <2>1. a.chunks[1] \in Chunk
    BY <1>1
  <2> QED
    BY <1>1, <2>1 DEF Chunk
<1>3. b = [a EXCEPT !.chunks = <<c>>, !.total = f, !.oom = FALSE, !.given = <<>>]
  BY <1>2 DEF cerco_arena_reset, chunk_new, ArenaShape
<1>4. /\ b.chunks = <<c>> /\ b.given = <<>> /\ b.total = f /\ b.hard_cap = a.hard_cap
  BY <1>3 DEF ArenaShape
<1>5. c \in Chunk
  BY <1>2 DEF Chunk
<1>6. <<c>> \in Seq(Chunk) /\ Len(<<c>>) = 1 /\ <<c>>[1] = c
  BY <1>5
<1>7. <<>> \in Seq(Block) /\ Len(<<>>) = 0
  OBVIOUS
<1>8. ArenaShape(b)
  <2>1. b \in [chunks : Seq(Chunk), total : Nat, hard_cap : Nat, oom : BOOLEAN,
               given : Seq(Block)]
    BY <1>2, <1>3, <1>6, <1>7 DEF ArenaShape
  <2>2. \A k \in 1..1 : <<c>>[k].used <= <<c>>[k].cap
    BY <1>2, <1>6
  <2> HIDE DEF b, c, f
  <2> QED
    BY <2>1, <2>2, <1>4, <1>6 DEF ArenaShape
<1>9. BlocksInside(b) /\ BlocksOrdered(b)
  BY <1>4, <1>7 DEF BlocksInside, BlocksOrdered
<1>10. WithinLimit(b)
  BY <1>1, <1>2, <1>4, <1>6 DEF WithinLimit, Cur, CERCO_ARENA_CHUNK_MAX, KiB
<1> QED
  BY <1>8, <1>9, <1>10

LEMMA DenyInv ==
  ASSUME NEW a, ArenaShape(a), BlocksInside(a), BlocksOrdered(a), WithinLimit(a)
  PROVE  LET b == Deny(a)
         IN  ArenaShape(b) /\ BlocksInside(b) /\ BlocksOrdered(b) /\ WithinLimit(b)
<1> DEFINE b == Deny(a)
<1>1. /\ b.chunks = a.chunks /\ b.given = a.given /\ b.total = a.total
      /\ b.hard_cap = a.hard_cap
      /\ b \in [chunks : Seq(Chunk), total : Nat, hard_cap : Nat, oom : BOOLEAN,
                given : Seq(Block)]
  BY DEF Deny, ArenaShape
<1> HIDE DEF b
<1> QED
  BY <1>1 DEF ArenaShape, BlocksInside, BlocksOrdered, WithinLimit, Cur, b

LEMMA NextInv == ArenaInv /\ [Next]_vars => ArenaInv'
<1> SUFFICES ASSUME ArenaInv, [Next]_vars PROVE ArenaInv'
  OBVIOUS
<1>1. ASSUME NEW size \in Sizes, HandlerAllocs(size) PROVE ArenaInv'
  <2>1. MaxOf(size, 1) \in Nat
    BY RequestAssumption DEF MaxOf
  <2> QED
    BY <1>1, <2>1 DEF HandlerAllocs, ArenaInv
<1>2. CASE AllocFits
  BY <1>2, BumpInv DEF AllocFits, ArenaInv
<1>3. CASE AllocGrows
  BY <1>3, GrowInv DEF AllocGrows, ArenaInv
<1>4. CASE AllocDenied
  BY <1>4, DenyInv DEF AllocDenied, ArenaInv
<1>5. CASE RequestEnds
  BY <1>5, ResetInv DEF RequestEnds, ArenaInv
<1>6. CASE UNCHANGED vars
  BY <1>6 DEF vars, ArenaInv
<1> QED
  BY <1>1, <1>2, <1>3, <1>4, <1>5, <1>6 DEF Next, cerco_arena_alloc

(* The inductive invariant of the arena. *)
THEOREM ArenaInvariant == Spec => []ArenaInv
  BY InitInv, NextInv, PTL DEF Spec

(* Blocks handed out to one request lie inside their chunk, aligned, and      *)
(* never overlap, for every first chunk, limit and sizes (arena.c 49-64,      *)
(* 102-114).                                                                  *)
THEOREM ArenaBlocksStayApart == Spec => []ArenaBlocksApart
<1>1. ArenaInv => ArenaBlocksApart
  <2> SUFFICES ASSUME ArenaInv PROVE ArenaBlocksApart
    OBVIOUS
  <2>1. /\ arena.given \in Seq(Block) /\ arena.chunks \in Seq(Chunk)
        /\ DOMAIN arena.given = 1..Len(arena.given)
    BY DEF ArenaInv, ArenaShape
  <2>2. ASSUME NEW k \in DOMAIN arena.given
        PROVE  /\ arena.given[k].at % ArenaAlign = 0
               /\ arena.given[k].at + arena.given[k].size
                    <= arena.chunks[arena.given[k].chunk].cap
    <3> DEFINE g == arena.given[k]
    <3>1. g \in Block /\ g.chunk \in 1..Len(arena.chunks)
      BY <2>1 DEF ArenaInv, BlocksInside
    <3>2. arena.chunks[g.chunk] \in Chunk
      BY <3>1, <2>1
    <3>3. /\ g.at % ArenaAlign = 0 /\ g.at + g.size <= arena.chunks[g.chunk].used
          /\ arena.chunks[g.chunk].used <= arena.chunks[g.chunk].cap
      BY <3>1, <2>1 DEF ArenaInv, BlocksInside, ArenaShape
    <3> QED
      BY <3>1, <3>2, <3>3 DEF Block, Chunk
  <2> QED
    BY <2>1, <2>2 DEF ArenaBlocksApart, ArenaInv, BlocksOrdered
<1> QED
  BY <1>1, ArenaInvariant, PTL

(* The limit is passed (the run request_memory), and this is how far: what    *)
(* one request makes its connection hold stays below three times the limit    *)
(* and below one largest chunk more than it, also when an allocation no chunk *)
(* can hold adds chunks until it is refused (arena.c 33-64).                  *)
Overshoot ==
  /\ arena.total < 3 * arena.hard_cap
  /\ arena.total < arena.hard_cap + CERCO_ARENA_CHUNK_MAX

(* The overshoot is bounded, for every first chunk, limit and sizes.          *)
THEOREM OvershootBounded == Spec => []Overshoot
<1>1. ArenaInv => Overshoot
  BY DEF ArenaInv, WithinLimit, Overshoot
<1> QED
  BY <1>1, ArenaInvariant, PTL
=============================================================================
