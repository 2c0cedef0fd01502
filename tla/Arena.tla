------------------------------- MODULE Arena --------------------------------
(***************************************************************************)
(* The request arena (runtime/shared/arena.c): a chain of chunks, bump     *)
(* allocation in the last one, a hard cap on growing, and a reset that     *)
(* keeps the first chunk.  malloc is taken to succeed.  Offsets count from *)
(* the end of a chunk's header, which is 8-aligned, the only alignment the *)
(* runtime asks for.                                                       *)
(***************************************************************************)
EXTENDS Naturals, Sequences

KiB == 1024
CERCO_ARENA_CHUNK_MAX == 4096 * KiB
ArenaAlign == 8

MinOf(m, n) == IF m < n THEN m ELSE n
MaxOf(m, n) == IF m < n THEN n ELSE m

chunk_new(cap) == [cap |-> cap, used |-> 0]

(* "given" records the blocks handed out since the last reset. *)
cerco_arena_init(first, hard_cap) ==
  LET f == MaxOf(first, 64)
  IN  [chunks |-> <<chunk_new(f)>>, total |-> f, hard_cap |-> hard_cap,
       oom |-> FALSE, given |-> <<>>]

Cur(a) == a.chunks[Len(a.chunks)]

(* The size of the next chunk: double the last one, at least what is needed,  *)
(* at most CERCO_ARENA_CHUNK_MAX.                                             *)
NextCap(a, need) == MinOf(MaxOf(2 * Cur(a).cap, need), CERCO_ARENA_CHUNK_MAX)

CanGrow(a, need) == a.hard_cap = 0 \/ a.total + need <= a.hard_cap

arena_grow(a, need) ==
  [a EXCEPT !.chunks = Append(@, chunk_new(NextCap(a, need))),
            !.total = @ + NextCap(a, need)]

(* The first aligned offset of the current chunk, and whether size bytes fit. *)
Aligned(used) == ((used + ArenaAlign - 1) \div ArenaAlign) * ArenaAlign

Mut_FitsCur(a, size) == Cur(a).used + size <= Cur(a).cap
FitsCur(a, size) == Aligned(Cur(a).used) + size <= Cur(a).cap

Bump(a, size) ==
  LET n == Len(a.chunks)
      at == Aligned(Cur(a).used)
  IN  [a EXCEPT !.chunks[n].used = at + size,
                !.given = Append(@, [chunk |-> n, at |-> at, size |-> size])]

Deny(a) == [a EXCEPT !.oom = TRUE]

cerco_arena_reset(a) ==
  [a EXCEPT !.chunks = <<chunk_new(Head(@).cap)>>, !.total = Head(a.chunks).cap,
            !.oom = FALSE, !.given = <<>>]
=============================================================================
