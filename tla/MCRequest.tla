----------------------------- MODULE MCRequest ------------------------------
(* Inputs for Request: every table of one or two overlapping entries, among    *)
(* them ones that repeat a name, go on behind a catch-all or have more names   *)
(* than are kept; paths with empty and trailing segments and at the depth      *)
(* limit, values of every wire type, and allocations that end at a boundary of *)
(* a chunk or a limit.                                                         *)
EXTENDS Request

Lit(t) == [sigil |-> "", name |-> t]
Param(n) == [sigil |-> ":", name |-> n]
Rest == [sigil |-> "*", name |-> "r"]
Patterns == { <<>>, <<Lit("a")>>, <<Param("x")>>, <<Lit("a"), Param("y")>>,
              <<Param("x"), Lit("b")>>, <<Rest>>, <<Lit("a"), Rest>>,
              <<Param("x"), Rest>>, <<Param("x"), Param("x")>>, <<Rest, Lit("a")>>,
              [k \in 1..(MaxParams + 1) |-> IF k > MaxParams THEN Param("z") ELSE Param("y")] }
Entries == [method : {"GET", "HEAD", "POST", "OPTIONS"}, segs : Patterns]
           \cup {[method |-> "GET", segs |-> <<Lit("__cerco"), Lit("404")>>]}
TablesDef == {<<e>> : e \in Entries} \cup (Entries \X Entries)

Deep(n) == [i \in 1..n |-> "b"]
PathsDef == UNION {[1..n -> {"", "A", "b"}] : n \in 1..3}
            \cup {<<"b.c">>, <<"a", "b.c">>, <<"b.c", "a">>,
                  Deep(MaxParams + 1), Deep(MaxPathSegs), Deep(MaxPathSegs + 1)}

ValuesDef ==
  [type : {WT_I32}, val : {-1, 258}] \cup [type : {WT_BOOL}, val : {0, 1}]
  \cup [type : {WT_I64, WT_F64}, val : {<<-2, 7>>}]
  \cup [type : {WT_STR}, val : {<<>>, <<65, 66>>}]
  \cup [type : {WT_BYTES}, val : {<<>>, <<0, 4>>, [k \in 1..16 |-> 1]}]
BehindDef == {<<0>>, <<67, 0>>}
MessagesDef == {<<>>, <<65, 66, 67>>, <<65, 66, 67, 68>>, [k \in 1..12 |-> 69]}

LimitsDef == {2048 * KiB, 16384 * KiB}
SizesDef == {0, 8 * KiB, 16 * KiB - 4, 1024 * KiB, 2048 * KiB, 4096 * KiB, 4096 * KiB + 1}
=============================================================================
