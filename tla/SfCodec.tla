------------------------------ MODULE SfCodec -------------------------------
(***************************************************************************)
(* The bytes of a server-function call: encoded by the wasm client         *)
(* (runtime/client/sf.c), read by the server through the bounded reader    *)
(* (runtime/shared/wire.c, runtime/server/sf.c) and the adapters the build *)
(* generates (cli/build.c), and the answer on its way back.                *)
(*                                                                         *)
(* A byte is 0..255.  A 32-bit word is its signed value, a 64-bit word or  *)
(* double its two halves, low first; strings and byte blocks are sequences *)
(* of bytes, and a string has no byte 0.                                   *)
(***************************************************************************)
EXTENDS Integers, Sequences

CONSTANT BodyMax      \* SF_BODY_MAX: bytes of the client's call buffer

Int32 == {n \in Int : -2147483647 - 1 <= n /\ n <= 2147483647}

ASSUME BodyMaxAssumption == BodyMax \in Nat /\ BodyMax \in Int32

WT_I32 == 0
WT_I64 == 1
WT_F64 == 2
WT_BOOL == 3
WT_STR == 4
WT_BYTES == 5
Sized == {WT_STR, WT_BYTES}
Wide == {WT_I64, WT_F64}
WireType == WT_I32..WT_BYTES

(* What an argument, a return value or an error message can be; the length of *)
(* a string, block or message is below 2^31.                                  *)
Byte == 0..255
WireValue ==
  [type : {WT_I32}, val : Int32] \cup [type : {WT_BOOL}, val : {0, 1}]
  \cup [type : Wide, val : Int32 \X Int32]
  \cup {v \in [type : {WT_STR}, val : Seq(Byte \ {0})]
                \cup [type : {WT_BYTES}, val : Seq(Byte)] : Len(v.val) \in Int32}
Message == {msg \in Seq(Byte) : Len(msg) \in Int32}

put_u32(v) == << v % 256, (v \div 256) % 256, (v \div 65536) % 256, (v \div 16777216) % 256 >>
put_u64(v) == put_u32(v[1]) \o put_u32(v[2])

(* The word at a position of mem; a length whose top bit is set reads as a    *)
(* negative number here and is larger than any buffer.                        *)
get_u32(mem, at) ==
  mem[at] + 256 * mem[at + 1] + 65536 * mem[at + 2]
    + 16777216 * (IF mem[at + 3] > 127 THEN mem[at + 3] - 256 ELSE mem[at + 3])
get_u64(mem, at) == << get_u32(mem, at), get_u32(mem, at + 4) >>

(* A value on the wire. *)
cerco_w_val(v) ==
  << v.type >> \o
  (CASE v.type = WT_BOOL -> put_u32(IF v.val # 0 THEN 1 ELSE 0)
     [] v.type = WT_I32  -> put_u32(v.val)
     [] v.type \in Wide  -> put_u64(v.val)
     [] v.type \in Sized -> put_u32(Len(v.val)) \o v.val)

-----------------------------------------------------------------------------
(* Client: the call buffer, and whether a string or block did not fit in it.  *)
(* Numbers are written without a test of the space left.                      *)
cerco_sf_begin == [bytes |-> <<>>, over |-> FALSE]

Mut_cerco_sf_arg(body, v) ==
  IF v.type \in Sized /\ Len(body.bytes) + 5 + Len(v.val) > BodyMax THEN body
  ELSE [body EXCEPT !.bytes = @ \o cerco_w_val(v)]

cerco_sf_arg(body, v) ==
  IF v.type \in Sized /\ (body.over \/ Len(body.bytes) + 5 + Len(v.val) > BodyMax)
    THEN [body EXCEPT !.over = TRUE]
    ELSE [body EXCEPT !.bytes = @ \o cerco_w_val(v)]

(* The call buffer after the first k arguments, and after all of them. *)
SfBodies(args) ==
  LET body[k \in 0..Len(args)] ==
        IF k = 0 THEN cerco_sf_begin ELSE cerco_sf_arg(body[k - 1], args[k])
  IN  body
SfBody(args) == SfBodies(args)[Len(args)]

(* A call whose arguments do not fit is not sent at all. *)
Sends(args) == ~SfBody(args).over /\ Len(SfBody(args).bytes) + 4 <= BodyMax
cerco_sf_submit_raw(args) == put_u32(Len(args)) \o SfBody(args).bytes

-----------------------------------------------------------------------------
(* Server: the reader over the len bytes of the body.  mem is the body and    *)
(* what lies behind it in the request's arena.                                *)
Reader(len) == [len |-> len, pos |-> 0, err |-> FALSE]

Mut_CanTake(r, n) == ~r.err /\ 0 <= n

CanTake(r, n) == ~r.err /\ 0 <= n /\ n <= r.len - r.pos

r_take(r, n) == IF CanTake(r, n) THEN [r EXCEPT !.pos = @ + n] ELSE [r EXCEPT !.err = TRUE]

(* The value at the reader, and the reader behind it. *)
cerco_r_val(mem, r) ==
  LET r1 == r_take(r, 1)
      type == mem[r.pos + 1]
      width == IF type \in Wide THEN 8 ELSE 4
      r2 == r_take(r1, width)
      r3 == IF type \in Sized THEN r_take(r2, get_u32(mem, r1.pos + 1)) ELSE r2
      bad == [r |-> [r3 EXCEPT !.err = TRUE], v |-> [type |-> WT_I32, val |-> 0], at |-> 0]
  IN  IF r1.err \/ type > WT_BYTES \/ r2.err
        THEN [bad EXCEPT !.r = [r1 EXCEPT !.err = TRUE]]
      ELSE IF r3.err THEN bad
      ELSE [r |-> r3, at |-> r2.pos + 1,
            v |-> [type |-> type,
                   val |-> CASE type \in Wide -> get_u64(mem, r1.pos + 1)
                             [] type \in Sized -> SubSeq(mem, r2.pos + 1, r3.pos)
                             [] OTHER -> get_u32(mem, r1.pos + 1)]]

(* A C string begins at a position and ends at the first byte 0. *)
CString(mem, at) ==
  LET ends == {k \in at..Len(mem) : mem[k] = 0}
  IN  SubSeq(mem, at, (CHOOSE k \in ends : \A j \in ends : k <= j) - 1)

sf_arg_of_type(want, got) == want = got \/ {want, got} = {WT_I32, WT_BOOL}

(* The adapter of a function with the given argument types: it reads its      *)
(* arguments in turn and hands a string over as a pointer into the body.      *)
ReadArg(mem, c, want) ==
  LET g == cerco_r_val(mem, c.r)
  IN  IF c.r.err THEN c
      ELSE IF g.r.err \/ ~sf_arg_of_type(want, g.v.type)
        THEN [c EXCEPT !.r = [g.r EXCEPT !.err = TRUE]]
      ELSE [c EXCEPT !.r = g.r,
                     !.args = Append(@, [type |-> want,
                                         val |-> CASE want = WT_STR -> CString(mem, g.at)
                                                   [] want = WT_BOOL -> g.v.val % 256
                                                   [] OTHER -> g.v.val])]

(* The adapter after its first k arguments; arg_count is read and ignored. *)
Reads(types, mem, len) ==
  LET c[k \in 0..Len(types)] ==
        IF k = 0 THEN [r |-> r_take(Reader(len), 4), args |-> <<>>]
        ELSE ReadArg(mem, c[k - 1], types[k])
  IN  c

(* Bytes behind the last argument are ignored. *)
sf_run(types, mem, len) ==
  LET c == Reads(types, mem, len)[Len(types)]
  IN  IF c.r.err THEN [status |-> 400, args |-> <<>>, read |-> c.r.pos]
      ELSE [status |-> 200, args |-> c.args, read |-> c.r.pos]

Mut_sf_answer(ret) ==
  IF ret.failed THEN <<1>> \o put_u32(Len(ret.msg)) \o ret.msg
  ELSE <<0>> \o put_u32(1) \o cerco_w_val(ret.v)

(* The answer: an error and its message, or no error and one value. *)
sf_answer(ret) ==
  IF ret.failed THEN <<1>> \o put_u32(Len(ret.msg)) \o ret.msg
  ELSE <<0>> \o put_u32(0) \o put_u32(1) \o cerco_w_val(ret.v)

(* The status of a call that is not answered by sf_run: a bad id, an unknown  *)
(* function, another method, no body and so no content type, a full job       *)
(* queue; the 400 and 500 of sf_run itself; 0 from a fetch that failed and -1 *)
(* from a body the client has no room for.                                    *)
Refusals == {400, 404, 405, 415, 503, 500, 0, -1}

-----------------------------------------------------------------------------
(* Client: what becomes of the callback of a call: it is given a value, the   *)
(* server's message or a text of the client's own, or the call of it traps.   *)
Given(v) == [how |-> "value", what |-> v]
Told(msg) == [how |-> "message", what |-> msg]
Own(text) == [how |-> text, what |-> 0]
Trapped == [how |-> "trap", what |-> 0]

(* A callback is stored as a void pointer and called through the type of one  *)
(* for "as".  wasm compares the signatures; those of i32, bool and string     *)
(* callbacks are one.                                                         *)
Signature(type) == IF type \in Wide \cup {WT_BYTES} THEN type ELSE WT_I32
CallsBack(as, want, got) == IF Signature(as) = Signature(want) THEN got ELSE Trapped

(* The fetch buffer ends in a byte 0 behind the len bytes of the answer. *)
ClientMemory(data) == data \o <<0>>

(* The value at position at; only its type byte is known to be there. *)
Value(mem, at) ==
  CASE mem[at] \in Wide -> get_u64(mem, at + 1)
    [] mem[at] = WT_STR -> CString(mem, at + 5)
    [] mem[at] = WT_BYTES -> SubSeq(mem, at + 5, at + 4 + get_u32(mem, at + 1))
    [] OTHER -> get_u32(mem, at + 1)

(* want is the type the caller's stub was built for, scratch whether there is *)
(* scratch memory for a copy of the message.                                  *)
sf_done_common(status, data, want, scratch) ==
  LET len == Len(data)
      mem == ClientMemory(data)
      err_len == get_u32(mem, 2)
      vals == 6 + err_len
      Fails(got) == CallsBack(WT_I32, want, got)
  IN  IF status # 200 \/ len < 9 THEN Fails(Own("network error"))
      ELSE IF err_len < 0 \/ err_len > len THEN Fails(Own("bad response"))
      ELSE IF mem[1] # 0
        THEN Fails(IF scratch THEN Told(SubSeq(mem, 6, 5 + err_len)) ELSE Own("error"))
      ELSE IF vals + 4 > len + 1 THEN Fails(Own("bad response"))
      ELSE IF get_u32(mem, vals) < 1 \/ vals + 4 > len THEN Fails(Own("bad response"))
      ELSE IF ~sf_arg_of_type(want, mem[vals + 4]) THEN Fails(Own("type mismatch"))
      ELSE CallsBack(mem[vals + 4], want, Given(Value(mem, vals + 4)))
=============================================================================
