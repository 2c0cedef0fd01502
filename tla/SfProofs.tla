------------------------------ MODULE SfProofs ------------------------------
(***************************************************************************)
(* Proofs about the bytes of a server-function call and of its answer: for *)
(* every list of arguments and every return value or message, what is read *)
(* is what was written, and a call cut short is refused.                   *)
(***************************************************************************)
EXTENDS Request, NatSets, SequenceTheorems, TLAPS

(* The bytes of s lie in mem from position at on. *)
Holds(mem, at, s) ==
  /\ at + Len(s) - 1 <= Len(mem)
  /\ \A i \in 1..Len(s) : mem[at + i - 1] = s[i]

-----------------------------------------------------------------------------
LEMMA Joined ==
  ASSUME NEW s \in Seq(Byte), NEW t \in Seq(Byte), NEW m \in Nat, NEW n \in Nat,
         Len(s) = m, Len(t) = n
  PROVE  s \o t \in Seq(Byte) /\ Len(s \o t) = m + n
BY ConcatProperties

LEMMA HoldsConcat ==
  ASSUME NEW mem \in Seq(Byte), NEW s \in Seq(Byte), NEW t \in Seq(Byte),
         NEW at \in Nat, at >= 1, Holds(mem, at, s \o t)
  PROVE  Holds(mem, at, s) /\ Holds(mem, at + Len(s), t)
<1>1. /\ Len(s \o t) = Len(s) + Len(t) /\ Len(s) \in Nat /\ Len(t) \in Nat /\ Len(mem) \in Nat
      /\ \A i \in 1..Len(s) : (s \o t)[i] = s[i]
  BY ConcatProperties
<1>2. \A i \in 1..Len(t) : (s \o t)[Len(s) + i] = t[i]
  <2> TAKE i \in 1..Len(t)
  <2>1. Len(s) + i \in 1..(Len(s) + Len(t)) /\ Len(s) + i > Len(s) /\ Len(s) + i - Len(s) = i
    BY <1>1
  <2> QED
    BY <2>1, <1>1, ConcatProperties
<1>3. \A i \in 1..(Len(s) + Len(t)) : mem[at + i - 1] = (s \o t)[i]
  BY <1>1 DEF Holds
<1>4. Holds(mem, at, s)
  <2>1. ASSUME NEW i \in 1..Len(s) PROVE mem[at + i - 1] = s[i]
    <3>1. i \in 1..(Len(s) + Len(t))
      BY <1>1
    <3> QED
      BY <3>1, <1>1, <1>3
  <2>2. at + Len(s) - 1 <= Len(mem)
    BY <1>1 DEF Holds
  <2> QED
    BY <2>1, <2>2 DEF Holds
<1>5. Holds(mem, at + Len(s), t)
  <2>1. ASSUME NEW i \in 1..Len(t) PROVE mem[at + Len(s) + i - 1] = t[i]
    <3>1. Len(s) + i \in 1..(Len(s) + Len(t)) /\ at + (Len(s) + i) - 1 = at + Len(s) + i - 1
      BY <1>1
    <3> QED
      BY <3>1, <1>2, <1>3
  <2>2. at + Len(s) + Len(t) - 1 <= Len(mem)
    BY <1>1 DEF Holds
  <2> QED
    BY <2>1, <2>2 DEF Holds
<1> QED
  BY <1>4, <1>5

LEMMA HoldsInFront ==
  ASSUME NEW mem \in Seq(Byte), NEW back \in Seq(Byte), NEW s \in Seq(Byte),
         NEW at \in Nat, at >= 1, Holds(mem, at, s)
  PROVE  Holds(mem \o back, at, s)
<1>1. /\ Len(mem \o back) = Len(mem) + Len(back) /\ Len(mem) \in Nat /\ Len(back) \in Nat
      /\ Len(s) \in Nat /\ \A i \in 1..Len(mem) : (mem \o back)[i] = mem[i]
  BY ConcatProperties
<1>2. ASSUME NEW i \in 1..Len(s) PROVE (mem \o back)[at + i - 1] = s[i]
  <2>1. at + i - 1 \in 1..Len(mem)
    BY <1>1 DEF Holds
  <2> QED
    BY <2>1, <1>1 DEF Holds
<1> QED
  BY <1>1, <1>2 DEF Holds

LEMMA HoldsBehind ==
  ASSUME NEW mem \in Seq(Byte), NEW front \in Seq(Byte), NEW s \in Seq(Byte),
         NEW at \in Nat, at >= 1, Holds(mem, at, s)
  PROVE  Holds(front \o mem, Len(front) + at, s)
<1>1. /\ Len(front \o mem) = Len(front) + Len(mem) /\ Len(mem) \in Nat /\ Len(front) \in Nat
      /\ Len(s) \in Nat
  BY ConcatProperties
<1>2. ASSUME NEW i \in 1..Len(s) PROVE (front \o mem)[Len(front) + at + i - 1] = s[i]
  <2>1. at + i - 1 \in 1..Len(mem)
    BY <1>1 DEF Holds
  <2>2. /\ Len(front) + at + i - 1 \in 1..(Len(front) + Len(mem))
        /\ Len(front) + at + i - 1 > Len(front)
        /\ (Len(front) + at + i - 1) - Len(front) = at + i - 1
    BY <1>1, <2>1
  <2>3. (front \o mem)[Len(front) + at + i - 1] = mem[at + i - 1]
    BY <1>1, <2>2, ConcatProperties
  <2> QED
    BY <2>3 DEF Holds
<1>3. Len(front) + at + Len(s) - 1 <= Len(front \o mem)
  BY <1>1 DEF Holds
<1> QED
  BY <1>2, <1>3 DEF Holds

LEMMA HoldsItself ==
  ASSUME NEW s \in Seq(Byte)
  PROVE  Holds(s, 1, s)
BY DEF Holds

LEMMA SubSeqHolds ==
  ASSUME NEW mem \in Seq(Byte), NEW s \in Seq(Byte), NEW at \in Nat, at >= 1,
         Holds(mem, at, s)
  PROVE  SubSeq(mem, at, at + Len(s) - 1) = s
<1> DEFINE u == SubSeq(mem, at, at + Len(s) - 1)
<1>1. Len(s) \in Nat /\ Len(mem) \in Nat /\ at + Len(s) - 1 <= Len(mem)
  BY DEF Holds
<1>2. CASE Len(s) = 0
  BY <1>1, <1>2
<1>3. CASE Len(s) > 0
  <2>1. u \in Seq(Byte) /\ Len(u) = Len(s) /\ \A i \in 1..Len(s) : u[i] = mem[at + i - 1]
    BY <1>1, <1>3, SubSeqProperties
  <2>2. \A i \in 1..Len(s) : u[i] = s[i]
    BY <2>1 DEF Holds
  <2> QED
    BY <2>1, <2>2, SeqEqual
<1> QED
  BY <1>1, <1>2, <1>3

-----------------------------------------------------------------------------
(* A word is read back as it was written, the sign included. *)
LEMMA WordBytes ==
  ASSUME NEW v \in Int32
  PROVE  /\ v % 256 \in Byte /\ (v \div 256) % 256 \in Byte
         /\ (v \div 65536) % 256 \in Byte /\ (v \div 16777216) % 256 \in Byte
         /\ (v % 256) + 256 * ((v \div 256) % 256) + 65536 * ((v \div 65536) % 256)
              + 16777216 * (IF (v \div 16777216) % 256 > 127
                              THEN ((v \div 16777216) % 256) - 256
                              ELSE (v \div 16777216) % 256) = v
<1> DEFINE q1 == v \div 256
           q2 == v \div 65536
           q3 == v \div 16777216
<1>1. v \in Int /\ -2147483648 <= v /\ v <= 2147483647
  BY SMT DEF Int32
<1>2. /\ q1 \in Int /\ q2 \in Int /\ q3 \in Int
      /\ v % 256 \in Byte /\ q1 % 256 \in Byte /\ q2 % 256 \in Byte /\ q3 % 256 \in Byte
  BY <1>1, SMT DEF Byte
<1>3. /\ v = 256 * q1 + (v % 256) /\ q1 = 256 * (q1 \div 256) + (q1 % 256)
      /\ q2 = 256 * (q2 \div 256) + (q2 % 256)
  BY <1>1, <1>2, SMT
<1>4. q1 \div 256 = q2 /\ q2 \div 256 = q3
  BY <1>1, SMT
<1>5. q3 = IF q3 % 256 > 127 THEN (q3 % 256) - 256 ELSE q3 % 256
  BY <1>1, SMT
<1> HIDE DEF q1, q2, q3
<1>6. (v % 256) + 256 * (q1 % 256) + 65536 * (q2 % 256) + 16777216 * q3 = v
  BY <1>1, <1>2, <1>3, <1>4, SMT
<1> QED
  BY <1>2, <1>5, <1>6, SMT DEF q1, q2, q3

LEMMA PutWord ==
  ASSUME NEW v \in Int32
  PROVE  put_u32(v) \in Seq(Byte) /\ Len(put_u32(v)) = 4
BY WordBytes, SMT DEF put_u32

LEMMA GetWord ==
  ASSUME NEW v \in Int32, NEW mem \in Seq(Byte), NEW at \in Nat, at >= 1,
         Holds(mem, at, put_u32(v))
  PROVE  get_u32(mem, at) = v
<1> DEFINE p == put_u32(v)
<1>1. /\ p[1] = v % 256 /\ p[2] = (v \div 256) % 256
      /\ p[3] = (v \div 65536) % 256 /\ p[4] = (v \div 16777216) % 256
  BY SMT DEF put_u32
<1>2. Len(p) = 4
  BY PutWord
<1> HIDE DEF p
<1>3. \A i \in 1..4 : mem[at + i - 1] = p[i]
  BY <1>2 DEF Holds, p
<1>4. /\ mem[at] = p[1] /\ mem[at + 1] = p[2] /\ mem[at + 2] = p[3] /\ mem[at + 3] = p[4]
  <2>1. at + 1 - 1 = at /\ at + 2 - 1 = at + 1 /\ at + 3 - 1 = at + 2 /\ at + 4 - 1 = at + 3
    OBVIOUS
  <2>2. 1 \in 1..4 /\ 2 \in 1..4 /\ 3 \in 1..4 /\ 4 \in 1..4
    OBVIOUS
  <2> QED
    BY <2>1, <2>2, <1>3, Zenon
<1> QED
  BY <1>1, <1>4, WordBytes, SMT DEF get_u32

-----------------------------------------------------------------------------
(* The bytes of a value, by its type, and what is read from them. *)
Width(v) == IF v.type \in Sized THEN 5 + Len(v.val) ELSE IF v.type \in Wide THEN 9 ELSE 5

LEMMA Types ==
  ASSUME NEW v \in WireValue
  PROVE  /\ v.type \in 0..5 /\ v.type \in Byte
         /\ v.type = WT_I32 => v.val \in Int32
         /\ v.type = WT_BOOL => v.val \in {0, 1}
         /\ v.type \in Wide => v.val \in Int32 \X Int32
         /\ v.type = WT_STR => v.val \in Seq(Byte \ {0})
         /\ v.type \in Sized => v.val \in Seq(Byte) /\ Len(v.val) \in Int32 /\ Len(v.val) \in Nat
         /\ v = [type |-> v.type, val |-> v.val]
         /\ v.type \in Wide \/ v.type \in Sized \/ v.type = WT_I32 \/ v.type = WT_BOOL
         /\ ~(v.type \in Wide /\ v.type \in Sized)
<1>1. \A s : s \in Seq(Byte \ {0}) => s \in Seq(Byte) /\ Len(s) \in Nat
  BY DEF Byte
<1> QED
  BY <1>1 DEF WireValue, WT_I32, WT_I64, WT_F64, WT_BOOL, WT_STR, WT_BYTES, Wide, Sized, Byte

LEMMA WValIs ==
  ASSUME NEW v \in WireValue
  PROVE  /\ v.type = WT_I32 => cerco_w_val(v) = <<v.type>> \o put_u32(v.val)
         /\ v.type = WT_BOOL => cerco_w_val(v) = <<v.type>> \o put_u32(v.val)
         /\ v.type \in Wide =>
              cerco_w_val(v) = <<v.type>> \o (put_u32(v.val[1]) \o put_u32(v.val[2]))
         /\ v.type \in Sized =>
              cerco_w_val(v) = <<v.type>> \o (put_u32(Len(v.val)) \o v.val)
<1>1. v.type = WT_BOOL => (IF v.val # 0 THEN 1 ELSE 0) = v.val
  BY Types
<1> USE DEF cerco_w_val, WT_I32, WT_I64, WT_F64, WT_BOOL, WT_STR, WT_BYTES, Wide, Sized
<1>2. CASE v.type = WT_I32
  BY <1>2
<1>3. CASE v.type = WT_BOOL
  BY <1>1, <1>3
<1>4. CASE v.type \in Wide
  <2>1. v.type # WT_BOOL /\ v.type # WT_I32 /\ v.type \notin Sized
    BY <1>4
  <2> HIDE DEF WT_I32, WT_I64, WT_F64, WT_BOOL, WT_STR, WT_BYTES, Wide, Sized
  <2> QED
    BY <1>4, <2>1, Zenon DEF put_u64
<1>5. CASE v.type \in Sized
  <2>1. v.type # WT_BOOL /\ v.type # WT_I32 /\ v.type \notin Wide
    BY <1>5
  <2> HIDE DEF WT_I32, WT_I64, WT_F64, WT_BOOL, WT_STR, WT_BYTES, Wide, Sized
  <2> QED
    BY <1>5, <2>1, Zenon
<1> QED
  BY <1>2, <1>3, <1>4, <1>5

LEMMA WValBytes ==
  ASSUME NEW v \in WireValue
  PROVE  cerco_w_val(v) \in Seq(Byte) /\ Len(cerco_w_val(v)) = Width(v) /\ Width(v) \in Nat
<1>0. 1 \in Nat /\ 4 \in Nat /\ 4 + 4 \in Nat
  OBVIOUS
<1>1. <<v.type>> \in Seq(Byte) /\ Len(<<v.type>>) = 1
  BY Types
<1>2. CASE v.type \in Sized
  <2>1. put_u32(Len(v.val)) \in Seq(Byte) /\ Len(put_u32(Len(v.val))) = 4
    BY <1>2, Types, PutWord
  <2>2. v.val \in Seq(Byte) /\ Len(v.val) \in Nat
    BY <1>2, Types
  <2>3. /\ put_u32(Len(v.val)) \o v.val \in Seq(Byte)
        /\ Len(put_u32(Len(v.val)) \o v.val) = 4 + Len(v.val)
    BY <1>0, <2>1, <2>2, Joined, ZenonT(60)
  <2>4. /\ <<v.type>> \o (put_u32(Len(v.val)) \o v.val) \in Seq(Byte)
        /\ Len(<<v.type>> \o (put_u32(Len(v.val)) \o v.val)) = 1 + (4 + Len(v.val))
    <3>1. 4 + Len(v.val) \in Nat
      BY <2>2
    <3> DEFINE h == <<v.type>>
               t == put_u32(Len(v.val)) \o v.val
               n == 4 + Len(v.val)
    <3>2. h \in Seq(Byte) /\ Len(h) = 1 /\ t \in Seq(Byte) /\ Len(t) = n /\ n \in Nat
      BY <1>1, <2>3, <3>1
    <3> HIDE DEF h, t, n
    <3>3. h \o t \in Seq(Byte) /\ Len(h \o t) = Len(h) + Len(t)
      BY <3>2, ConcatProperties
    <3>4. Len(h \o t) = 1 + n
      BY <3>2, <3>3
    <3> QED
      BY <3>3, <3>4 DEF h, t, n
  <2>5. Width(v) = 5 + Len(v.val) /\ cerco_w_val(v) = <<v.type>> \o (put_u32(Len(v.val)) \o v.val)
    BY <1>2, WValIs DEF Width
  <2>6. 1 + (4 + Len(v.val)) = 5 + Len(v.val) /\ 5 + Len(v.val) \in Nat
    BY <2>2
  <2> QED
    BY <2>4, <2>5, <2>6
<1>3. CASE v.type \in Wide
  <2>1. v.val[1] \in Int32 /\ v.val[2] \in Int32
    BY <1>3, Types
  <2>2. /\ put_u32(v.val[1]) \in Seq(Byte) /\ Len(put_u32(v.val[1])) = 4
        /\ put_u32(v.val[2]) \in Seq(Byte) /\ Len(put_u32(v.val[2])) = 4
    BY <2>1, PutWord
  <2>3. /\ put_u32(v.val[1]) \o put_u32(v.val[2]) \in Seq(Byte)
        /\ Len(put_u32(v.val[1]) \o put_u32(v.val[2])) = 4 + 4
    <3> DEFINE h == put_u32(v.val[1])
               t == put_u32(v.val[2])
    <3>1. h \in Seq(Byte) /\ Len(h) = 4 /\ t \in Seq(Byte) /\ Len(t) = 4
      BY <2>2
    <3> HIDE DEF h, t
    <3>2. h \o t \in Seq(Byte) /\ Len(h \o t) = Len(h) + Len(t)
      BY <3>1, ConcatProperties
    <3>3. Len(h \o t) = 4 + 4
      BY <3>1, <3>2
    <3> QED
      BY <3>2, <3>3 DEF h, t
  <2>4. /\ <<v.type>> \o (put_u32(v.val[1]) \o put_u32(v.val[2])) \in Seq(Byte)
        /\ Len(<<v.type>> \o (put_u32(v.val[1]) \o put_u32(v.val[2]))) = 1 + (4 + 4)
    BY <1>0, <1>1, <2>3, Joined, ZenonT(60)
  <2>5. v.type \notin Sized
    BY <1>3, Types
  <2>6. Width(v) = 9 /\ cerco_w_val(v) = <<v.type>> \o (put_u32(v.val[1]) \o put_u32(v.val[2]))
    BY <1>3, <2>5, WValIs DEF Width
  <2>7. 1 + (4 + 4) = 9 /\ 9 \in Nat
    OBVIOUS
  <2> QED
    BY <2>4, <2>6, <2>7, Zenon
<1>4. CASE v.type = WT_I32 \/ v.type = WT_BOOL
  <2>1. v.val \in Int32
    BY <1>4, Types, SMT DEF Int32
  <2>2. put_u32(v.val) \in Seq(Byte) /\ Len(put_u32(v.val)) = 4
    BY <2>1, PutWord
  <2>3. /\ <<v.type>> \o put_u32(v.val) \in Seq(Byte)
        /\ Len(<<v.type>> \o put_u32(v.val)) = 1 + 4
    BY <1>0, <1>1, <2>2, Joined, ZenonT(60)
  <2>4. v.type \notin Sized /\ v.type \notin Wide
    BY <1>4 DEF WT_I32, WT_I64, WT_F64, WT_BOOL, WT_STR, WT_BYTES, Wide, Sized
  <2>5. Width(v) = 5 /\ cerco_w_val(v) = <<v.type>> \o put_u32(v.val)
    BY <1>4, <2>4, WValIs DEF Width
  <2>6. 1 + 4 = 5 /\ 5 \in Nat
    OBVIOUS
  <2> QED
    BY <2>3, <2>5, <2>6, Zenon
<1> QED
  BY <1>2, <1>3, <1>4, Types

LEMMA WValReads ==
  ASSUME NEW v \in WireValue, NEW mem \in Seq(Byte), NEW at \in Nat, at >= 1,
         Holds(mem, at, cerco_w_val(v))
  PROVE  /\ mem[at] = v.type
         /\ v.type = WT_I32 \/ v.type = WT_BOOL => get_u32(mem, at + 1) = v.val
         /\ v.type \in Wide => get_u64(mem, at + 1) = v.val
         /\ v.type \in Sized => get_u32(mem, at + 1) = Len(v.val) /\ Holds(mem, at + 5, v.val)
<1>1. <<v.type>> \in Seq(Byte) /\ Len(<<v.type>>) = 1 /\ <<v.type>>[1] = v.type
  BY Types
<1>2. ASSUME NEW t \in Seq(Byte), Holds(mem, at, <<v.type>> \o t)
      PROVE  mem[at] = v.type /\ Holds(mem, at + 1, t)
  <2>1. Holds(mem, at, <<v.type>>) /\ Holds(mem, at + 1, t)
    BY <1>1, <1>2, HoldsConcat
  <2>2. at + 1 - 1 = at /\ 1 \in 1..1
    OBVIOUS
  <2>3. mem[at + 1 - 1] = <<v.type>>[1]
    BY <2>1, <2>2, <1>1 DEF Holds
  <2> QED
    BY <2>1, <2>2, <2>3, <1>1
<1>3. at + 1 \in Nat /\ at + 1 >= 1 /\ at + 5 = at + 1 + 4 /\ at + 5 \in Nat /\ at + 5 >= 1
  OBVIOUS
<1>4. CASE v.type \in Sized
  <2>1. /\ put_u32(Len(v.val)) \in Seq(Byte) /\ Len(put_u32(Len(v.val))) = 4
        /\ v.val \in Seq(Byte) /\ Len(v.val) \in Int32
    BY <1>4, Types, PutWord
  <2>2. put_u32(Len(v.val)) \o v.val \in Seq(Byte)
    BY <2>1, ConcatProperties
  <2>3. mem[at] = v.type /\ Holds(mem, at + 1, put_u32(Len(v.val)) \o v.val)
    BY <1>2, <1>4, <2>2, WValIs
  <2>4. Holds(mem, at + 1, put_u32(Len(v.val))) /\ Holds(mem, at + 5, v.val)
    BY <1>3, <2>1, <2>3, HoldsConcat
  <2>5. get_u32(mem, at + 1) = Len(v.val)
    BY <1>3, <2>1, <2>4, GetWord
  <2>6. v.type \notin Wide /\ v.type # WT_I32 /\ v.type # WT_BOOL
    BY <1>4 DEF WT_I32, WT_I64, WT_F64, WT_BOOL, WT_STR, WT_BYTES, Wide, Sized
  <2> QED
    BY <2>3, <2>4, <2>5, <2>6
<1>5. CASE v.type \in Wide
  <2>1. v.val[1] \in Int32 /\ v.val[2] \in Int32 /\ v.val = <<v.val[1], v.val[2]>>
    BY <1>5, Types
  <2>2. /\ put_u32(v.val[1]) \in Seq(Byte) /\ Len(put_u32(v.val[1])) = 4
        /\ put_u32(v.val[2]) \in Seq(Byte)
    BY <2>1, PutWord
  <2>3. put_u32(v.val[1]) \o put_u32(v.val[2]) \in Seq(Byte)
    BY <2>2, ConcatProperties
  <2>4. mem[at] = v.type /\ Holds(mem, at + 1, put_u32(v.val[1]) \o put_u32(v.val[2]))
    BY <1>2, <1>5, <2>3, WValIs
  <2>5. Holds(mem, at + 1, put_u32(v.val[1])) /\ Holds(mem, at + 1 + 4, put_u32(v.val[2]))
    BY <1>3, <2>2, <2>4, HoldsConcat
  <2>6. get_u32(mem, at + 1) = v.val[1] /\ get_u32(mem, at + 1 + 4) = v.val[2]
    BY <1>3, <2>1, <2>5, GetWord
  <2>7. v.type \notin Sized /\ v.type # WT_I32 /\ v.type # WT_BOOL
    BY <1>5 DEF WT_I32, WT_I64, WT_F64, WT_BOOL, WT_STR, WT_BYTES, Wide, Sized
  <2> QED
    BY <2>1, <2>4, <2>6, <2>7 DEF get_u64
<1>6. CASE v.type = WT_I32 \/ v.type = WT_BOOL
  <2>1. v.val \in Int32
    BY <1>6, Types, SMT DEF Int32
  <2>2. put_u32(v.val) \in Seq(Byte)
    BY <2>1, PutWord
  <2>3. mem[at] = v.type /\ Holds(mem, at + 1, put_u32(v.val))
    BY <1>2, <1>6, <2>2, WValIs
  <2>4. get_u32(mem, at + 1) = v.val
    BY <1>3, <2>1, <2>3, GetWord
  <2>5. v.type \notin Sized /\ v.type \notin Wide
    BY <1>6 DEF WT_I32, WT_I64, WT_F64, WT_BOOL, WT_STR, WT_BYTES, Wide, Sized
  <2> QED
    BY <2>3, <2>4, <2>5
<1> QED
  BY <1>4, <1>5, <1>6, Types

-----------------------------------------------------------------------------
LEMMA JoinedLen ==
  ASSUME NEW s \in Seq(Byte), NEW t \in Seq(Byte)
  PROVE  s \o t \in Seq(Byte) /\ Len(s \o t) = Len(s) + Len(t)
BY ConcatProperties

(* A C string begins with the bytes that lie there, and is no longer when a   *)
(* byte 0 follows them.                                                       *)
LEMMA CStringIs ==
  ASSUME NEW mem \in Seq(Byte), NEW s \in Seq(Byte \ {0}), NEW at \in Nat, at >= 1,
         Holds(mem, at, s), \E k \in at..Len(mem) : mem[k] = 0
  PROVE  /\ CString(mem, at) \in Seq(Byte)
         /\ SubSeq(CString(mem, at), 1, Len(s)) = s
         /\ at + Len(s) <= Len(mem) /\ mem[at + Len(s)] = 0 => CString(mem, at) = s
<1> DEFINE ends == {k \in at..Len(mem) : mem[k] = 0}
           e == CHOOSE k \in ends : \A j \in ends : k <= j
<1>1. Len(mem) \in Nat /\ Len(s) \in Nat /\ s \in Seq(Byte)
  BY DEF Byte
<1>2. ends \subseteq Nat /\ ends # {}
  BY <1>1
<1>3. e \in ends /\ \A j \in ends : e <= j
  BY <1>2, LeastNat, Zenon
<1>4. e \in Nat /\ at <= e /\ e <= Len(mem) /\ mem[e] = 0
  BY <1>1, <1>3
<1>5. CString(mem, at) = SubSeq(mem, at, e - 1)
  BY DEF CString
<1> HIDE DEF e, ends
<1>6. e >= at + Len(s)
  <2> SUFFICES ASSUME e < at + Len(s) PROVE FALSE
    BY <1>1, <1>4
  <2>1. e - at + 1 \in 1..Len(s) /\ at + (e - at + 1) - 1 = e
    BY <1>1, <1>4
  <2>2. mem[e] = s[e - at + 1]
    BY <2>1 DEF Holds
  <2>3. s[e - at + 1] \in Byte \ {0}
    BY <2>1
  <2> QED
    BY <1>4, <2>2, <2>3
<1>7. SubSeq(mem, at, at + Len(s) - 1) = s
  BY <1>1, SubSeqHolds
<1>8. at + Len(s) <= Len(mem) /\ mem[at + Len(s)] = 0 => CString(mem, at) = s
  <2> SUFFICES ASSUME at + Len(s) <= Len(mem), mem[at + Len(s)] = 0 PROVE CString(mem, at) = s
    OBVIOUS
  <2>1. at + Len(s) \in ends
    BY <1>1 DEF ends
  <2>2. e = at + Len(s)
    BY <1>1, <1>3, <1>4, <1>6, <2>1
  <2> QED
    BY <1>5, <1>7, <2>2
<1>9. CString(mem, at) \in Seq(Byte) /\ SubSeq(CString(mem, at), 1, Len(s)) = s
  <2> DEFINE c == SubSeq(mem, at, e - 1)
             d == SubSeq(c, 1, Len(s))
  <2>1. \A i \in at..(e - 1) : mem[i] \in Byte
    BY <1>1, <1>4
  <2>2. /\ c \in Seq(Byte) /\ Len(c) = e - at
        /\ \A i \in 1..(e - at) : c[i] = mem[at + i - 1]
    BY <1>1, <1>4, <2>1, SubSeqProperties
  <2> HIDE DEF c
  <2>3. \A i \in 1..Len(s) : c[i] \in Byte /\ c[i] = s[i]
    <3> TAKE i \in 1..Len(s)
    <3>1. i \in 1..(e - at)
      BY <1>1, <1>4, <1>6
    <3>2. c[i] = mem[at + i - 1] /\ mem[at + i - 1] = s[i]
      BY <2>2, <3>1 DEF Holds
    <3> QED
      BY <1>1, <3>2
  <2>4. d \in Seq(Byte) /\ Len(d) = Len(s) /\ \A i \in 1..Len(s) : d[i] = s[i]
    BY <1>1, <2>3, SubSeqProperties
  <2>5. d = s
    BY <1>1, <2>4, SeqEqual
  <2> QED
    BY <1>5, <2>2, <2>5 DEF c
<1> QED
  BY <1>8, <1>9

-----------------------------------------------------------------------------
(* The value the caller is given, when the answer holds it. *)
LEMMA ValueIs ==
  ASSUME NEW v \in WireValue, NEW mem \in Seq(Byte), NEW at \in Nat, at >= 1,
         Holds(mem, at, cerco_w_val(v)),
         at + Width(v) <= Len(mem), mem[at + Width(v)] = 0
  PROVE  Value(mem, at) = v.val
<1>1. mem[at] = v.type
  BY WValReads
<1>2. CASE v.type \in Wide
  <2>1. get_u64(mem, at + 1) = v.val
    BY <1>2, WValReads
  <2>2. v.type # WT_STR /\ v.type # WT_BYTES
    BY <1>2 DEF WT_I64, WT_F64, WT_STR, WT_BYTES, Wide
  <2> QED
    BY <1>1, <1>2, <2>1, <2>2, Zenon DEF Value
<1>3. CASE v.type = WT_I32 \/ v.type = WT_BOOL
  <2>1. v.type \notin Wide /\ v.type # WT_STR /\ v.type # WT_BYTES
    BY <1>3 DEF WT_I32, WT_I64, WT_F64, WT_BOOL, WT_STR, WT_BYTES, Wide
  <2> QED
    BY <1>1, <1>3, <2>1, WValReads, Zenon DEF Value
<1>4. CASE v.type \in Sized
  <2>1. v.type \notin Wide
    BY <1>4, Types
  <2>2. v.val \in Seq(Byte) /\ Len(v.val) \in Nat /\ Len(mem) \in Nat
    BY <1>4, Types
  <2>3. get_u32(mem, at + 1) = Len(v.val) /\ Holds(mem, at + 5, v.val)
    BY <1>4, WValReads
  <2>4. Width(v) = 5 + Len(v.val)
    BY <1>4 DEF Width
  <2>5. CASE v.type = WT_STR
    <3>1. v.val \in Seq(Byte \ {0})
      BY <2>5, Types
    <3> DEFINE n == Len(v.val)
    <3>a. n \in Nat /\ Width(v) = 5 + n
      BY <2>2, <2>4
    <3> HIDE DEF n
    <3>b. at + Width(v) = at + 5 + n /\ at + 5 \in Nat /\ at + 5 >= 1
      BY <3>a
    <3>c. at + 5 + n <= Len(mem) /\ mem[at + 5 + n] = 0
      BY <3>b
    <3>d. at + 5 + n \in (at + 5)..Len(mem)
      BY <2>2, <3>a, <3>c
    <3>2. /\ at + 5 \in Nat /\ at + 5 >= 1 /\ at + 5 + Len(v.val) <= Len(mem)
          /\ mem[at + 5 + Len(v.val)] = 0 /\ at + 5 + Len(v.val) \in (at + 5)..Len(mem)
      BY <3>b, <3>c, <3>d DEF n
    <3>3. CString(mem, at + 5) = v.val
      BY <2>3, <3>1, <3>2, CStringIs
    <3>4. mem[at] \notin Wide /\ mem[at] = WT_STR
      BY <1>1, <2>1, <2>5
    <3>5. WT_STR # WT_BYTES
      BY DEF WT_STR, WT_BYTES
    <3> QED
      BY <3>3, <3>4, <3>5, Zenon DEF Value
  <2>6. CASE v.type = WT_BYTES
    <3>1. v.type # WT_STR
      BY <2>6 DEF WT_STR, WT_BYTES
    <3> DEFINE n == Len(v.val)
               b == at + 5
    <3>a. n \in Nat
      BY <2>2
    <3> HIDE DEF n
    <3>2. at + 4 + n = at + 5 + n - 1 /\ b \in Nat /\ b >= 1
      BY <3>a
    <3> HIDE DEF b
    <3>b. SubSeq(mem, b, b + Len(v.val) - 1) = v.val
      BY <2>2, <2>3, <3>2, SubSeqHolds DEF b
    <3>3. SubSeq(mem, at + 5, at + 4 + Len(v.val)) = v.val
      BY <3>2, <3>b DEF b, n
    <3> QED
      BY <1>1, <2>1, <2>3, <2>6, <3>1, <3>3, Zenon DEF Value
  <2> QED
    BY <1>4, <2>5, <2>6 DEF Sized
<1> QED
  BY <1>2, <1>3, <1>4, Types

(* Types that stand for each other have callbacks of one signature. *)
LEMMA WidenedSignature ==
  ASSUME NEW wanted, NEW got, sf_arg_of_type(wanted, got)
  PROVE  Signature(got) = Signature(wanted)
<1>1. CASE wanted = got
  BY <1>1
<1>2. CASE {wanted, got} = {WT_I32, WT_BOOL}
  <2>1. wanted \in {WT_I32, WT_BOOL} /\ got \in {WT_I32, WT_BOOL}
    BY <1>2, Zenon
  <2> QED
    BY <2>1 DEF Signature, Wide, WT_I32, WT_BOOL, WT_I64, WT_F64, WT_BYTES
<1> QED
  BY <1>1, <1>2 DEF sf_arg_of_type

LEMMA FailureIsNoValue ==
  ASSUME NEW as, NEW wanted, NEW got, got.how # "value"
  PROVE  CallsBack(as, wanted, got).how # "value"
BY DEF CallsBack, Trapped

LEMMA OwnIsNoValue ==
  /\ Own("network error").how # "value" /\ Own("type mismatch").how # "value"
  /\ Own("error").how # "value" /\ \A msg : Told(msg).how # "value"
BY DEF Own, Told

(* What becomes of the callback when the call was run. *)
Ran(ret, wanted, scratch) == sf_done_common(200, sf_answer(ret), wanted, scratch)

LEMMA ValueArrives ==
  ASSUME NEW v \in WireValue, NEW ret, ~ret.failed, ret.v = v, NEW wanted, NEW scratch
  PROVE  /\ sf_arg_of_type(wanted, v.type) => Ran(ret, wanted, scratch) = Given(v.val)
         /\ ~sf_arg_of_type(wanted, v.type) => Ran(ret, wanted, scratch).how # "value"
<1> DEFINE w == cerco_w_val(v)
           h == <<0>>
           z == put_u32(0)
           o == put_u32(1)
           d1 == h \o z
           d2 == d1 \o o
           data == d2 \o w
           mem == data \o <<0>>
<1>0. 1 \in Nat /\ 1 >= 1
  OBVIOUS
<1>1. w \in Seq(Byte) /\ Len(w) = Width(v) /\ Width(v) \in Nat /\ Width(v) >= 5
  <2>1. w \in Seq(Byte) /\ Len(w) = Width(v) /\ Width(v) \in Nat
    BY WValBytes
  <2>2. Width(v) >= 5
    BY Types DEF Width
  <2> QED
    BY <2>1, <2>2
<1>2. 0 \in Byte /\ 1 \in Byte /\ 0 \in Int32 /\ 1 \in Int32
  BY SMT DEF Byte, Int32
<1>3. /\ h \in Seq(Byte) /\ Len(h) = 1 /\ h[1] = 0
      /\ z \in Seq(Byte) /\ Len(z) = 4 /\ o \in Seq(Byte) /\ Len(o) = 4
  BY <1>2, PutWord
<1>4. sf_answer(ret) = data
  BY DEF sf_answer
<1>5. <<0>> \in Seq(Byte) /\ Len(<<0>>) = 1 /\ <<0>>[1] = 0
  BY <1>2
<1> HIDE DEF w, h, z, o
<1>6. d1 \in Seq(Byte) /\ Len(d1) = 5
  <2>1. d1 \in Seq(Byte) /\ Len(d1) = Len(h) + Len(z)
    BY <1>3, JoinedLen
  <2> QED
    BY <2>1, <1>3
<1>7. d2 \in Seq(Byte) /\ Len(d2) = 9
  <2> HIDE DEF d1
  <2>1. d2 \in Seq(Byte) /\ Len(d2) = Len(d1) + Len(o)
    BY <1>3, <1>6, JoinedLen
  <2> QED
    BY <2>1, <1>3, <1>6
<1>8. data \in Seq(Byte) /\ Len(data) = 9 + Width(v)
  <2> HIDE DEF d1, d2
  <2>1. data \in Seq(Byte) /\ Len(data) = Len(d2) + Len(w)
    BY <1>1, <1>7, JoinedLen
  <2> QED
    BY <2>1, <1>1, <1>7
<1>9. mem \in Seq(Byte) /\ Len(mem) = 10 + Width(v) /\ mem[10 + Width(v)] = 0
  <2> DEFINE b == <<0>>
  <2>1. b \in Seq(Byte) /\ Len(b) = 1 /\ b[1] = 0
    BY <1>5
  <2> HIDE DEF d1, d2, data, b
  <2>2. data \o b \in Seq(Byte) /\ Len(data \o b) = 10 + Width(v)
    <3>1. data \o b \in Seq(Byte) /\ Len(data \o b) = Len(data) + Len(b)
      BY <1>8, <2>1, JoinedLen
    <3> QED
      BY <1>1, <1>8, <2>1, <3>1
  <2>3. (data \o b)[10 + Width(v)] = b[1]
    <3>1. /\ 10 + Width(v) \in 1..(Len(data) + Len(b)) /\ ~(10 + Width(v) <= Len(data))
          /\ 10 + Width(v) - Len(data) = 1
      BY <1>1, <1>8, <2>1
    <3> QED
      BY <1>8, <2>1, <3>1, ConcatProperties
  <2> QED
    BY <2>1, <2>2, <2>3 DEF b
<1>10. Holds(mem, 1, h) /\ Holds(mem, 2, z) /\ Holds(mem, 6, o) /\ Holds(mem, 10, w)
  <2> HIDE DEF d1, d2, data, mem
  <2>1. Holds(mem, 1, data)
    BY <1>0, <1>5, <1>8, HoldsItself, HoldsInFront, Zenon DEF mem
  <2>2. Holds(mem, 1, d2) /\ Holds(mem, 1 + Len(d2), w)
    BY <1>0, <2>1, <1>1, <1>7, <1>9, HoldsConcat, Zenon DEF data
  <2>3. Holds(mem, 1, d1) /\ Holds(mem, 1 + Len(d1), o)
    BY <1>0, <2>2, <1>3, <1>6, <1>9, HoldsConcat, Zenon DEF d2
  <2>4. Holds(mem, 1, h) /\ Holds(mem, 1 + Len(h), z)
    BY <1>0, <2>3, <1>3, <1>9, HoldsConcat, Zenon DEF d1
  <2> QED
    BY <2>2, <2>3, <2>4, <1>3, <1>6, <1>7
<1> HIDE DEF d1, d2, data, mem
<1>11. mem[1] = 0
  <2>1. 1 \in 1..Len(h) /\ 1 + 1 - 1 = 1
    BY <1>3
  <2> QED
    BY <2>1, <1>3, <1>10 DEF Holds
<1>12. get_u32(mem, 2) = 0 /\ get_u32(mem, 6) = 1
  BY <1>2, <1>9, <1>10, GetWord DEF z, o
<1>13. mem[10] = v.type /\ Value(mem, 10) = v.val
  <2>1. mem[10] = v.type
    BY <1>9, <1>10, WValReads DEF w
  <2> QED
    BY <2>1, <1>1, <1>9, <1>10, ValueIs DEF w
<1>15. /\ Len(data) >= 9 /\ 200 = 200 /\ ~(Len(data) < 9) /\ 6 + 0 = 6 /\ 6 + 4 = 10
       /\ ~(0 < 0 \/ 0 > Len(data)) /\ ~(10 > Len(data) + 1) /\ ~(1 < 1 \/ 10 > Len(data))
  BY <1>1, <1>8
<1>16. ClientMemory(data) = mem
  BY DEF ClientMemory, mem
<1> DEFINE got == Ran(ret, wanted, scratch)
<1>17. /\ sf_arg_of_type(wanted, v.type) => got = CallsBack(v.type, wanted, Given(v.val))
       /\ ~sf_arg_of_type(wanted, v.type) => got = CallsBack(WT_I32, wanted, Own("type mismatch"))
  BY <1>4, <1>11, <1>12, <1>13, <1>15, <1>16, Zenon DEF sf_done_common, Ran
<1> HIDE DEF got
<1>18. CASE sf_arg_of_type(wanted, v.type)
  BY <1>17, <1>18, WidenedSignature DEF CallsBack, got
<1>19. CASE ~sf_arg_of_type(wanted, v.type)
  BY <1>17, <1>19, FailureIsNoValue, OwnIsNoValue DEF got
<1> QED
  BY <1>18, <1>19

LEMMA MessageIsNoValue ==
  ASSUME NEW msg \in Message, NEW ret, ret.failed, ret.msg = msg, NEW wanted, NEW scratch
  PROVE  Ran(ret, wanted, scratch).how # "value"
<1> DEFINE h == <<1>>
           n == put_u32(Len(msg))
           d1 == h \o n
           data == d1 \o msg
           mem == data \o <<0>>
<1>0. 1 \in Nat /\ 1 >= 1
  OBVIOUS
<1>1. msg \in Seq(Byte) /\ Len(msg) \in Nat /\ Len(msg) \in Int32
  BY DEF Message
<1>2. 0 \in Byte /\ 1 \in Byte
  BY SMT DEF Byte
<1>3. h \in Seq(Byte) /\ Len(h) = 1 /\ h[1] = 1 /\ n \in Seq(Byte) /\ Len(n) = 4
  BY <1>1, <1>2, PutWord
<1>4. sf_answer(ret) = data
  BY DEF sf_answer
<1>5. <<0>> \in Seq(Byte)
  BY <1>2
<1> HIDE DEF h, n
<1>6. d1 \in Seq(Byte) /\ Len(d1) = 5
  <2>1. d1 \in Seq(Byte) /\ Len(d1) = Len(h) + Len(n)
    BY <1>3, JoinedLen
  <2> QED
    BY <2>1, <1>3
<1>7. data \in Seq(Byte) /\ Len(data) = 5 + Len(msg)
  <2> HIDE DEF d1
  <2>1. data \in Seq(Byte) /\ Len(data) = Len(d1) + Len(msg)
    BY <1>1, <1>6, JoinedLen
  <2> QED
    BY <2>1, <1>1, <1>6
<1>8. mem \in Seq(Byte)
  BY <1>5, <1>7, ConcatProperties
<1>9. Holds(mem, 1, h) /\ Holds(mem, 2, n) /\ Holds(mem, 6, msg)
  <2> HIDE DEF d1, data, mem
  <2>1. Holds(mem, 1, data)
    BY <1>0, <1>5, <1>7, HoldsItself, HoldsInFront, Zenon DEF mem
  <2>2. Holds(mem, 1, d1) /\ Holds(mem, 1 + Len(d1), msg)
    BY <1>0, <2>1, <1>1, <1>6, <1>8, HoldsConcat, Zenon DEF data
  <2>3. Holds(mem, 1, h) /\ Holds(mem, 1 + Len(h), n)
    BY <1>0, <2>2, <1>3, <1>8, HoldsConcat, Zenon DEF d1
  <2> QED
    BY <2>2, <2>3, <1>3, <1>6
<1> HIDE DEF d1, data, mem
<1>10. mem[1] = 1
  <2>1. 1 \in 1..Len(h) /\ 1 + 1 - 1 = 1
    BY <1>3
  <2> QED
    BY <2>1, <1>3, <1>9 DEF Holds
<1>11. get_u32(mem, 2) = Len(msg)
  BY <1>1, <1>8, <1>9, GetWord DEF n
<1>12. SubSeq(mem, 6, 5 + Len(msg)) = msg
  <2>1. 6 + Len(msg) - 1 = 5 + Len(msg)
    BY <1>1
  <2> QED
    BY <2>1, <1>1, <1>8, <1>9, SubSeqHolds
<1>13. ClientMemory(data) = mem
  BY DEF ClientMemory, mem
<1>14. CASE Len(msg) < 4
  <2>1. Len(data) < 9
    BY <1>1, <1>7, <1>14
  <2>2. Ran(ret, wanted, scratch) = CallsBack(WT_I32, wanted, Own("network error"))
    BY <1>4, <2>1, Zenon DEF sf_done_common, Ran
  <2> QED
    BY <2>2, FailureIsNoValue, OwnIsNoValue
<1>15. CASE ~(Len(msg) < 4)
  <2>1. ~(Len(data) < 9) /\ 200 = 200 /\ ~(Len(msg) < 0 \/ Len(msg) > Len(data)) /\ 1 # 0
    BY <1>1, <1>7, <1>15
  <2> DEFINE told == IF scratch THEN Told(msg) ELSE Own("error")
  <2>2. Ran(ret, wanted, scratch) = CallsBack(WT_I32, wanted, told)
    BY <1>4, <1>10, <1>11, <1>12, <1>13, <2>1, Zenon DEF sf_done_common, Ran
  <2>3. told.how # "value"
    BY OwnIsNoValue
  <2> HIDE DEF told
  <2> QED
    BY <2>2, <2>3, FailureIsNoValue
<1> QED
  BY <1>14, <1>15

-----------------------------------------------------------------------------
(* The inputs stay as they were given. *)
InputOK ==
  /\ kind = "call" => input \in [args : ArgLists, behind : Behind]
  /\ kind = "answer" => input \in Answers

LEMMA InputStays == Spec => []InputOK
<1>1. Init => InputOK
  BY DEF Init, InputOK
<1>2. InputOK /\ [Next]_vars => InputOK'
  <2> SUFFICES ASSUME InputOK, [Next]_vars PROVE InputOK'
    OBVIOUS
  <2>1. kind' = kind /\ input' = input
    BY DEF Next, vars, HandlerAllocs, cerco_arena_alloc, AllocFits, AllocGrows, AllocDenied,
       RequestEnds
  <2> QED
    BY <2>1 DEF InputOK
<1> QED
  BY <1>1, <1>2, PTL DEF Spec

(* A value that was returned reaches a callback for its type exactly, and no  *)
(* error, refusal or value of another type is delivered as a value, for all   *)
(* values, messages and types (server sf.c 44-152; client sf.c 147-220).      *)
THEOREM AnswersArrive == Spec => []SfAnswerArrives
<1>1. InputOK => SfAnswerArrives
  <2> SUFFICES ASSUME InputOK, kind = "answer" PROVE SfAnswerArrives
    BY DEF SfAnswerArrives
  <2>0. PICK ret, wanted, scratch, got :
          ret = input.ret /\ wanted = input.want /\ scratch = input.scratch /\ got = Delivered
    OBVIOUS
  <2>1. input \in Answers /\ ret \in Returns
    BY <2>0 DEF InputOK, Answers
  <2>2. CASE input.status # 200
    <3>1. got = CallsBack(WT_I32, wanted, Own("network error"))
      BY <2>0, <2>2 DEF Delivered, sf_done_common
    <3>2. got.how # "value"
      BY <3>1, FailureIsNoValue, OwnIsNoValue
    <3> QED
      BY <2>0, <2>2, <3>2 DEF SfAnswerArrives
  <2>3. CASE input.status = 200 /\ ret \in [failed : {FALSE}, v : Values]
    <3>1. ~ret.failed /\ ret.v \in WireValue
      BY <2>3, WireAssumption
    <3>2. got = Ran(ret, wanted, scratch)
      BY <2>0, <2>3 DEF Delivered, Answer, Ran
    <3>3. CASE sf_arg_of_type(wanted, ret.v.type)
      <4>1. got = Given(ret.v.val)
        BY <3>1, <3>2, <3>3, ValueArrives
      <4>2. got.how = "value" /\ got.what = ret.v.val
        BY <4>1 DEF Given
      <4> QED
        BY <2>0, <2>3, <3>1, <3>3, <4>2 DEF SfAnswerArrives
    <3>4. CASE ~sf_arg_of_type(wanted, ret.v.type)
      <4>1. got.how # "value"
        BY <3>1, <3>2, <3>4, ValueArrives
      <4> QED
        BY <2>0, <3>4, <4>1 DEF SfAnswerArrives
    <3> QED
      BY <3>3, <3>4
  <2>4. CASE input.status = 200 /\ ret \in [failed : {TRUE}, msg : Messages]
    <3>1. ret.failed /\ ret.msg \in Message
      BY <2>4, WireAssumption
    <3>2. got = Ran(ret, wanted, scratch)
      BY <2>0, <2>4 DEF Delivered, Answer, Ran
    <3>3. got.how # "value"
      BY <3>1, <3>2, MessageIsNoValue
    <3> QED
      BY <2>0, <3>1, <3>3 DEF SfAnswerArrives
  <2> QED
    BY <2>1, <2>2, <2>3, <2>4 DEF Returns
<1> QED
  BY <1>1, InputStays, PTL

-----------------------------------------------------------------------------

(* The call buffer, argument by argument. *)
LEMMA BodiesTurn ==
  ASSUME NEW args, Len(args) \in Nat
  PROVE  /\ SfBodies(args)[0] = cerco_sf_begin
         /\ \A k \in 1..Len(args) : SfBodies(args)[k] = cerco_sf_arg(SfBodies(args)[k - 1], args[k])
<1> DEFINE n == Len(args)
           T(f, k) == IF k = 0 THEN cerco_sf_begin
                      ELSE cerco_sf_arg(f[k - 1], args[k])
           S == {m \in 0..n : \E f : f = [k \in 0..m |-> T(f, k)]}
<1>1. n \in Nat
  OBVIOUS
<1>2. SfBodies(args) = CHOOSE f : f = [k \in 0..n |-> T(f, k)]
  BY DEF SfBodies
<1> HIDE DEF n
<1>3. 0 \in S
  <2> DEFINE g == [k \in 0..0 |-> cerco_sf_begin]
  <2>1. g = [k \in 0..0 |-> T(g, k)]
    OBVIOUS
  <2>2. \E f : f = [k \in 0..0 |-> T(f, k)]
    BY <2>1
  <2> QED
    BY <1>1, <2>2
<1>4. ASSUME NEW m \in 0..n, m \in S, m < n PROVE m + 1 \in S
  <2> HIDE DEF T
  <2>1. PICK f : f = [k \in 0..m |-> T(f, k)]
    BY <1>4
  <2> DEFINE g == [k \in 0..(m + 1) |-> IF k <= m THEN f[k] ELSE T(f, m + 1)]
  <2>2. ASSUME NEW k \in 0..(m + 1) PROVE g[k] = T(g, k)
    <3>1. CASE k = 0
      <4>1. g[0] = f[0] /\ f[0] = T(f, 0)
        BY <1>1, <2>1
      <4> QED
        BY <3>1, <4>1 DEF T
    <3>2. CASE k \in 1..m
      <4>1. k - 1 \in 0..m /\ k - 1 \in 0..(m + 1) /\ k - 1 <= m /\ k <= m
        BY <1>1, <3>2
      <4>2. g[k - 1] = f[k - 1]
        BY <4>1
      <4>3. g[k] = f[k] /\ f[k] = T(f, k)
        BY <2>1, <3>2, <4>1
      <4>4. T(g, k) = T(f, k)
        BY <4>2 DEF T
      <4> QED
        BY <4>3, <4>4
    <3>3. CASE k = m + 1
      <4>1. k - 1 \in 0..(m + 1) /\ k - 1 <= m /\ ~(k <= m)
        BY <1>1, <3>3
      <4>2. g[k - 1] = f[k - 1]
        BY <4>1
      <4>3. g[k] = T(f, k)
        BY <3>3, <4>1
      <4>4. T(g, k) = T(f, k)
        BY <4>2 DEF T
      <4> QED
        BY <4>3, <4>4
    <3> QED
      BY <1>1, <3>1, <3>2, <3>3
  <2>3. g = [k \in 0..(m + 1) |-> T(g, k)]
    BY <2>2
  <2>4. m + 1 \in 0..n
    BY <1>1, <1>4
  <2> HIDE DEF g
  <2>5. \E h : h = [k \in 0..(m + 1) |-> T(h, k)]
    BY <2>3
  <2> QED
    BY <2>4, <2>5
<1>5. n \in S
  <2> HIDE DEF S
  <2>1. \A k \in 0..n : k \in S
    BY <1>1, <1>3, <1>4, EveryTurn
  <2> QED
    BY <1>1, <2>1
<1>6. SfBodies(args) = [k \in 0..n |-> T(SfBodies(args), k)]
  <2> HIDE DEF T
  <2>1. \E f : f = [k \in 0..n |-> T(f, k)]
    BY <1>5
  <2> QED
    BY <1>2, <2>1, Zenon
<1>7. 0 \in 0..n /\ \A k \in 1..n : k \in 0..n /\ k # 0
  BY <1>1
<1> QED
  BY <1>6, <1>7 DEF n

(* The adapter, argument by argument. *)
LEMMA ReadsTurn ==
  ASSUME NEW types, NEW mem, NEW len, Len(types) \in Nat
  PROVE  /\ Reads(types, mem, len)[0] = [r |-> r_take(Reader(len), 4), args |-> <<>>]
         /\ \A k \in 1..Len(types) :
              Reads(types, mem, len)[k] = ReadArg(mem, Reads(types, mem, len)[k - 1], types[k])
<1> DEFINE n == Len(types)
           T(f, k) == IF k = 0 THEN [r |-> r_take(Reader(len), 4), args |-> <<>>]
                      ELSE ReadArg(mem, f[k - 1], types[k])
           S == {m \in 0..n : \E f : f = [k \in 0..m |-> T(f, k)]}
<1>1. n \in Nat
  OBVIOUS
<1>2. Reads(types, mem, len) = CHOOSE f : f = [k \in 0..n |-> T(f, k)]
  BY DEF Reads
<1> HIDE DEF n
<1>3. 0 \in S
  <2> DEFINE g == [k \in 0..0 |-> [r |-> r_take(Reader(len), 4), args |-> <<>>]]
  <2>1. g = [k \in 0..0 |-> T(g, k)]
    OBVIOUS
  <2>2. \E f : f = [k \in 0..0 |-> T(f, k)]
    BY <2>1
  <2> QED
    BY <1>1, <2>2
<1>4. ASSUME NEW m \in 0..n, m \in S, m < n PROVE m + 1 \in S
  <2> HIDE DEF T
  <2>1. PICK f : f = [k \in 0..m |-> T(f, k)]
    BY <1>4
  <2> DEFINE g == [k \in 0..(m + 1) |-> IF k <= m THEN f[k] ELSE T(f, m + 1)]
  <2>2. ASSUME NEW k \in 0..(m + 1) PROVE g[k] = T(g, k)
    <3>1. CASE k = 0
      <4>1. g[0] = f[0] /\ f[0] = T(f, 0)
        BY <1>1, <2>1
      <4> QED
        BY <3>1, <4>1 DEF T
    <3>2. CASE k \in 1..m
      <4>1. k - 1 \in 0..m /\ k - 1 \in 0..(m + 1) /\ k - 1 <= m /\ k <= m
        BY <1>1, <3>2
      <4>2. g[k - 1] = f[k - 1]
        BY <4>1
      <4>3. g[k] = f[k] /\ f[k] = T(f, k)
        BY <2>1, <3>2, <4>1
      <4>4. T(g, k) = T(f, k)
        BY <4>2 DEF T
      <4> QED
        BY <4>3, <4>4
    <3>3. CASE k = m + 1
      <4>1. k - 1 \in 0..(m + 1) /\ k - 1 <= m /\ ~(k <= m)
        BY <1>1, <3>3
      <4>2. g[k - 1] = f[k - 1]
        BY <4>1
      <4>3. g[k] = T(f, k)
        BY <3>3, <4>1
      <4>4. T(g, k) = T(f, k)
        BY <4>2 DEF T
      <4> QED
        BY <4>3, <4>4
    <3> QED
      BY <1>1, <3>1, <3>2, <3>3
  <2>3. g = [k \in 0..(m + 1) |-> T(g, k)]
    BY <2>2
  <2>4. m + 1 \in 0..n
    BY <1>1, <1>4
  <2> HIDE DEF g
  <2>5. \E h : h = [k \in 0..(m + 1) |-> T(h, k)]
    BY <2>3
  <2> QED
    BY <2>4, <2>5
<1>5. n \in S
  <2> HIDE DEF S
  <2>1. \A k \in 0..n : k \in S
    BY <1>1, <1>3, <1>4, EveryTurn
  <2> QED
    BY <1>1, <2>1
<1>6. Reads(types, mem, len) = [k \in 0..n |-> T(Reads(types, mem, len), k)]
  <2> HIDE DEF T
  <2>1. \E f : f = [k \in 0..n |-> T(f, k)]
    BY <1>5
  <2> QED
    BY <1>2, <2>1, Zenon
<1>7. 0 \in 0..n /\ \A k \in 1..n : k \in 0..n /\ k # 0
  BY <1>1
<1> QED
  BY <1>6, <1>7 DEF n

-----------------------------------------------------------------------------
(* The layout of a call that is sent: the arguments one behind the other.     *)
Buffer == [bytes : Seq(Byte), over : BOOLEAN]

LEMMA PutBytes ==
  ASSUME NEW v \in Int
  PROVE  put_u32(v) \in Seq(Byte) /\ Len(put_u32(v)) = 4
<1>1. /\ v % 256 \in Byte /\ (v \div 256) % 256 \in Byte
      /\ (v \div 65536) % 256 \in Byte /\ (v \div 16777216) % 256 \in Byte
  BY SMT DEF Byte
<1> QED
  BY <1>1, SMT DEF put_u32

LEMMA ArgStep ==
  ASSUME NEW b \in Buffer, NEW v \in WireValue
  PROVE  /\ cerco_sf_arg(b, v) \in Buffer
         /\ b.over => cerco_sf_arg(b, v).over
         /\ ~cerco_sf_arg(b, v).over => cerco_sf_arg(b, v).bytes = b.bytes \o cerco_w_val(v)
<1>1. b.bytes \o cerco_w_val(v) \in Seq(Byte)
  BY WValBytes, JoinedLen DEF Buffer
<1> DEFINE c == [b EXCEPT !.bytes = b.bytes \o cerco_w_val(v)]
           d == [b EXCEPT !.over = TRUE]
<1>2. c \in Buffer /\ c.bytes = b.bytes \o cerco_w_val(v) /\ (c.over <=> b.over)
  BY <1>1 DEF Buffer
<1>3. d \in Buffer /\ d.over
  BY DEF Buffer
<1>4. cerco_sf_arg(b, v) = c \/ cerco_sf_arg(b, v) = d
  BY DEF cerco_sf_arg
<1> HIDE DEF c, d
<1> QED
  BY <1>2, <1>3, <1>4

LEMMA BodiesType ==
  ASSUME NEW args \in Seq(WireValue)
  PROVE  \A k \in 0..Len(args) : SfBodies(args)[k] \in Buffer
<1> DEFINE b == SfBodies(args)
           n == Len(args)
           S == {k \in 0..n : b[k] \in Buffer}
<1>1. n \in Nat
  OBVIOUS
<1>2. b[0] = cerco_sf_begin /\ \A k \in 1..n : b[k] = cerco_sf_arg(b[k - 1], args[k])
  BY <1>1, BodiesTurn
<1> HIDE DEF b
<1>3. 0 \in S
  <2>1. <<>> \in Seq(Byte)
    OBVIOUS
  <2>2. cerco_sf_begin \in Buffer
    BY <2>1 DEF cerco_sf_begin, Buffer
  <2>3. 0 \in 0..n
    BY <1>1
  <2> QED
    BY <1>2, <2>2, <2>3
<1>4. \A k \in 0..n : k \in S /\ k < n => k + 1 \in S
  <2> SUFFICES ASSUME NEW k \in 0..n, b[k] \in Buffer, k < n PROVE k + 1 \in S
    OBVIOUS
  <2>1. k + 1 \in 1..n /\ k + 1 - 1 = k /\ k + 1 \in 0..n
    BY <1>1
  <2>2. b[k + 1] = cerco_sf_arg(b[k], args[k + 1]) /\ args[k + 1] \in WireValue
    BY <1>2, <2>1
  <2> QED
    BY <2>1, <2>2, ArgStep
<1>5. \A k \in 0..n : k \in S
  <2> HIDE DEF S, n
  <2> QED
    BY <1>1, <1>3, <1>4, EveryTurn
<1> QED
  BY <1>5 DEF b

(* A call that is sent dropped no argument on the way. *)
LEMMA BodiesGrow ==
  ASSUME NEW args \in Seq(WireValue), ~SfBody(args).over
  PROVE  \A k \in 1..Len(args) :
           SfBodies(args)[k].bytes = SfBodies(args)[k - 1].bytes \o cerco_w_val(args[k])
<1> DEFINE b == SfBodies(args)
           n == Len(args)
           S == {k \in 0..n : \A j \in 0..k : b[j].over => b[k].over}
<1>1. n \in Nat /\ \A k \in 0..n : b[k] \in Buffer
  BY BodiesType
<1>2. b[0] = cerco_sf_begin /\ \A k \in 1..n : b[k] = cerco_sf_arg(b[k - 1], args[k])
  BY <1>1, BodiesTurn
<1>3. ~b[n].over
  BY DEF SfBody
<1> HIDE DEF b
<1>4. \A k \in 1..n : /\ b[k - 1].over => b[k].over
                      /\ ~b[k].over => b[k].bytes = b[k - 1].bytes \o cerco_w_val(args[k])
  <2> TAKE k \in 1..n
  <2>1. k - 1 \in 0..n /\ args[k] \in WireValue
    BY <1>1
  <2> QED
    BY <2>1, <1>1, <1>2, ArgStep, ZenonT(60)
<1>5. 0 \in S
  <2>1. \A j \in 0..0 : j = 0
    OBVIOUS
  <2> QED
    BY <1>1, <2>1
<1>6. \A k \in 0..n : k \in S /\ k < n => k + 1 \in S
  <2> SUFFICES ASSUME NEW k \in 0..n, k < n, \A j \in 0..k : b[j].over => b[k].over
               PROVE  k + 1 \in S
    OBVIOUS
  <2>1. k + 1 \in 1..n /\ k + 1 - 1 = k /\ k + 1 \in 0..n
    BY <1>1
  <2>2. b[k].over => b[k + 1].over
    <3> DEFINE m == k + 1
    <3>1. m \in 1..n /\ m - 1 = k
      BY <2>1
    <3> HIDE DEF m
    <3>2. b[m - 1].over => b[m].over
      BY <1>4, <3>1
    <3> QED
      BY <3>1, <3>2 DEF m
  <2>3. ASSUME NEW j \in 0..(k + 1), b[j].over PROVE b[k + 1].over
    <3>1. j \in 0..k \/ j = k + 1
      BY <1>1
    <3> QED
      BY <2>2, <2>3, <3>1
  <2> QED
    BY <2>1, <2>3
<1>7. n \in S
  <2> HIDE DEF S, n
  <2>1. \A k \in 0..n : k \in S
    BY <1>1, <1>5, <1>6, EveryTurn
  <2> QED
    BY <1>1, <2>1
<1>8. \A k \in 1..n : ~b[k].over
  BY <1>1, <1>3, <1>7
<1> QED
  BY <1>4, <1>8 DEF b

LEMMA BodiesPrefix ==
  ASSUME NEW args \in Seq(WireValue), ~SfBody(args).over
  PROVE  \A k \in 0..Len(args) : Holds(SfBody(args).bytes, 1, SfBodies(args)[k].bytes)
<1> DEFINE b == SfBodies(args)
           n == Len(args)
           S == {k \in 0..n : \A j \in 0..k : Holds(b[k].bytes, 1, b[j].bytes)}
<1>1. n \in Nat /\ \A k \in 0..n : b[k] \in Buffer
  BY BodiesType
<1>2. \A k \in 1..n : b[k].bytes = b[k - 1].bytes \o cerco_w_val(args[k])
  BY BodiesGrow
<1>3. SfBody(args) = b[n]
  BY DEF SfBody
<1> HIDE DEF b
<1>4. \A k \in 0..n : b[k].bytes \in Seq(Byte) /\ Holds(b[k].bytes, 1, b[k].bytes)
  BY <1>1, HoldsItself DEF Buffer
<1>5. 0 \in S
  <2>1. \A j \in 0..0 : j = 0
    OBVIOUS
  <2> QED
    BY <1>1, <1>4, <2>1
<1>6. \A k \in 0..n : k \in S /\ k < n => k + 1 \in S
  <2> SUFFICES ASSUME NEW k \in 0..n, k < n, \A j \in 0..k : Holds(b[k].bytes, 1, b[j].bytes)
               PROVE  k + 1 \in S
    OBVIOUS
  <2>1. k + 1 \in 1..n /\ k + 1 - 1 = k /\ k + 1 \in 0..n
    BY <1>1
  <2>2. b[k + 1].bytes = b[k].bytes \o cerco_w_val(args[k + 1])
    <3> DEFINE m == k + 1
    <3>1. m \in 1..n /\ m - 1 = k
      BY <2>1
    <3> HIDE DEF m
    <3>2. b[m].bytes = b[m - 1].bytes \o cerco_w_val(args[m])
      BY <1>2, <3>1
    <3> QED
      BY <3>1, <3>2 DEF m
  <2>3. cerco_w_val(args[k + 1]) \in Seq(Byte)
    BY <2>1, WValBytes
  <2>4. ASSUME NEW j \in 0..(k + 1) PROVE Holds(b[k + 1].bytes, 1, b[j].bytes)
    <3>1. CASE j \in 0..k
      <4>1. Holds(b[k].bytes, 1, b[j].bytes) /\ j \in 0..n /\ 1 \in Nat /\ 1 >= 1
        BY <1>1, <3>1
      <4> QED
        BY <4>1, <2>2, <2>3, <1>4, HoldsInFront, Zenon
    <3>2. CASE j = k + 1
      BY <1>4, <2>1, <3>2
    <3> QED
      BY <1>1, <3>1, <3>2
  <2> QED
    BY <2>1, <2>4
<1>7. n \in S
  <2> HIDE DEF S, n
  <2>1. \A k \in 0..n : k \in S
    BY <1>1, <1>5, <1>6, EveryTurn
  <2> QED
    BY <1>1, <2>1
<1> QED
  BY <1>3, <1>7 DEF b

(* Where the k-th argument ends in the frame. *)
End(args, k) == 4 + Len(SfBodies(args)[k].bytes)

LEMMA CallLayout ==
  ASSUME NEW args \in Seq(WireValue), ~SfBody(args).over, NEW behind \in Seq(Byte)
  PROVE  LET frame == cerco_sf_submit_raw(args)
         IN  /\ frame \in Seq(Byte) /\ frame \o behind \in Seq(Byte)
             /\ Len(frame) = End(args, Len(args)) /\ End(args, 0) = 4
             /\ \A k \in 0..Len(args) : End(args, k) \in Nat /\ End(args, k) <= Len(frame)
             /\ \A k \in 1..Len(args) :
                  /\ End(args, k) = End(args, k - 1) + Width(args[k])
                  /\ Holds(frame \o behind, End(args, k - 1) + 1, cerco_w_val(args[k]))
<1> DEFINE b == SfBodies(args)
           n == Len(args)
           frame == cerco_sf_submit_raw(args)
           h == put_u32(n)
           body == SfBody(args).bytes
<1>1. n \in Nat /\ \A k \in 0..n : b[k].bytes \in Seq(Byte) /\ Len(b[k].bytes) \in Nat
  BY BodiesType DEF Buffer
<1>2. SfBody(args) = b[n] /\ n \in 0..n /\ body = b[n].bytes
  BY <1>1 DEF SfBody
<1>3. h \in Seq(Byte) /\ Len(h) = 4
  BY <1>1, PutBytes
<1>4. frame = h \o body
  BY DEF cerco_sf_submit_raw
<1> HIDE DEF b, h, frame, body
<1>5. frame \in Seq(Byte) /\ Len(frame) = Len(h) + Len(body) /\ body \in Seq(Byte)
  BY <1>1, <1>2, <1>3, <1>4, JoinedLen
<1>6. frame \o behind \in Seq(Byte)
  BY <1>5, JoinedLen
<1>7. Len(frame) = End(args, n)
  BY <1>2, <1>3, <1>5 DEF End, b
<1>8. \A k \in 0..n : End(args, k) \in Nat /\ End(args, k) <= Len(frame)
  <2> TAKE k \in 0..n
  <2>1. Holds(body, 1, b[k].bytes)
    BY BodiesPrefix DEF b, body
  <2>2. Len(b[k].bytes) <= Len(body) /\ Len(b[k].bytes) \in Nat /\ Len(body) \in Nat
    BY <1>1, <1>5, <2>1 DEF Holds
  <2>3. End(args, k) = 4 + Len(b[k].bytes) /\ Len(frame) = 4 + Len(body)
    BY <1>3, <1>5 DEF End, b
  <2> QED
    BY <2>2, <2>3
<1>9. End(args, 0) = 4
  <2>1. b[0] = cerco_sf_begin
    BY <1>1, BodiesTurn DEF b
  <2>2. b[0].bytes = <<>> /\ Len(<<>>) = 0
    BY <2>1 DEF cerco_sf_begin
  <2>3. End(args, 0) = 4 + Len(b[0].bytes)
    BY DEF End, b
  <2> QED
    BY <2>2, <2>3
<1>10. ASSUME NEW k \in 1..n
       PROVE  /\ End(args, k) = End(args, k - 1) + Width(args[k])
              /\ Holds(frame \o behind, End(args, k - 1) + 1, cerco_w_val(args[k]))
  <2> DEFINE p == b[k - 1].bytes
             w == cerco_w_val(args[k])
  <2>1. k - 1 \in 0..n /\ k \in 0..n /\ args[k] \in WireValue
    BY <1>1
  <2>2. p \in Seq(Byte) /\ Len(p) \in Nat /\ b[k].bytes \in Seq(Byte)
    BY <1>1, <2>1
  <2>3. w \in Seq(Byte) /\ Len(w) = Width(args[k]) /\ Width(args[k]) \in Nat
    BY <2>1, WValBytes
  <2>4. b[k].bytes = p \o w
    BY BodiesGrow DEF b
  <2>5. Holds(body, 1, b[k].bytes)
    BY <2>1, BodiesPrefix DEF b, body
  <2>6. End(args, k - 1) = 4 + Len(p) /\ End(args, k) = 4 + Len(b[k].bytes)
    BY DEF End, b
  <2> HIDE DEF p, w
  <2>7. Len(b[k].bytes) = Len(p) + Len(w)
    BY <2>2, <2>3, <2>4, JoinedLen
  <2>8. End(args, k) = End(args, k - 1) + Width(args[k])
    BY <2>2, <2>3, <2>6, <2>7
  <2>9. Holds(body, 1 + Len(p), w)
    <3>1. 1 \in Nat /\ 1 >= 1
      OBVIOUS
    <3>2. Holds(body, 1, p \o w)
      BY <2>4, <2>5
    <3> QED
      BY <3>1, <3>2, <1>5, <2>2, <2>3, HoldsConcat, Zenon
  <2>10. 1 + Len(p) \in Nat /\ 1 + Len(p) >= 1
    BY <2>2
  <2>11. Holds(frame, Len(h) + (1 + Len(p)), w)
    BY <1>3, <1>4, <1>5, <2>3, <2>9, <2>10, HoldsBehind, Zenon
  <2>12. Len(h) + (1 + Len(p)) = End(args, k - 1) + 1
    BY <1>3, <2>2, <2>6
  <2>13. End(args, k - 1) + 1 \in Nat /\ End(args, k - 1) + 1 >= 1
    <3>1. End(args, k - 1) \in Nat
      BY <2>1, <1>8
    <3> QED
      BY <3>1
  <2>14. Holds(frame \o behind, End(args, k - 1) + 1, w)
    BY <1>5, <2>3, <2>11, <2>12, <2>13, HoldsInFront, Zenon
  <2> QED
    BY <2>8, <2>14 DEF w
<1> QED
  BY <1>5, <1>6, <1>7, <1>8, <1>9, <1>10 DEF frame

-----------------------------------------------------------------------------
(* The bounded reader. *)
At(len, pos) == [len |-> len, pos |-> pos, err |-> FALSE]

LEMMA SetPos ==
  ASSUME NEW len, NEW pos, NEW t
  PROVE  [At(len, pos) EXCEPT !.pos = t] = At(len, t) /\ At(len, pos).pos = pos
<1> DEFINE F == FALSE
<1>1. /\ At(len, pos) = [len |-> len, pos |-> pos, err |-> F]
      /\ At(len, t) = [len |-> len, pos |-> t, err |-> F]
  BY DEF At
<1> HIDE DEF F
<1>2. [[len |-> len, pos |-> pos, err |-> F] EXCEPT !.pos = t]
        = [len |-> len, pos |-> t, err |-> F]
  OBVIOUS
<1> QED
  BY <1>1, <1>2

LEMMA SetErr ==
  ASSUME NEW len, NEW pos, NEW t
  PROVE  [At(len, pos) EXCEPT !.err = t] = [len |-> len, pos |-> pos, err |-> t]
BY SMT DEF At

LEMMA TakeIs ==
  ASSUME NEW len \in Nat, NEW pos \in Nat, NEW n \in Nat
  PROVE  /\ pos + n <= len => r_take(At(len, pos), n) = At(len, pos + n)
         /\ ~(pos + n <= len) => /\ r_take(At(len, pos), n).err
                                 /\ r_take(At(len, pos), n).pos = pos
<1>1. CanTake(At(len, pos), n) <=> pos + n <= len
  BY DEF CanTake, At
<1>2. [At(len, pos) EXCEPT !.pos = pos + n] = At(len, pos + n) /\ At(len, pos).pos = pos
  BY SetPos
<1>3. [At(len, pos) EXCEPT !.err = TRUE] = [len |-> len, pos |-> pos, err |-> TRUE]
  BY SetErr, Zenon
<1>4. /\ [len |-> len, pos |-> pos, err |-> TRUE].err
      /\ [len |-> len, pos |-> pos, err |-> TRUE].pos = pos
  OBVIOUS
<1> QED
  BY <1>1, <1>2, <1>3, <1>4 DEF r_take

ReaderType == [len : Nat, pos : Nat, err : BOOLEAN]

LEMMA TakeType ==
  ASSUME NEW len \in Nat, NEW pos \in Nat, NEW n \in Nat
  PROVE  r_take(At(len, pos), n) \in ReaderType
<1>1. [At(len, pos) EXCEPT !.err = TRUE] = [len |-> len, pos |-> pos, err |-> TRUE]
  BY SetErr, Zenon
<1>2. [At(len, pos) EXCEPT !.pos = @ + n] = [len |-> len, pos |-> pos + n, err |-> FALSE]
  <2>1. [At(len, pos) EXCEPT !.pos = pos + n] = At(len, pos + n) /\ At(len, pos).pos = pos
    BY SetPos
  <2> QED
    BY <2>1 DEF At
<1>3. pos + n \in Nat
  OBVIOUS
<1> QED
  BY <1>1, <1>2, <1>3 DEF r_take, ReaderType

(* The parts of a value: its type, its first word or words, its bytes. *)
LEMMA WidthParts ==
  ASSUME NEW v \in WireValue
  PROVE  \E n \in Nat : /\ Width(v) = 1 + (IF v.type \in Wide THEN 8 ELSE 4) + n
                        /\ v.type \in Sized => n = Len(v.val)
                        /\ v.type \notin Sized => n = 0
<1>1. CASE v.type \in Sized
  <2>1. Len(v.val) \in Nat /\ v.type \notin Wide
    BY <1>1, Types
  <2>2. Width(v) = 5 + Len(v.val)
    BY <1>1 DEF Width
  <2>3. ASSUME NEW n \in Nat PROVE 5 + n = 1 + 4 + n
    OBVIOUS
  <2> QED
    BY <1>1, <2>1, <2>2, <2>3
<1>2. CASE v.type \notin Sized
  <2>1. 0 \in Nat /\ 9 = 1 + 8 + 0 /\ 5 = 1 + 4 + 0
    OBVIOUS
  <2> QED
    BY <1>2, <2>1 DEF Width
<1> QED
  BY <1>1, <1>2

(* A value that lies inside the body is read as it was written. *)
LEMMA ReadsValue ==
  ASSUME NEW v \in WireValue, NEW mem \in Seq(Byte), NEW len \in Nat, NEW pos \in Nat,
         Holds(mem, pos + 1, cerco_w_val(v)), pos + Width(v) <= len
  PROVE  LET g == cerco_r_val(mem, At(len, pos))
         IN  /\ g.r = At(len, pos + Width(v)) /\ g.v = v
             /\ v.type \in Sized => g.at = pos + 6
<1> DEFINE r == At(len, pos)
           type == mem[r.pos + 1]
           width == IF type \in Wide THEN 8 ELSE 4
           r1 == r_take(r, 1)
           r2 == r_take(r1, width)
           r3 == IF type \in Sized THEN r_take(r2, get_u32(mem, r1.pos + 1)) ELSE r2
           bad == [r |-> [r3 EXCEPT !.err = TRUE], v |-> [type |-> WT_I32, val |-> 0], at |-> 0]
           val == CASE type \in Wide -> get_u64(mem, r1.pos + 1)
                    [] type \in Sized -> SubSeq(mem, r2.pos + 1, r3.pos)
                    [] OTHER -> get_u32(mem, r1.pos + 1)
           g == cerco_r_val(mem, r)
<1>1. g = IF r1.err \/ type > WT_BYTES \/ r2.err THEN [bad EXCEPT !.r = [r1 EXCEPT !.err = TRUE]]
          ELSE IF r3.err THEN bad
          ELSE [r |-> r3, at |-> r2.pos + 1, v |-> [type |-> type, val |-> val]]
  BY DEF cerco_r_val
<1>2. r.pos = pos /\ pos + 1 \in Nat /\ pos + 1 >= 1
  BY DEF At
<1>3. type = v.type
  BY <1>2, WValReads
<1>4. PICK n \in Nat : /\ Width(v) = 1 + width + n
                       /\ v.type \in Sized => n = Len(v.val)
                       /\ v.type \notin Sized => n = 0
  BY <1>3, WidthParts
<1>5. width \in Nat /\ Width(v) \in Nat /\ Width(v) = 1 + width + n
  BY <1>4
<1> HIDE DEF g, width, type, r1, r2, r3, bad, val
<1>6. r1 = At(len, pos + 1)
  <2>1. 1 \in Nat /\ pos + 1 <= len
    BY <1>5
  <2> QED
    BY <2>1, TakeIs DEF r1
<1>7. r2 = At(len, pos + 1 + width)
  <2>1. pos + 1 + width <= len
    BY <1>5
  <2> QED
    BY <1>2, <1>5, <1>6, <2>1, TakeIs DEF r2
<1>8. ~r1.err /\ ~r2.err /\ r1.pos = pos + 1 /\ r2.pos = pos + 1 + width
  BY <1>6, <1>7 DEF At
<1>9. ~(type > WT_BYTES)
  <2>1. v.type \in 0..5
    BY Types
  <2> QED
    BY <1>3, <2>1 DEF WT_BYTES
<1>10. r3 = At(len, pos + Width(v)) /\ val = v.val /\ (v.type \in Sized => r2.pos + 1 = pos + 6)
  <2>1. CASE v.type \in Sized
    <3>1. /\ get_u32(mem, pos + 1 + 1) = Len(v.val) /\ Holds(mem, pos + 1 + 5, v.val)
          /\ v.val \in Seq(Byte) /\ Len(v.val) \in Nat /\ v.type \notin Wide
      BY <1>2, <2>1, WValReads, Types
    <3>2. width = 4 /\ n = Len(v.val)
      BY <1>3, <1>4, <2>1, <3>1 DEF width
    <3>3. r2.pos + 1 = pos + 6 /\ pos + 1 + 5 = pos + 6 /\ pos + 6 \in Nat /\ pos + 6 >= 1
      BY <1>8, <3>2
    <3>4. r3 = r_take(r2, Len(v.val))
      BY <1>3, <1>8, <2>1, <3>1 DEF r3
    <3>5. r3 = At(len, pos + 1 + width + n)
      <4>1. pos + 1 + width \in Nat /\ pos + 1 + width + n <= len
        BY <1>5
      <4>2. r3 = r_take(At(len, pos + 1 + width), n)
        BY <1>7, <3>2, <3>4
      <4> QED
        BY <4>1, <4>2, TakeIs
    <3>6. pos + 1 + width + n = pos + Width(v)
      BY <1>5
    <3>7. r3.pos = pos + 6 + Len(v.val) - 1
      <4>1. r3.pos = pos + 1 + width + n
        BY <3>5 DEF At
      <4>2. pos + 1 + 4 + n = pos + 6 + n - 1
        OBVIOUS
      <4> QED
        BY <3>2, <4>1, <4>2
    <3>8. SubSeq(mem, pos + 6, pos + 6 + Len(v.val) - 1) = v.val
      BY <3>1, <3>3, SubSeqHolds
    <3>9. val = SubSeq(mem, r2.pos + 1, r3.pos)
      BY <1>3, <2>1, <3>1, Zenon DEF val
    <3> QED
      BY <3>3, <3>5, <3>6, <3>7, <3>8, <3>9
  <2>2. CASE v.type \notin Sized
    <3>1. r3 = r2 /\ Width(v) = 1 + width
      BY <1>3, <1>4, <1>5, <2>2 DEF r3
    <3>2. r3 = At(len, pos + Width(v))
      <4>1. pos + 1 + width = pos + (1 + width)
        BY <1>5
      <4> QED
        BY <1>7, <3>1, <4>1
    <3>3. CASE v.type \in Wide
      <4>1. get_u64(mem, pos + 1 + 1) = v.val
        BY <1>2, <3>3, WValReads
      <4> QED
        BY <1>3, <1>8, <2>2, <3>2, <3>3, <4>1, Zenon DEF val
    <3>4. CASE v.type \notin Wide
      <4>1. v.type = WT_I32 \/ v.type = WT_BOOL
        BY <2>2, <3>4, Types
      <4>2. get_u32(mem, pos + 1 + 1) = v.val
        BY <1>2, <4>1, WValReads
      <4> QED
        BY <1>3, <1>8, <2>2, <3>2, <3>4, <4>2, Zenon DEF val
    <3> QED
      BY <3>3, <3>4
  <2> QED
    BY <2>1, <2>2
<1>11. ~r3.err
  BY <1>10 DEF At
<1>12. g = [r |-> r3, at |-> r2.pos + 1, v |-> [type |-> type, val |-> val]]
  BY <1>1, <1>8, <1>9, <1>11, Zenon
<1>13. [type |-> type, val |-> val] = v
  BY <1>3, <1>10, Types
<1> QED
  BY <1>10, <1>12, <1>13 DEF g

(* A value that does not is an error, and the reader stays inside the body. *)
LEMMA ReadsShort ==
  ASSUME NEW v \in WireValue, NEW mem \in Seq(Byte), NEW len \in Nat, NEW pos \in Nat,
         Holds(mem, pos + 1, cerco_w_val(v)), pos <= len, ~(pos + Width(v) <= len)
  PROVE  LET g == cerco_r_val(mem, At(len, pos))
         IN  g.r.err /\ g.r.pos <= len /\ g.r \in ReaderType
<1> DEFINE r == At(len, pos)
           type == mem[r.pos + 1]
           width == IF type \in Wide THEN 8 ELSE 4
           r1 == r_take(r, 1)
           r2 == r_take(r1, width)
           r3 == IF type \in Sized THEN r_take(r2, get_u32(mem, r1.pos + 1)) ELSE r2
           bad == [r |-> [r3 EXCEPT !.err = TRUE], v |-> [type |-> WT_I32, val |-> 0], at |-> 0]
           val == CASE type \in Wide -> get_u64(mem, r1.pos + 1)
                    [] type \in Sized -> SubSeq(mem, r2.pos + 1, r3.pos)
                    [] OTHER -> get_u32(mem, r1.pos + 1)
           g == cerco_r_val(mem, r)
<1>1. g = IF r1.err \/ type > WT_BYTES \/ r2.err THEN [bad EXCEPT !.r = [r1 EXCEPT !.err = TRUE]]
          ELSE IF r3.err THEN bad
          ELSE [r |-> r3, at |-> r2.pos + 1, v |-> [type |-> type, val |-> val]]
  BY DEF cerco_r_val
<1>2. r.pos = pos /\ pos + 1 \in Nat /\ pos + 1 >= 1
  BY DEF At
<1>3. type = v.type
  BY <1>2, WValReads
<1>4. PICK n \in Nat : /\ Width(v) = 1 + width + n
                       /\ v.type \in Sized => n = Len(v.val)
                       /\ v.type \notin Sized => n = 0
  BY <1>3, WidthParts
<1>5. width \in Nat /\ Width(v) \in Nat /\ Width(v) = 1 + width + n
  BY <1>4
<1>6. /\ [bad EXCEPT !.r = [r1 EXCEPT !.err = TRUE]].r = [r1 EXCEPT !.err = TRUE]
      /\ bad.r = [r3 EXCEPT !.err = TRUE]
  OBVIOUS
<1> HIDE DEF g, width, type, r1, r2, r3, bad, val
<1>7. 1 \in Nat
  OBVIOUS
<1>8. ASSUME NEW q, q \in ReaderType
      PROVE  /\ [q EXCEPT !.err = TRUE].err /\ [q EXCEPT !.err = TRUE].pos = q.pos
             /\ [q EXCEPT !.err = TRUE] \in ReaderType
  BY <1>8 DEF ReaderType
<1>9. r1 \in ReaderType /\ r1.pos <= len
  <2>2. r1 \in ReaderType
    BY <1>7, TakeType DEF r1
  <2>3. pos + 1 <= len => r1.pos = pos + 1
    <3>1. At(len, pos + 1).pos = pos + 1
      BY DEF At
    <3> QED
      BY <1>7, <3>1, TakeIs DEF r1
  <2>4. ~(pos + 1 <= len) => r1.pos = pos
    BY <1>7, TakeIs DEF r1
  <2> QED
    BY <2>2, <2>3, <2>4
<1>10. r1.err \/ type > WT_BYTES \/ r2.err \/ (r3.err /\ r3.pos <= len
         /\ r3 \in ReaderType)
  <2> SUFFICES ASSUME ~r1.err, ~r2.err
               PROVE  r3.err /\ r3.pos <= len /\ r3 \in ReaderType
    OBVIOUS
  <2>1. pos + 1 <= len /\ r1 = At(len, pos + 1) /\ r1.pos = pos + 1
    <3>1. pos + 1 <= len
      BY <1>7, TakeIs DEF r1
    <3>2. r1 = At(len, pos + 1)
      BY <1>7, <3>1, TakeIs DEF r1
    <3> QED
      BY <3>1, <3>2 DEF At
  <2>2. pos + 1 + width <= len /\ r2 = At(len, pos + 1 + width) /\ pos + 1 + width \in Nat
    <3>1. pos + 1 + width <= len
      BY <1>2, <1>5, <2>1, TakeIs DEF r2
    <3> QED
      BY <1>2, <1>5, <2>1, <3>1, TakeIs DEF r2
  <2>3. v.type \in Sized /\ n = Len(v.val)
    <3>1. n # 0
      BY <1>5, <2>2
    <3> QED
      BY <1>4, <3>1
  <2>4. get_u32(mem, pos + 1 + 1) = Len(v.val)
    BY <1>2, <2>3, WValReads
  <2>5. r3 = r_take(At(len, pos + 1 + width), n)
    BY <1>3, <2>1, <2>2, <2>3, <2>4 DEF r3
  <2>6. ~(pos + 1 + width + n <= len)
    BY <1>5
  <2>7. r3.err /\ r3.pos = pos + 1 + width
    BY <2>2, <2>5, <2>6, TakeIs, SMTT(30)
  <2>8. r3 \in ReaderType
    BY <2>2, <2>5, TakeType
  <2> QED
    BY <2>2, <2>7, <2>8
<1>11. CASE r1.err \/ type > WT_BYTES \/ r2.err
  <2>1. g = [bad EXCEPT !.r = [r1 EXCEPT !.err = TRUE]]
    BY <1>1, <1>11
  <2>2. g.r = [r1 EXCEPT !.err = TRUE]
    BY <1>6, <2>1
  <2>3. /\ [r1 EXCEPT !.err = TRUE].err /\ [r1 EXCEPT !.err = TRUE].pos = r1.pos
        /\ [r1 EXCEPT !.err = TRUE] \in ReaderType
    BY <1>8, <1>9
  <2> QED
    BY <1>9, <2>2, <2>3 DEF g
<1>12. CASE ~(r1.err \/ type > WT_BYTES \/ r2.err)
  <2>1. g = bad /\ r3.pos <= len /\ r3 \in ReaderType
    BY <1>1, <1>10, <1>12
  <2> QED
    BY <1>6, <1>8, <2>1 DEF g
<1> QED
  BY <1>11, <1>12

-----------------------------------------------------------------------------
(* The adapter reads the arguments that lie inside the body, and stops with   *)
(* an error at the first that does not.                                       *)
Got == WireValue \cup [type : {WT_STR}, val : Seq(Byte)]
Same(x, v) == IF v.type = WT_STR THEN SubSeq(x.val, 1, Len(v.val)) = v.val ELSE x = v

TurnOK(c, args, k, len) ==
  /\ c = [r |-> c.r, args |-> c.args]
  /\ c.r.pos <= len
  /\ IF End(args, k) <= len
       THEN /\ c.r = At(len, End(args, k))
            /\ c.args \in Seq(Got) /\ Len(c.args) = k
            /\ \A j \in 1..k : Same(c.args[j], args[j])
       ELSE c.r.err

(* The argument the adapter hands to the function. *)
Handed(mem, g, wanted) ==
  [type |-> wanted, val |-> CASE wanted = WT_STR -> CString(mem, g.at)
                              [] wanted = WT_BOOL -> g.v.val % 256
                              [] OTHER -> g.v.val]

LEMMA TwoFields ==
  ASSUME NEW a, NEW b, NEW q, NEW z
  PROVE  [[r |-> a, args |-> b] EXCEPT !.r = q, !.args = z] = [r |-> q, args |-> z]
<1> DEFINE e == [[r |-> a, args |-> b] EXCEPT !.r = q, !.args = z]
           f == [r |-> q, args |-> z]
<1>1. DOMAIN e = {"r", "args"} /\ e.r = q /\ e.args = z
  OBVIOUS
<1>2. DOMAIN f = {"r", "args"} /\ f.r = q /\ f.args = z
  OBVIOUS
<1>3. e = [i \in DOMAIN e |-> e[i]] /\ f = [i \in DOMAIN f |-> f[i]]
  OBVIOUS
<1> HIDE DEF e, f
<1>4. \A i \in {"r", "args"} : e[i] = f[i]
  BY <1>1, <1>2
<1>5. e = f
  BY <1>1, <1>2, <1>3, <1>4
<1> QED
  BY <1>5 DEF e, f

LEMMA ReadArgIs ==
  ASSUME NEW mem, NEW wanted, NEW c, NEW g, c = [r |-> c.r, args |-> c.args],
         g = cerco_r_val(mem, c.r)
  PROVE  /\ c.r.err => ReadArg(mem, c, wanted) = c
         /\ ~c.r.err /\ g.r.err =>
              ReadArg(mem, c, wanted) = [r |-> [g.r EXCEPT !.err = TRUE], args |-> c.args]
         /\ ~c.r.err /\ ~g.r.err /\ sf_arg_of_type(wanted, g.v.type) =>
              ReadArg(mem, c, wanted) = [r |-> g.r, args |-> Append(c.args, Handed(mem, g, wanted))]
<1> DEFINE x == Handed(mem, g, wanted)
<1>1. ReadArg(mem, c, wanted) =
        IF c.r.err THEN c
        ELSE IF g.r.err \/ ~sf_arg_of_type(wanted, g.v.type)
          THEN [c EXCEPT !.r = [g.r EXCEPT !.err = TRUE]]
        ELSE [c EXCEPT !.r = g.r, !.args = Append(@, x)]
  BY DEF ReadArg, Handed
<1> HIDE DEF x
<1>2. ASSUME NEW q PROVE [c EXCEPT !.r = q] = [r |-> q, args |-> c.args]
  OBVIOUS
<1>3. ASSUME NEW q, NEW y
      PROVE  [c EXCEPT !.r = q, !.args = Append(@, y)] = [r |-> q, args |-> Append(c.args, y)]
  <2>1. ASSUME NEW z
        PROVE  [[r |-> c.r, args |-> c.args] EXCEPT !.r = q, !.args = z] = [r |-> q, args |-> z]
    BY TwoFields, Zenon
  <2>2. [[r |-> c.r, args |-> c.args] EXCEPT !.r = q, !.args = Append(c.args, y)]
          = [r |-> q, args |-> Append(c.args, y)]
    BY <2>1
  <2> QED
    BY <2>2
<1>4. c.r.err => ReadArg(mem, c, wanted) = c
  BY <1>1
<1>5. ~c.r.err /\ g.r.err =>
        ReadArg(mem, c, wanted) = [r |-> [g.r EXCEPT !.err = TRUE], args |-> c.args]
  BY <1>1, <1>2
<1>6. ~c.r.err /\ ~g.r.err /\ sf_arg_of_type(wanted, g.v.type) =>
        ReadArg(mem, c, wanted) = [r |-> g.r, args |-> Append(c.args, x)]
  BY <1>1, <1>3
<1> QED
  BY <1>4, <1>5, <1>6 DEF x

LEMMA TurnKeeps ==
  ASSUME NEW args \in Seq(WireValue), ~SfBody(args).over, NEW behind \in Seq(Byte),
         \E z \in 1..Len(behind) : behind[z] = 0,
         NEW k \in 1..Len(args), NEW len \in Nat, len <= Len(cerco_sf_submit_raw(args)),
         NEW c, TurnOK(c, args, k - 1, len)
  PROVE  TurnOK(ReadArg(cerco_sf_submit_raw(args) \o behind, c, args[k].type), args, k, len)
<1> DEFINE frame == cerco_sf_submit_raw(args)
           mem == frame \o behind
           pos == End(args, k - 1)
           v == args[k]
           wanted == v.type
           g == cerco_r_val(mem, c.r)
           x == Handed(mem, g, wanted)
           d == ReadArg(mem, c, wanted)
<1>1. /\ frame \in Seq(Byte) /\ mem \in Seq(Byte) /\ Len(frame) \in Nat
      /\ \A j \in 0..Len(args) : End(args, j) \in Nat /\ End(args, j) <= Len(frame)
      /\ End(args, k) = pos + Width(v)
      /\ Holds(mem, pos + 1, cerco_w_val(v))
  BY CallLayout
<1>2. v \in WireValue /\ Len(args) \in Nat /\ k - 1 \in 0..Len(args) /\ k \in 0..Len(args)
  OBVIOUS
<1>3. /\ pos \in Nat /\ End(args, k) \in Nat /\ pos <= Len(frame) /\ End(args, k) <= Len(frame)
      /\ Width(v) \in Nat
  BY <1>1, <1>2, WValBytes
<1>4. /\ c = [r |-> c.r, args |-> c.args] /\ c.r.pos <= len
      /\ pos <= len => /\ c.r = At(len, pos) /\ c.args \in Seq(Got) /\ Len(c.args) = k - 1
                       /\ \A j \in 1..(k - 1) : Same(c.args[j], args[j])
      /\ ~(pos <= len) => c.r.err
  BY DEF TurnOK
<1>5. /\ c.r.err => d = c
      /\ ~c.r.err /\ g.r.err => d = [r |-> [g.r EXCEPT !.err = TRUE], args |-> c.args]
      /\ ~c.r.err /\ ~g.r.err /\ sf_arg_of_type(wanted, g.v.type) =>
           d = [r |-> g.r, args |-> Append(c.args, x)]
  BY <1>4, ReadArgIs, ZenonT(60)
<1> HIDE DEF frame, mem, pos, v, wanted, g, x, d
<1>6. CASE ~(pos <= len)
  <2>1. d = c /\ c.r.err
    BY <1>4, <1>5, <1>6
  <2>2. ~(End(args, k) <= len)
    BY <1>1, <1>3, <1>6
  <2>3. TurnOK(d, args, k, len)
    BY <1>4, <2>1, <2>2 DEF TurnOK
  <2> QED
    BY <2>3 DEF d, mem, frame, wanted, v
<1>7. CASE pos <= len /\ ~(pos + Width(v) <= len)
  <2>1. c.r = At(len, pos) /\ ~c.r.err
    BY <1>4, <1>7 DEF At
  <2>2. g.r.err /\ g.r.pos <= len
    BY <1>1, <1>2, <1>3, <1>7, <2>1, ReadsShort DEF g
  <2>3. d = [r |-> [g.r EXCEPT !.err = TRUE], args |-> c.args]
    BY <1>5, <2>1, <2>2
  <2>4. [g.r EXCEPT !.err = TRUE].err /\ [g.r EXCEPT !.err = TRUE].pos <= len
    BY <2>2 DEF ReaderType
  <2>5. d.r = [g.r EXCEPT !.err = TRUE] /\ d.args = c.args
    BY <2>3
  <2>6. d = [r |-> d.r, args |-> d.args]
    BY <2>3, <2>5
  <2>7. ~(End(args, k) <= len)
    BY <1>1, <1>7
  <2>8. TurnOK(d, args, k, len)
    BY <2>4, <2>5, <2>6, <2>7, Zenon DEF TurnOK
  <2> QED
    BY <2>8 DEF d, mem, frame, wanted, v
<1>8. CASE pos + Width(v) <= len
  <2>1. pos <= len
    BY <1>3, <1>8
  <2>2. c.r = At(len, pos) /\ ~c.r.err
    BY <1>4, <2>1 DEF At
  <2>3. /\ g.r = At(len, pos + Width(v)) /\ g.v = v
        /\ v.type \in Sized => g.at = pos + 6
    BY <1>1, <1>2, <1>3, <1>8, <2>2, ReadsValue, SMTT(30) DEF g
  <2>4. ~g.r.err /\ sf_arg_of_type(wanted, g.v.type)
    BY <2>3 DEF At, sf_arg_of_type, wanted
  <2>5. d = [r |-> g.r, args |-> Append(c.args, x)]
    BY <1>5, <2>2, <2>4
  <2>6. x \in Got /\ Same(x, v)
    <3>1. CASE v.type = WT_STR
      <4>1. v.type \in Sized /\ v.val \in Seq(Byte \ {0})
        BY <1>2, <3>1, Types DEF Sized
      <4>2. Holds(mem, pos + 1 + 5, v.val) /\ Len(v.val) \in Nat
        <5>1. pos + 1 \in Nat /\ pos + 1 >= 1
          BY <1>3
        <5> QED
          BY <1>1, <1>2, <4>1, <5>1, WValReads, SMTT(30)
      <4>3. pos + 1 + 5 = pos + 6 /\ pos + 6 \in Nat /\ pos + 6 >= 1
        BY <1>3
      <4>4. \E e \in (pos + 6)..Len(mem) : mem[e] = 0
        <5>1. PICK z \in 1..Len(behind) : behind[z] = 0
          OBVIOUS
        <5>2. Len(mem) = Len(frame) + Len(behind) /\ Len(behind) \in Nat
          BY <1>1, JoinedLen DEF mem
        <5>3. mem[Len(frame) + z] = 0
          <6>1. /\ Len(frame) + z \in 1..(Len(frame) + Len(behind))
                /\ ~(Len(frame) + z <= Len(frame)) /\ Len(frame) + z - Len(frame) = z
            BY <1>1, <5>2
          <6> QED
            BY <1>1, <5>1, <6>1, ConcatProperties DEF mem
        <5>4. pos + 6 <= Len(frame) + z
          <6>1. PICK n \in Nat : Width(v) = 1 + (IF v.type \in Wide THEN 8 ELSE 4) + n
            BY <1>2, WidthParts
          <6>2. pos + Width(v) <= Len(frame) /\ Width(v) >= 5
            BY <1>1, <1>3, <6>1
          <6> QED
            BY <1>1, <1>3, <5>2, <6>2, SMTT(30)
        <5> QED
          BY <1>1, <5>2, <5>3, <5>4, SMTT(30)
      <4>5. CString(mem, pos + 6) \in Seq(Byte) /\ SubSeq(CString(mem, pos + 6), 1, Len(v.val)) = v.val
        <5> DEFINE at == pos + 6
        <5>1. /\ at \in Nat /\ at >= 1 /\ Holds(mem, at, v.val)
              /\ \E e \in at..Len(mem) : mem[e] = 0
          BY <4>2, <4>3, <4>4
        <5> HIDE DEF at
        <5> DEFINE s == v.val
        <5>2. mem \in Seq(Byte)
          BY <1>1
        <5>3. s \in Seq(Byte \ {0})
          BY <4>1
        <5>4. at \in Nat
          BY <5>1
        <5>5. at >= 1
          BY <5>1
        <5>6. Holds(mem, at, s)
          BY <5>1
        <5>7. \E e \in at..Len(mem) : mem[e] = 0
          BY <5>1
        <5> HIDE DEF s
        <5>8. CString(mem, at) \in Seq(Byte) /\ SubSeq(CString(mem, at), 1, Len(s)) = s
          BY <5>2, <5>3, <5>4, <5>5, <5>6, <5>7, CStringIs, Zenon
        <5> QED
          BY <5>8 DEF at, s
      <4>6. WT_STR # WT_BOOL
        BY DEF WT_STR, WT_BOOL
      <4>7. x = [type |-> WT_STR, val |-> CString(mem, pos + 6)]
        BY <2>3, <3>1, <4>1, <4>6, Zenon DEF x, Handed, wanted
      <4> QED
        BY <3>1, <4>5, <4>7 DEF Got, Same
    <3>2. CASE v.type # WT_STR
      <4>1. v = [type |-> v.type, val |-> v.val]
        BY <1>2, Types
      <4>2. v.type = WT_BOOL => v.val % 256 = v.val
        BY <1>2, Types
      <4>3. x = [type |-> v.type, val |-> v.val]
        BY <2>3, <3>2, <4>2, Zenon DEF x, Handed, wanted
      <4> QED
        BY <1>2, <3>2, <4>1, <4>3 DEF Got, Same
    <3> QED
      BY <3>1, <3>2
  <2>7. /\ c.args \in Seq(Got) /\ Len(c.args) = k - 1
        /\ \A j \in 1..(k - 1) : Same(c.args[j], args[j])
    BY <1>4, <2>1
  <2> DEFINE as == Append(c.args, x)
  <2>8. /\ as \in Seq(Got) /\ Len(as) = k /\ as[k] = x
        /\ \A j \in 1..(k - 1) : as[j] = c.args[j]
    <3>1. as \in Seq(Got) /\ Len(as) = Len(c.args) + 1 /\ as[Len(c.args) + 1] = x
          /\ \A j \in 1..Len(c.args) : as[j] = c.args[j]
      BY <2>6, <2>7, AppendProperties
    <3>2. k - 1 + 1 = k
      BY <1>2
    <3> QED
      BY <2>7, <3>1, <3>2
  <2> HIDE DEF as
  <2>9. \A j \in 1..k : Same(as[j], args[j])
    <3> TAKE j \in 1..k
    <3>1. j = k \/ j \in 1..(k - 1)
      BY <1>2
    <3> QED
      BY <3>1, <2>6, <2>7, <2>8 DEF v
  <2>10. d.r = At(len, End(args, k)) /\ d.args = as /\ d = [r |-> d.r, args |-> d.args]
    <3>1. d = [r |-> At(len, End(args, k)), args |-> as]
      BY <1>1, <2>3, <2>5 DEF as
    <3> HIDE DEF d
    <3> QED
      BY <3>1
  <2>11. End(args, k) <= len /\ At(len, End(args, k)).pos = End(args, k)
    BY <1>1, <1>8 DEF At
  <2>12. d.r.pos <= len
    BY <2>10, <2>11
  <2>13. TurnOK(d, args, k, len)
    BY <2>8, <2>9, <2>10, <2>11, <2>12, Zenon DEF TurnOK
  <2> QED
    BY <2>13 DEF d, mem, frame, wanted, v
<1> QED
  BY <1>3, <1>6, <1>7, <1>8

(* The adapter is given the types the function was declared with, and is run  *)
(* over the first len bytes of the frame.                                     *)
LEMMA RunIs ==
  ASSUME NEW args \in Seq(WireValue), ~SfBody(args).over, NEW behind \in Seq(Byte),
         \E z \in 1..Len(behind) : behind[z] = 0,
         NEW len \in Nat, len <= Len(cerco_sf_submit_raw(args)),
         NEW types, Len(types) = Len(args), \A k \in 1..Len(args) : types[k] = args[k].type
  PROVE  TurnOK(Reads(types, cerco_sf_submit_raw(args) \o behind, len)[Len(args)], args, Len(args), len)
<1> DEFINE mem == cerco_sf_submit_raw(args) \o behind
           c == Reads(types, mem, len)
           n == Len(args)
           S == {k \in 0..n : TurnOK(c[k], args, k, len)}
<1>1. n \in Nat /\ Len(types) = n
  OBVIOUS
<1>2. /\ c[0] = [r |-> r_take(Reader(len), 4), args |-> <<>>]
      /\ \A k \in 1..n : c[k] = ReadArg(mem, c[k - 1], types[k])
  BY <1>1, ReadsTurn
<1>3. End(args, 0) = 4
  BY CallLayout
<1>4. Reader(len) = At(len, 0) /\ 0 \in Nat /\ 4 \in Nat /\ 0 + 4 = 4
  BY DEF Reader, At
<1>5. /\ 4 <= len => r_take(Reader(len), 4) = At(len, 4)
      /\ ~(4 <= len) => r_take(Reader(len), 4).err /\ r_take(Reader(len), 4).pos = 0
  BY <1>4, TakeIs
<1>6. TurnOK(c[0], args, 0, len)
  <2> DEFINE d == c[0]
             r0 == r_take(Reader(len), 4)
  <2>1. d = [r |-> r0, args |-> <<>>]
    BY <1>2
  <2>2. d.r = r0 /\ d.args = <<>> /\ d = [r |-> d.r, args |-> d.args]
    <3> HIDE DEF d, r0
    <3> QED
      BY <2>1
  <2>3. At(len, 4).pos = 4
    BY DEF At
  <2>4. r0.pos <= len
    BY <1>5, <2>3
  <2>5. /\ 4 <= len => r0 = At(len, 4)
        /\ ~(4 <= len) => r0.err
    BY <1>5
  <2> HIDE DEF d, r0
  <2>6. <<>> \in Seq(Got) /\ Len(<<>>) = 0 /\ \A j \in 1..0 : Same(d.args[j], args[j])
    OBVIOUS
  <2>7. TurnOK(d, args, 0, len)
    BY <1>3, <2>2, <2>4, <2>5, <2>6 DEF TurnOK
  <2> QED
    BY <2>7 DEF d
<1>7. \A k \in 0..n : k \in S /\ k < n => k + 1 \in S
  <2> SUFFICES ASSUME NEW k \in 0..n, TurnOK(c[k], args, k, len), k < n
               PROVE  TurnOK(c[k + 1], args, k + 1, len) /\ k + 1 \in 0..n
    OBVIOUS
  <2> DEFINE m == k + 1
  <2>1. m \in 1..n /\ m - 1 = k /\ m \in 0..n
    BY <1>1
  <2>2. TurnOK(c[m - 1], args, m - 1, len)
    BY <2>1
  <2>3. c[m] = ReadArg(mem, c[m - 1], args[m].type)
    BY <1>2, <2>1
  <2> HIDE DEF m, c
  <2>4. TurnOK(ReadArg(mem, c[m - 1], args[m].type), args, m, len)
    BY <2>1, <2>2, TurnKeeps
  <2>5. TurnOK(c[m], args, m, len)
    BY <2>3, <2>4
  <2> QED
    BY <2>1, <2>5 DEF m
<1>8. 0 \in S
  BY <1>1, <1>6
<1> HIDE DEF S, n
<1>9. \A k \in 0..n : k \in S
  BY <1>1, <1>7, <1>8, EveryTurn
<1>10. n \in S
  BY <1>1, <1>9
<1> QED
  BY <1>10 DEF S, n

LEMMA SentCall ==
  ASSUME InputOK, Call
  PROVE  /\ input.args \in Seq(WireValue) /\ ~SfBody(input.args).over
         /\ input.behind \in Seq(Byte) /\ \E z \in 1..Len(input.behind) : input.behind[z] = 0
         /\ Len(ArgTypes) = Len(input.args)
         /\ \A k \in 1..Len(input.args) : ArgTypes[k] = input.args[k].type
         /\ Frame \in Seq(Byte) /\ Len(Frame) \in Nat /\ Len(Frame) = End(input.args, Len(input.args))
<1>1. input.args \in ArgLists /\ input.behind \in Behind
  BY DEF InputOK, Call
<1>2. input.args \in Seq(WireValue)
  BY <1>1, RequestAssumption, WireAssumption DEF ArgLists
<1>3. ~SfBody(input.args).over
  BY DEF Call, Sends
<1>4. input.behind \in Seq(Byte) /\ \E z \in 1..Len(input.behind) : input.behind[z] = 0
  BY <1>1, WireAssumption
<1>5. /\ Len(ArgTypes) = Len(input.args)
      /\ \A k \in 1..Len(input.args) : ArgTypes[k] = input.args[k].type
  <2>1. DOMAIN input.args = 1..Len(input.args) /\ Len(input.args) \in Nat
    BY <1>2
  <2>2. ArgTypes = [k \in 1..Len(input.args) |-> input.args[k].type]
    BY <2>1 DEF ArgTypes
  <2> QED
    BY <2>1, <2>2
<1>6. Frame \in Seq(Byte) /\ Len(Frame) \in Nat /\ Len(Frame) = End(input.args, Len(input.args))
  BY <1>2, <1>3, <1>4, CallLayout DEF Frame
<1> QED
  BY <1>2, <1>3, <1>4, <1>5, <1>6

(* The adapter run over a whole frame, and over a part of one. *)
LEMMA RunOK ==
  ASSUME InputOK, Call, NEW len \in Nat, len <= Len(Frame)
  PROVE  /\ Run(len).read <= len
         /\ len = Len(Frame) =>
              /\ Run(len).status = 200 /\ Run(len).read = len
              /\ Len(Run(len).args) = Len(input.args)
              /\ \A k \in 1..Len(input.args) : Same(Run(len).args[k], input.args[k])
         /\ len < Len(Frame) => Run(len).status = 400
<1> DEFINE c == Reads(ArgTypes, Frame \o input.behind, len)[Len(input.args)]
<1>1. TurnOK(c, input.args, Len(input.args), len)
  BY SentCall, RunIs DEF Frame
<1>2. Len(ArgTypes) = Len(input.args) /\ Len(Frame) = End(input.args, Len(input.args)) /\ Len(Frame) \in Nat
  BY SentCall
<1>3. Run(len) = IF c.r.err THEN [status |-> 400, args |-> <<>>, read |-> c.r.pos]
                 ELSE [status |-> 200, args |-> c.args, read |-> c.r.pos]
  BY <1>2 DEF Run, sf_run
<1> HIDE DEF c
<1>4. c.r.pos <= len /\ Run(len).read = c.r.pos
  BY <1>1, <1>3 DEF TurnOK
<1>5. CASE len = Len(Frame)
  <2>1. End(input.args, Len(input.args)) <= len
    BY <1>2, <1>5
  <2>2. /\ c.r = At(len, len) /\ Len(c.args) = Len(input.args)
        /\ \A k \in 1..Len(input.args) : Same(c.args[k], input.args[k])
    BY <1>1, <1>2, <1>5, <2>1 DEF TurnOK
  <2>3. ~c.r.err /\ c.r.pos = len
    BY <2>2 DEF At
  <2>4. Run(len).status = 200 /\ Run(len).args = c.args
    BY <1>3, <2>3
  <2> QED
    BY <1>4, <1>5, <2>2, <2>3, <2>4
<1>6. CASE len < Len(Frame)
  <2>1. ~(End(input.args, Len(input.args)) <= len)
    BY <1>2, <1>6
  <2>2. c.r.err
    BY <1>1, <2>1 DEF TurnOK
  <2> QED
    BY <1>2, <1>3, <1>4, <1>6, <2>2
<1> QED
  BY <1>2, <1>5, <1>6

(* A call that is sent runs its server function on the arguments of the call  *)
(* (client sf.c 40-93, 125-145; wire.c 39-73; the adapters of build.c         *)
(* 484-509), for every list of arguments.  The induction is over the          *)
(* arguments: the frame holds each behind the last, and the adapter stands in *)
(* front of argument k + 1 when it has read k.                                *)
THEOREM ArgumentsArrive == Spec => []SfArgsArrive
<1>1. InputOK => SfArgsArrive
  <2> SUFFICES ASSUME InputOK, Call
               PROVE  /\ Run(Len(Frame)).status = 200 /\ Run(Len(Frame)).read = Len(Frame)
                      /\ Len(Run(Len(Frame)).args) = Len(input.args)
                      /\ \A k \in DOMAIN input.args :
                           IF ArgTypes[k] = WT_STR
                             THEN SubSeq(Run(Len(Frame)).args[k].val, 1, Len(input.args[k].val))
                                    = input.args[k].val
                             ELSE Run(Len(Frame)).args[k] = input.args[k]
    BY DEF SfArgsArrive
  <2>1. Len(Frame) \in Nat /\ Len(Frame) <= Len(Frame)
    BY SentCall
  <2>2. /\ Run(Len(Frame)).status = 200 /\ Run(Len(Frame)).read = Len(Frame)
        /\ Len(Run(Len(Frame)).args) = Len(input.args)
        /\ \A k \in 1..Len(input.args) : Same(Run(Len(Frame)).args[k], input.args[k])
    BY <2>1, RunOK
  <2>3. DOMAIN input.args = 1..Len(input.args)
    BY SentCall
  <2>4. \A k \in 1..Len(input.args) : ArgTypes[k] = input.args[k].type
    BY SentCall
  <2>5. ASSUME NEW k \in 1..Len(input.args)
        PROVE  IF ArgTypes[k] = WT_STR
                 THEN SubSeq(Run(Len(Frame)).args[k].val, 1, Len(input.args[k].val))
                        = input.args[k].val
                 ELSE Run(Len(Frame)).args[k] = input.args[k]
    <3>1. Same(Run(Len(Frame)).args[k], input.args[k]) /\ ArgTypes[k] = input.args[k].type
      BY <2>2, <2>4
    <3> QED
      BY <3>1 DEF Same
  <2> QED
    BY <2>2, <2>3, <2>5, Zenon
<1> QED
  BY <1>1, InputStays, PTL

(* A call cut short is answered 400 before the function is run, and what lies *)
(* behind the body is not taken for arguments (wire.c 11-16; server sf.c      *)
(* 91-106), for every list of arguments and every length it is cut to.        *)
THEOREM TruncatedRejected == Spec => []SfTruncatedRejected
<1>1. InputOK => SfTruncatedRejected
  <2> SUFFICES ASSUME InputOK, Call, NEW len \in 0..(Len(Frame) - 1)
               PROVE  Run(len).status = 400 /\ Run(len).read <= len
    BY DEF SfTruncatedRejected
  <2>1. Len(Frame) \in Nat
    BY SentCall
  <2>2. len \in Nat /\ len <= Len(Frame) /\ len < Len(Frame)
    BY <2>1
  <2> QED
    BY <2>2, RunOK
<1> QED
  BY <1>1, InputStays, PTL
=============================================================================
