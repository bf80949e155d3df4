------------------------------ MODULE WireFormat ----------------------------
(***************************************************************************)
(* The integer encodings of protobuf-c.c: how many bytes a number takes,   *)
(* the bytes it is packed into, and what they are parsed as.               *)
(*                                                                         *)
(* A byte carries W bits of a base-128 number and the bit that says that   *)
(* more bytes follow; an int has H bits.  They are 7 and 32 in the code.   *)
(* The code relies on 4 * 7 + 4 = 32 and 4 + 3 = 7: four whole bytes of an *)
(* int, then a byte for the rest of it and three bits more, which are the  *)
(* wire-type of a tag or the first ones of the upper half of a uint64_t.   *)
(***************************************************************************)
EXTENDS Integers, Sequences, SequencesExt

CONSTANTS W, H

Full  == H \div W                    \* 4
Len32 == Full + 1                    \* 5
Len64 == (2 * H + W - 1) \div W      \* MAX_UINT64_ENCODED_SIZE
FixedLen == (H + W) \div (W + 1)     \* sizeof (uint32_t)

\* The powers of two, as far as the encodings need them.
MaxBits == (Len64 + 1) * W
Pow2[k \in 0 .. MaxBits] == IF k = 0 THEN 1 ELSE 2 * Pow2[k - 1]

B     == Pow2[W]                     \* 0x80
U32   == Pow2[H]
U64   == Pow2[2 * H]

\* The longest number has no more bytes than a byte has numbers (10 and 128): a
\* sum of lengths takes at most one byte more than the count of them.
ASSUME WireAssumption ==
  /\ W \in Nat \ {0} /\ H \in Nat /\ H >= W
  /\ H - Full * W + 3 = W
  /\ Len64 <= B

AtMost(a, b) == IF a < b THEN a ELSE b

SumOf(ns) ==
  LET Sum[k \in 0 .. Len(ns)] == IF k = 0 THEN 0 ELSE Sum[k - 1] + ns[k]
  IN  Sum[Len(ns)]
-----------------------------------------------------------------------------
(* Sizes.                                                                  *)

\* A chain of "if (v < 1<<first) return from; else if (v < 1<<(first+W)) ...".
Steps(v, first, from, last) ==
  from + Cardinality({k \in 0 .. last - from - 1 : v >= Pow2[first + k * W]})

get_tag_size(number) == Steps(number, W - 3, 1, Len32)

\* Mistake: the largest number of each size is held to be longer.
uint32_size_off(v) == Steps(v + 1, W, 1, Len32)
uint32_size(v) == Steps(v, W, 1, Len32)

int32_size(v) == IF v < 0 THEN Len64 ELSE uint32_size(v)

\* -v and v * 2 wrap around.
\* Mistake: negative numbers are not set apart from positive ones.
zigzag32_even(v) == IF v < 0 THEN (((-v) % U32) * 2) % U32 ELSE (v * 2) % U32
zigzag32(v) == IF v < 0 THEN (((-v) % U32) * 2 - 1) % U32 ELSE (v * 2) % U32

uint64_size(v) ==
  LET upper_v == v \div U32
  IN  IF upper_v = 0 THEN uint32_size(v) ELSE Steps(upper_v, 3, Len32, Len64)

zigzag64(v) == IF v < 0 THEN (((-v) % U64) * 2 - 1) % U64 ELSE (v * 2) % U64
-----------------------------------------------------------------------------
(* Packing: the bytes written to out.                                      *)

\* A byte with more to follow, of the bits above the first k of v.
Group(v, k) == B + ((v \div Pow2[k]) % B)

\* W bits at a time, for at most "turns" times as long as there is more.
Base128(v, turns) ==
  LET n == Cardinality({k \in 1 .. turns : v >= Pow2[k * W]})
  IN  [i \in 1 .. n + 1 |-> IF i <= n THEN Group(v, (i - 1) * W) ELSE v \div Pow2[n * W]]

uint32_pack(value) == Base128(value, Full)

\* A negative number is packed as the 64-bit number that it is.
int32_pack(value) ==
  IF value >= 0 THEN uint32_pack(value)
  ELSE [i \in 1 .. Len64 |->
          IF i <= Len32 THEN Group(value, (i - 1) * W)
          ELSE IF i < Len64 THEN 2 * B - 1
          ELSE Pow2[2 * H - (Len64 - 1) * W] - 1]

\* The middle byte has the last bits of lo and the first three of hi.
uint64_pack(value) ==
  LET hi     == value \div U32
      lo     == value % U32
      middle == (hi % 8) * Pow2[H - Full * W] + lo \div Pow2[Full * W]
      low    == [i \in 1 .. Full |-> Group(lo, (i - 1) * W)]
  IN  IF hi = 0 THEN uint32_pack(lo)
      ELSE IF hi < 8 THEN Append(low, middle)
      ELSE Append(low, B + middle) \o Base128(hi \div 8, Len64)

fixed32_pack(value) ==
  [i \in 1 .. FixedLen |-> (value \div Pow2[(i - 1) * (W + 1)]) % Pow2[W + 1]]

fixed64_pack(value) == fixed32_pack(value % U32) \o fixed32_pack(value \div U32)

boolean_pack(value) == IF value # 0 THEN <<1>> ELSE <<0>>

tag_pack(id) ==
  IF id < Pow2[H - 3] THEN uint32_pack(id * 8) ELSE uint64_pack(id * 8)
-----------------------------------------------------------------------------
(* Parsing.                                                                *)

HasMore(byte) == byte >= B

\* How many bytes the number at the beginning of data takes: 0 if it takes more
\* than max.
NumberLen(data, max) ==
  LET ends == {i \in 1 .. AtMost(max, Len(data)) : ~HasMore(data[i])}
  IN  IF ends = {} THEN 0 ELSE CHOOSE i \in ends : \A j \in ends : i <= j

\* The W low bits of each of the first n bytes, put together.
Bits(data, n) ==
  SumOf([i \in 1 .. n |-> (data[i] % B) * Pow2[(i - 1) * W]])

\* A length of 0 is "bad header".
parse_tag_and_wiretype(data) ==
  LET rv == NumberLen(data, Len32)
  IN  [len |-> rv, tag |-> (Bits(data, rv) \div 8) % U32, wire_type |-> data[1] % 8]

\* The length with its prefix, 0 if it is wrong.  The sum wraps around.
scan_length_prefixed_data(data) ==
  LET hdr_len == NumberLen(data, Len32)
      val     == Bits(data, hdr_len) % U32
      total   == (hdr_len + val) % U32
  IN  [prefix |-> hdr_len,
       len    |-> IF hdr_len = 0 \/ total > Len(data) THEN 0 ELSE total]

scan_varint(data) == NumberLen(data, Len64)

\* The last byte is not masked; what it has too much of is shifted out.
parse_uint32(data) ==
  LET last == IF Len(data) > Full THEN data[Len32] * Pow2[Full * W] ELSE 0
  IN  (Bits(data, AtMost(Len(data), Full)) + last) % U32

parse_uint64(data) ==
  IF Len(data) < Len32 THEN parse_uint32(data) ELSE Bits(data, Len(data)) % U64

unzigzag(v) == IF v % 2 = 1 THEN -(v \div 2) - 1 ELSE v \div 2

parse_fixed_uint32(data) ==
  SumOf([i \in 1 .. FixedLen |-> data[i] * Pow2[(i - 1) * (W + 1)]])

parse_fixed_uint64(data) ==
  parse_fixed_uint32(data) + U32 * parse_fixed_uint32(SubSeq(data, FixedLen + 1, Len(data)))

parse_boolean(data) == IF \E i \in DOMAIN data : data[i] % B # 0 THEN 1 ELSE 0
=============================================================================
