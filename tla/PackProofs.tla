------------------------------ MODULE PackProofs -----------------------------
(***************************************************************************)
(* Packing, for any messages and any width of a byte and of an int: the    *)
(* length of what is written is the length that was counted, and both ways *)
(* of packing write the same bytes.                                        *)
(*                                                                         *)
(* First the encodings: every number, tag and length takes as many bytes   *)
(* as its size function says.  Then values, fields and messages, nested to *)
(* any depth, by induction on it.  Then the program: its loops, in the     *)
(* order in which it calls the functions.  Last the buffers: what the      *)
(* steps of protobuf_c_message_pack_to_buffer do to a stack of them, what  *)
(* simple buffers then hold, and the blocks they have allocated.           *)
(***************************************************************************)
EXTENDS Pack, RecursionLemmas, FiniteSetTheorems, FunctionTheorems

-----------------------------------------------------------------------------
(* Powers of two.                                                          *)

\* Each power of two is twice the one before.
LEMMA Pow2Steps ==
  ASSUME MaxBits \in Nat
  PROVE  Pow2[0] = 1 /\ \A k \in 1 .. MaxBits : Pow2[k] = 2 * Pow2[k - 1]
<1> DEFINE N == MaxBits
           step == [x \in Nat \X (1 .. N) |-> 2 * x[1]]
           Rec(t) == t = [k \in 0 .. N |-> IF k = 0 THEN 1 ELSE 2 * t[k - 1]]
<1> HIDE DEF N
<1>0. N \in Nat
  BY DEF N
<1>1. step \in [Nat \X (1 .. N) -> Nat]
  OBVIOUS
<1>2. PICK t \in [0 .. N -> Nat] : Solves(t, N, 1, step)
  <2> HIDE DEF step
  <2> QED
    BY <1>0, <1>1, RecursionExists
<1>3. Rec(t)
  <2>1. ASSUME NEW k \in 0 .. N PROVE t[k] = IF k = 0 THEN 1 ELSE 2 * t[k - 1]
    <3>1. CASE k = 0
      BY <1>2, <3>1 DEF Solves
    <3>2. CASE k # 0
      <4>1. k \in 1 .. N /\ t[k - 1] \in Nat
        BY <1>0, <1>2, <3>2
      <4>2. t[k] = step[<<t[k - 1], k>>]
        BY <1>2, <4>1 DEF Solves
      <4> QED
        BY <3>2, <4>1, <4>2
    <3> QED
      BY <3>1, <3>2
  <2> QED
    BY <2>1
<1> DEFINE p == CHOOSE t1 : Rec(t1)
<1>4. Rec(p)
  <2> HIDE DEF Rec
  <2> QED
    BY <1>3
<1>5. Pow2 = p
  BY DEF Pow2, N
<1> HIDE DEF p
<1>6. p[0] = 1 /\ \A k \in 1 .. N : p[k] = 2 * p[k - 1]
  BY <1>0, <1>4
<1> QED
  BY <1>5, <1>6 DEF N

\* What the encoding relies on.
LEMMA WidthFacts ==
  /\ W \in Nat /\ W >= 3 /\ H \in Nat /\ H >= W
  /\ Full \in Nat /\ Full >= 1 /\ Full * W \in Nat /\ H = Full * W + W - 3
  /\ Len32 = Full + 1 /\ Len32 \in Nat
  /\ Len64 \in Nat /\ Len64 * W \in Nat /\ 2 * H <= Len64 * W /\ Len64 * W < 2 * H + W
  /\ MaxBits \in Nat /\ MaxBits = Len64 * W + W
  /\ FixedLen \in Nat /\ FixedLen >= 1
<1>1. W \in Nat \ {0} /\ H \in Nat /\ H >= W /\ H - Full * W + 3 = W
  BY WireAssumption
<1>2. Full \in Nat /\ Full >= 1 /\ Full * W <= H /\ H < Full * W + W
  <2>1. \A a \in Nat, b \in Nat \ {0} : a \div b \in Nat /\ b * (a \div b) <= a /\ a < b * (a \div b) + b
    OBVIOUS
  <2>2. Full \in Nat /\ W * Full <= H /\ H < W * Full + W
    BY <1>1, <2>1 DEF Full
  <2>3. W * Full = Full * W
    BY <1>1, <2>2
  <2>4. Full # 0
    <3>1. CASE Full = 0
      <4>1. W * Full = 0
        BY <1>1, <3>1
      <4> QED
        BY <1>1, <2>2, <4>1
    <3> QED
      BY <3>1
  <2> QED
    BY <2>2, <2>3, <2>4
<1>3. Full * W \in Nat
  BY <1>1, <1>2
<1>4. Len64 \in Nat /\ Len64 * W <= 2 * H + W - 1 /\ 2 * H + W - 1 < Len64 * W + W /\ Len64 * W \in Nat
  <2>1. \A a \in Nat, b \in Nat \ {0} : a \div b \in Nat /\ b * (a \div b) <= a /\ a < b * (a \div b) + b
    OBVIOUS
  <2>2. 2 * H + W - 1 \in Nat
    BY <1>1
  <2>3. Len64 \in Nat /\ W * Len64 <= 2 * H + W - 1 /\ 2 * H + W - 1 < W * Len64 + W
    BY <1>1, <2>1, <2>2 DEF Len64
  <2>4. W * Len64 = Len64 * W /\ Len64 * W \in Nat
    BY <1>1, <2>3
  <2> QED
    BY <2>3, <2>4
<1>5. MaxBits \in Nat /\ MaxBits = Len64 * W + W
  <2>1. (Len64 + 1) * W = Len64 * W + W
    BY <1>1, <1>4
  <2> QED
    BY <1>1, <1>4, <2>1 DEF MaxBits
<1>6. FixedLen \in Nat /\ FixedLen >= 1
  <2>1. \A a \in Nat, b \in Nat \ {0} : a \div b \in Nat /\ a < b * (a \div b) + b
    OBVIOUS
  <2>2. H + W \in Nat /\ W + 1 \in Nat \ {0}
    BY <1>1
  <2>3. FixedLen \in Nat /\ H + W < (W + 1) * FixedLen + (W + 1)
    BY <2>1, <2>2 DEF FixedLen
  <2>4. CASE FixedLen = 0
    <3>1. (W + 1) * FixedLen = 0
      BY <1>1, <2>4
    <3> QED
      BY <1>1, <2>3, <3>1
  <2> QED
    BY <2>3, <2>4
<1> QED
  BY <1>1, <1>2, <1>3, <1>4, <1>5, <1>6 DEF Len32

\* The powers of two are natural numbers, and at least 1.
LEMMA Pow2Type == \A k \in 0 .. MaxBits : Pow2[k] \in Nat /\ Pow2[k] >= 1
<1>1. MaxBits \in Nat
  BY WidthFacts
<1>2. Pow2[0] = 1 /\ \A k \in 1 .. MaxBits : Pow2[k] = 2 * Pow2[k - 1]
  BY <1>1, Pow2Steps
<1> DEFINE Bad == {k \in 0 .. MaxBits : ~(Pow2[k] \in Nat /\ Pow2[k] >= 1)}
<1>3. ASSUME NEW m \in Bad, \A y \in Bad : m <= y PROVE FALSE
  <2>1. m # 0 /\ m \in 0 .. MaxBits
    BY <1>2
  <2>2. m - 1 \in 0 .. MaxBits /\ m - 1 \notin Bad /\ m \in 1 .. MaxBits
    BY <1>1, <1>3, <2>1
  <2>3. Pow2[m - 1] \in Nat /\ Pow2[m - 1] >= 1
    BY <2>2
  <2> QED
    BY <1>2, <2>2, <2>3
<1>4. Bad = {}
  <2> HIDE DEF Bad
  <2>1. Bad \in SUBSET Nat
    BY <1>1 DEF Bad
  <2> QED
    BY <1>3, <2>1, SmallestExists
<1> QED
  BY <1>4

\* The powers of two multiply.
LEMMA Pow2Sum ==
  ASSUME NEW a \in Nat, NEW b \in Nat, a + b <= MaxBits
  PROVE  Pow2[a + b] = Pow2[a] * Pow2[b]
<1>1. MaxBits \in Nat
  BY WidthFacts
<1>2. Pow2[0] = 1 /\ \A k \in 1 .. MaxBits : Pow2[k] = 2 * Pow2[k - 1]
  BY <1>1, Pow2Steps
<1> DEFINE Bad == {k \in 0 .. b : Pow2[a + k] # Pow2[a] * Pow2[k]}
<1>3. ASSUME NEW m \in Bad, \A y \in Bad : m <= y PROVE FALSE
  <2>0. Pow2[a] \in Nat
    BY <1>1, Pow2Type
  <2>1. m # 0 /\ m \in 0 .. b
    <3>1. Pow2[a + 0] = Pow2[a] * Pow2[0]
      BY <1>2, <2>0
    <3> QED
      BY <3>1
  <2>2. m - 1 \in 0 .. b /\ m - 1 \notin Bad /\ m \in 1 .. MaxBits /\ a + m \in 1 .. MaxBits
        /\ (a + m) - 1 = a + (m - 1)
    BY <1>1, <1>3, <2>1
  <2>3. Pow2[a + (m - 1)] = Pow2[a] * Pow2[m - 1]
    BY <2>2
  <2>4. Pow2[a + m] = 2 * Pow2[a + (m - 1)] /\ Pow2[m] = 2 * Pow2[m - 1]
    BY <1>2, <2>2
  <2>5. Pow2[m - 1] \in Nat
    BY <1>1, <2>2, Pow2Type
  <2>6. Pow2[a] * (2 * Pow2[m - 1]) = 2 * (Pow2[a] * Pow2[m - 1])
    BY <2>0, <2>5
  <2>7. Pow2[a + m] = Pow2[a] * Pow2[m]
    BY <2>3, <2>4, <2>6
  <2> QED
    BY <2>7
<1>4. Bad = {}
  <2> HIDE DEF Bad
  <2>1. Bad \in SUBSET Nat
    BY DEF Bad
  <2> QED
    BY <1>3, <2>1, SmallestExists
<1>5. b \in 0 .. b /\ b \notin Bad
  <2> HIDE DEF Bad
  <2> QED
    BY <1>4
<1> QED
  BY <1>5

\* The powers of two grow.
LEMMA Pow2Grows ==
  ASSUME NEW a \in Nat, NEW b \in Nat, a <= b, b <= MaxBits
  PROVE  Pow2[a] <= Pow2[b]
<1>1. MaxBits \in Nat
  BY WidthFacts
<1>2. PICK c \in Nat : b = a + c
  <2>1. b - a \in Nat /\ b = a + (b - a)
    OBVIOUS
  <2> QED
    BY <2>1
<1>3. Pow2[b] = Pow2[a] * Pow2[c]
  BY <1>1, <1>2, Pow2Sum
<1>4. Pow2[a] \in Nat /\ Pow2[c] \in Nat /\ Pow2[c] >= 1
  BY <1>1, <1>2, Pow2Type
<1> QED
  BY <1>3, <1>4

\* Multiples of W.
LEMMA TimesW ==
  ASSUME NEW a \in Nat, NEW b \in Nat
  PROVE  /\ a * W \in Nat /\ (a + 1) * W = a * W + W
         /\ a <= b => a * W <= b * W
         /\ a * W < b * W => a < b
         /\ a < b => a * W + W <= b * W
<1>1. W \in Nat
  BY WidthFacts
<1>2. a * W \in Nat /\ b * W \in Nat /\ (a + 1) * W = a * W + W
  BY <1>1
<1>3. ASSUME NEW x \in Nat, NEW y \in Nat, x <= y PROVE x * W <= y * W
  BY <1>1, <1>3
<1>4. a < b => (a + 1) * W <= b * W
  BY <1>3
<1> QED
  BY <1>2, <1>3, <1>4

\* What 0x80, 2^32 and 2^64 have in common with the small numbers.
LEMMA PowerFacts ==
  /\ B \in Nat /\ B >= 8 /\ U32 \in Nat /\ U32 >= 8 /\ U64 = U32 * U32 /\ U64 \in Nat /\ U64 >= 1
  /\ Len64 <= B /\ Len32 * W = H + 3 /\ Len32 <= Len64
  /\ Pow2[0] = 1 /\ Pow2[1] = 2 /\ Pow2[2] = 4 /\ Pow2[3] = 8
<1>1. /\ W \in Nat /\ W >= 3 /\ H \in Nat /\ H >= W /\ 2 * H <= Len64 * W /\ MaxBits = Len64 * W + W
      /\ MaxBits \in Nat /\ Len64 \in Nat /\ Full \in Nat /\ Len32 = Full + 1 /\ H = Full * W + W - 3
      /\ Len64 * W \in Nat
  BY WidthFacts
<1>2. Pow2[0] = 1 /\ \A k \in 1 .. MaxBits : Pow2[k] = 2 * Pow2[k - 1]
  BY <1>1, Pow2Steps
<1>3. Pow2[1] = 2 /\ Pow2[2] = 4 /\ Pow2[3] = 8
  <2>1. 1 \in 1 .. MaxBits /\ 2 \in 1 .. MaxBits /\ 3 \in 1 .. MaxBits
    BY <1>1
  <2>2. Pow2[1] = 2 * Pow2[1 - 1] /\ Pow2[2] = 2 * Pow2[2 - 1] /\ Pow2[3] = 2 * Pow2[3 - 1]
    BY <1>2, <2>1
  <2>3. 1 - 1 = 0 /\ 2 - 1 = 1 /\ 3 - 1 = 2
    OBVIOUS
  <2> QED
    BY <1>2, <2>2, <2>3
<1>4. B \in Nat /\ B >= 8
  BY <1>1, <1>3, Pow2Grows, Pow2Type DEF B
<1>5. U32 \in Nat /\ U32 >= 8
  BY <1>1, <1>3, Pow2Grows, Pow2Type DEF U32
<1>6. U64 = U32 * U32
  <2>1. 2 * H = H + H
    BY <1>1
  <2> QED
    BY <1>1, <2>1, Pow2Sum DEF U32, U64
<1>7. Len32 * W = H + 3
  BY <1>1, TimesW
<1>8. Len32 <= Len64
  <2>1. Len32 * W < Len64 * W + W /\ Len32 \in Nat /\ Len64 + 1 \in Nat
    BY <1>1, <1>7
  <2>2. Len32 * W < (Len64 + 1) * W
    BY <1>1, <2>1, TimesW
  <2>3. Len32 < Len64 + 1
    BY <2>1, <2>2, TimesW
  <2> QED
    BY <1>1, <2>1, <2>3
<1>9. U64 \in Nat /\ U64 >= 1
  BY <1>1, Pow2Type DEF U64
<1> QED
  BY <1>3, <1>2, <1>4, <1>5, <1>6, <1>7, <1>8, <1>9, WireAssumption
-----------------------------------------------------------------------------
(* Counting.                                                               *)

\* A set of numbers that is moved has as many elements.
LEMMA SameCount ==
  ASSUME NEW S \in SUBSET Int, IsFiniteSet(S), NEW T \in SUBSET Int, NEW c \in Int,
         \A k \in S : k + c \in T, \A k \in T : k - c \in S
  PROVE  IsFiniteSet(T) /\ Cardinality(T) = Cardinality(S)
<1> DEFINE g == [k \in S |-> k + c]
<1>1. g \in Bijection(S, T)
  <2>1. g \in [S -> T]
    OBVIOUS
  <2>2. \A a, b \in S : g[a] = g[b] => a = b
    OBVIOUS
  <2>3. \A t \in T : \E s \in S : g[s] = t
    <3> TAKE t \in T
    <3>1. t - c \in S /\ g[t - c] = t
      OBVIOUS
    <3> QED
      BY <3>1
  <2> QED
    BY <2>1, <2>2, <2>3 DEF Bijection, Injection, Surjection, IsInjective
<1> QED
  BY <1>1, FS_Bijection DEF ExistsBijection

\* A set of numbers from 1 on without gaps.
LEMMA NoGaps ==
  ASSUME NEW n \in Nat, NEW S \in SUBSET (1 .. n), \A k \in S : k = 1 \/ k - 1 \in S
  PROVE  IsFiniteSet(S) /\ Cardinality(S) \in 0 .. n /\ S = 1 .. Cardinality(S)
<1>0. IsFiniteSet(1 .. n) /\ Cardinality(1 .. n) = n
  BY FS_Interval
<1>1. \A k \in S : \A j \in 1 .. k : j \in S
  <2> SUFFICES ASSUME NEW k \in S, NEW j \in 1 .. k, j \notin S PROVE FALSE
    OBVIOUS
  <2> DEFINE Above == {x \in S : x >= j}
  <2>1. Above \in SUBSET Nat /\ Above # {}
    <3>1. k \in Above /\ \A x \in S : x \in Nat
      OBVIOUS
    <3> QED
      BY <3>1
  <2>2. PICK x \in Above : \A y \in Above : x <= y
    <3> HIDE DEF Above
    <3> QED
      BY <2>1, SmallestExists
  <2>3. x # j /\ x - 1 \in S /\ x - 1 >= j
    OBVIOUS
  <2> QED
    BY <2>2, <2>3
<1>2. \E m \in 0 .. n : S = 1 .. m
  <2>1. CASE S = 1 .. n
    BY <2>1
  <2>2. CASE S # 1 .. n
    <3> DEFINE Out == (1 .. n) \ S
    <3>1. Out \in SUBSET Nat /\ Out # {}
      <4>1. \A x \in Out : x \in Nat
        OBVIOUS
      <4>2. \E x \in 1 .. n : x \notin S
        BY <2>2
      <4> QED
        BY <4>1, <4>2
    <3>2. PICK x \in Out : \A y \in Out : x <= y
      <4> HIDE DEF Out
      <4> QED
        BY <3>1, SmallestExists
    <3>3. S = 1 .. x - 1
      <4>0. x \in 1 .. n /\ x \notin S
        OBVIOUS
      <4>1. \A k \in S : k \in 1 .. x - 1
        BY <1>1, <4>0
      <4>2. \A k \in 1 .. x - 1 : k \in S
        BY <3>2, <4>0
      <4> QED
        BY <4>1, <4>2
    <3> QED
      BY <3>3
  <2> QED
    BY <2>1, <2>2
<1>3. PICK m \in 0 .. n : S = 1 .. m
  BY <1>2
<1>4. Cardinality(S) = m /\ IsFiniteSet(S)
  BY <1>3, FS_Interval
<1> QED
  BY <1>3, <1>4
-----------------------------------------------------------------------------
(* Numbers: how long they are, and what they are made of.                  *)

\* A byte: W bits, and the one that says that more bytes follow.
Byte == 0 .. 2 * B - 1

\* The turns of the loop of Base128.
Passed(v, turns) == {k \in 1 .. turns : v >= Pow2[k * W]}

\* The bytes that are followed by another one are the first ones.
LEMMA Base128Count ==
  ASSUME NEW v \in Int, NEW turns \in 0 .. Len64
  PROVE  /\ IsFiniteSet(Passed(v, turns)) /\ Cardinality(Passed(v, turns)) \in 0 .. turns
         /\ Passed(v, turns) = 1 .. Cardinality(Passed(v, turns))
<1> DEFINE S == Passed(v, turns)
<1>0. Len64 \in Nat /\ W \in Nat /\ MaxBits = Len64 * W + W /\ MaxBits \in Nat
  BY WidthFacts
<1>1. ASSUME NEW k \in S, k # 1 PROVE k - 1 \in S
  <2>1. k \in Nat /\ k - 1 \in Nat /\ k - 1 \in 1 .. turns /\ k <= Len64
    BY <1>0, <1>1 DEF Passed
  <2>2. (k - 1) * W <= k * W /\ (k - 1) * W \in Nat /\ k * W \in Nat /\ k * W <= Len64 * W
    BY <1>0, <2>1, TimesW
  <2>3. k * W <= MaxBits
    BY <1>0, <2>2, TimesW
  <2>4. Pow2[(k - 1) * W] <= Pow2[k * W]
    BY <2>2, <2>3, Pow2Grows
  <2>5. Pow2[(k - 1) * W] \in Nat /\ Pow2[k * W] \in Nat
    BY <1>0, <2>2, <2>3, Pow2Type
  <2> QED
    BY <2>1, <2>4, <2>5 DEF Passed
<1> HIDE DEF S
<1>2. S \in SUBSET (1 .. turns) /\ turns \in Nat
  BY <1>0 DEF S, Passed
<1> QED
  BY <1>1, <1>2, NoGaps DEF S

\* Division by a power of two, with its remainder.
LEMMA DivFacts ==
  ASSUME NEW a \in Int, NEW p \in Nat, p >= 1
  PROVE  /\ a \div p \in Int /\ a % p \in 0 .. p - 1 /\ a = p * (a \div p) + (a % p)
         /\ a >= 0 => a \div p \in Nat
         /\ \A b \in Nat : 0 <= a /\ a < p * b => a \div p < b
<1>1. a \div p \in Int /\ a % p \in 0 .. p - 1 /\ a = p * (a \div p) + (a % p)
  OBVIOUS
<1>2. a >= 0 => a \div p \in Nat
  OBVIOUS
<1>3. ASSUME NEW b \in Nat, 0 <= a, a < p * b PROVE a \div p < b
  <2> DEFINE q == a \div p
  <2>1. q \in Nat /\ p * q <= a
    BY <1>1, <1>2, <1>3
  <2> HIDE DEF q
  <2>2. ASSUME q >= b PROVE FALSE
    <3>1. p * q >= p * b
      BY <2>1, <2>2
    <3> QED
      BY <1>3, <2>1, <3>1
  <2> QED
    BY <2>1, <2>2 DEF q
<1> QED
  BY <1>1, <1>2, <1>3

\* A function on 1 .. n is a sequence of n elements.
LEMMA FunctionIsSeq ==
  ASSUME NEW S, NEW n \in Nat, NEW s \in [1 .. n -> S]
  PROVE  s \in Seq(S) /\ Len(s) = n /\ DOMAIN s = 1 .. n
OBVIOUS

\* A quotient is less than b if the number is less than b times the divisor.
LEMMA DivLess ==
  ASSUME NEW a \in Nat, NEW p \in Nat, p >= 1, NEW b \in Nat, a < p * b
  PROVE  a \div p \in Nat /\ a \div p < b
BY DivFacts

\* A byte with more to follow is a byte with its highest bit set.
LEMMA GroupByte ==
  ASSUME NEW v \in Int, NEW k \in 0 .. MaxBits
  PROVE  Group(v, k) \in B .. 2 * B - 1
<1>1. MaxBits \in Nat /\ B \in Nat /\ B >= 8
  BY WidthFacts, PowerFacts
<1>2. Pow2[k] \in Nat /\ Pow2[k] >= 1
  BY Pow2Type
<1>3. v \div Pow2[k] \in Int
  BY <1>2, DivFacts
<1>4. (v \div Pow2[k]) % B \in 0 .. B - 1
  <2> DEFINE q == v \div Pow2[k]
  <2>1. q \in Int
    BY <1>3
  <2> HIDE DEF q
  <2>2. q % B \in 0 .. B - 1
    BY <1>1, <2>1, DivFacts
  <2> QED
    BY <2>2 DEF q
<1> QED
  BY <1>1, <1>4 DEF Group

\* What is written W bits at a time: as many bytes as the number passes powers,
\* and one more; bytes they are if the last one can hold the rest.
LEMMA Base128Bytes ==
  ASSUME NEW v \in Nat, NEW turns \in 0 .. Len64
  PROVE  /\ Base128(v, turns) \in Seq(Nat)
         /\ Len(Base128(v, turns)) = Cardinality(Passed(v, turns)) + 1
         /\ v < Pow2[(turns + 1) * W] => Base128(v, turns) \in Seq(Byte)
<1> DEFINE S == Passed(v, turns)
           c == Cardinality(S)
           b == Base128(v, turns)
<1>0. Len64 \in Nat /\ W \in Nat /\ MaxBits = Len64 * W + W /\ MaxBits \in Nat /\ B \in Nat /\ B >= 8
  BY WidthFacts, PowerFacts
<1>1. c \in 0 .. turns /\ S = 1 .. c
  BY Base128Count
<1>2. b = [i1 \in 1 .. c + 1 |-> IF i1 <= c THEN Group(v, (i1 - 1) * W) ELSE v \div Pow2[c * W]]
  BY DEF Base128, Passed
<1> HIDE DEF c, b
<1>3. c * W \in 0 .. MaxBits /\ c \in Nat /\ c <= turns /\ turns <= Len64
  <2>1. c \in Nat /\ c <= Len64
    BY <1>0, <1>1
  <2> QED
    BY <1>0, <1>1, <2>1, TimesW
<1>4. v \div Pow2[c * W] \in Nat
  BY <1>3, Pow2Type, DivFacts
<1>5. \A k \in 1 .. c : Group(v, (k - 1) * W) \in B .. 2 * B - 1
  <2> TAKE k \in 1 .. c
  <2>1. k - 1 \in Nat /\ k - 1 <= c
    BY <1>3
  <2>2. (k - 1) * W \in 0 .. MaxBits
    <3>1. (k - 1) * W \in Nat /\ (k - 1) * W <= c * W
      BY <1>3, <2>1, TimesW
    <3> QED
      BY <1>0, <1>3, <3>1
  <2> QED
    BY <2>2, GroupByte
<1>6. ASSUME v < Pow2[(turns + 1) * W] PROVE v \div Pow2[c * W] < B
  <2>1. v < Pow2[(c + 1) * W]
    <3>1. CASE c = turns
      BY <1>6, <3>1
    <3>2. CASE c # turns
      <4>1. c + 1 \in 1 .. turns /\ c + 1 \notin S
        <5> HIDE DEF S
        <5> QED
          BY <1>1, <1>3, <3>2
      <4>2. (c + 1) * W \in 0 .. MaxBits
        <5>1. c + 1 \in Nat /\ c + 1 <= Len64
          BY <1>0, <1>3, <4>1
        <5>2. (c + 1) * W \in Nat /\ (c + 1) * W <= Len64 * W
          BY <1>0, <5>1, TimesW
        <5> QED
          BY <1>0, <5>2, TimesW
      <4>3. Pow2[(c + 1) * W] \in Nat
        BY <4>2, Pow2Type
      <4> QED
        BY <4>1, <4>3 DEF Passed
    <3> QED
      BY <3>1, <3>2
  <2>2. Pow2[(c + 1) * W] = Pow2[c * W] * B
    <3>1. (c + 1) * W = c * W + W
      BY <1>3, TimesW
    <3>2. c * W + W <= MaxBits /\ c * W \in Nat
      <4>1. c * W <= Len64 * W
        BY <1>0, <1>3, TimesW
      <4> QED
        BY <1>0, <1>3, <4>1, TimesW
    <3> QED
      BY <1>0, <3>1, <3>2, Pow2Sum DEF B
  <2>3. Pow2[c * W] \in Nat /\ Pow2[c * W] >= 1
    BY <1>3, Pow2Type
  <2>4. v < Pow2[c * W] * B
    BY <2>1, <2>2
  <2> DEFINE P == Pow2[c * W]
  <2>5. P \in Nat /\ P >= 1 /\ v < P * B
    BY <2>3, <2>4
  <2> HIDE DEF P
  <2>6. v \div P < B
    BY <1>0, <2>5, DivFacts
  <2> QED
    BY <2>6 DEF P
<1> HIDE DEF S, c, b
<1>7. b \in Seq(Nat) /\ Len(b) = c + 1
  <2>1. \A k \in 1 .. c + 1 : b[k] \in Nat
    BY <1>0, <1>2, <1>3, <1>4, <1>5
  <2> QED
    BY <1>2, <1>3, <2>1
<1>8. ASSUME v < Pow2[(turns + 1) * W] PROVE b \in Seq(Byte)
  <2>1. v \div Pow2[c * W] \in Byte
    BY <1>0, <1>4, <1>6, <1>8 DEF Byte
  <2>2. \A k \in 1 .. c + 1 : b[k] \in Byte
    BY <1>0, <1>2, <1>3, <1>5, <2>1 DEF Byte
  <2> QED
    BY <1>2, <1>3, <2>2
<1> QED
  BY <1>7, <1>8 DEF S, c, b

\* uint32_pack writes as many bytes as uint32_size says.
LEMMA Uint32Pack ==
  ASSUME NEW v \in Nat
  PROVE  /\ uint32_pack(v) \in Seq(Nat)
         /\ Len(uint32_pack(v)) = uint32_size(v) /\ uint32_size(v) \in 1 .. Len32
         /\ v < U32 => uint32_pack(v) \in Seq(Byte)
<1> DEFINE S == Passed(v, Full)
           T == {k \in 0 .. Len32 - 1 - 1 : v >= Pow2[W + k * W]}
<1>0. /\ Len64 \in Nat /\ W \in Nat /\ Full \in Nat /\ Len32 = Full + 1 /\ Full \in 0 .. Len64
      /\ Len32 * W = H + 3 /\ H \in Nat /\ MaxBits \in Nat /\ MaxBits = Len64 * W + W
  BY WidthFacts, PowerFacts
<1>1. IsFiniteSet(S) /\ Cardinality(S) \in 0 .. Full
  BY <1>0, Base128Count
<1>2. IsFiniteSet(T) /\ Cardinality(T) = Cardinality(S)
  <2>1. \A k \in Nat : W + k * W = (k + 1) * W
    BY <1>0, TimesW
  <2>2. \A k \in S : k + (-1) \in T
    <3> TAKE k \in S
    <3>0. k \in 1 .. Full /\ v >= Pow2[k * W]
      BY DEF Passed
    <3>1. k - 1 \in Nat /\ k - 1 \in 0 .. Len32 - 1 - 1 /\ (k - 1) + 1 = k /\ k + (-1) = k - 1
      BY <1>0, <3>0
    <3>2. W + (k - 1) * W = k * W
      BY <2>1, <3>1
    <3> QED
      BY <3>0, <3>1, <3>2
  <2>3. \A k \in T : k - (-1) \in S
    <3> TAKE k \in T
    <3>1. k \in Nat /\ k + 1 \in 1 .. Full /\ k - (-1) = k + 1
      BY <1>0
    <3>2. W + k * W = (k + 1) * W
      BY <2>1, <3>1
    <3> QED
      BY <3>1, <3>2 DEF Passed
  <2>4. S \in SUBSET Int /\ T \in SUBSET Int
    BY DEF Passed
  <2> HIDE DEF S, T
  <2> QED
    BY <1>1, <2>2, <2>3, <2>4, SameCount
<1>3. uint32_size(v) = 1 + Cardinality(T)
  BY DEF uint32_size, Steps
<1>4. ASSUME v < U32 PROVE v < Pow2[(Full + 1) * W]
  <2>1. (Full + 1) * W = H + 3 /\ H + 3 <= MaxBits
    <3>1. Len32 \in Nat /\ Len32 <= Len64
      BY <1>0, PowerFacts
    <3>2. Len32 * W <= Len64 * W /\ Len64 * W \in Nat
      BY <1>0, <3>1, TimesW
    <3> QED
      BY <1>0, <3>2
  <2>2. Pow2[H] <= Pow2[H + 3] /\ Pow2[H] \in Nat /\ Pow2[H + 3] \in Nat
    BY <1>0, <2>1, Pow2Grows, Pow2Type
  <2> QED
    BY <1>4, <2>1, <2>2 DEF U32
<1> HIDE DEF S, T
<1>5. uint32_pack(v) \in Seq(Nat) /\ Len(uint32_pack(v)) = Cardinality(S) + 1
  BY <1>0, Base128Bytes DEF uint32_pack, S
<1>6. v < U32 => uint32_pack(v) \in Seq(Byte)
  BY <1>0, <1>4, Base128Bytes DEF uint32_pack
<1> QED
  BY <1>0, <1>1, <1>2, <1>3, <1>5, <1>6

\* The lower and the upper half of a number.
LEMMA Halves ==
  ASSUME NEW v \in 0 .. U64 - 1
  PROVE  /\ v \div U32 \in 0 .. U32 - 1 /\ v % U32 \in 0 .. U32 - 1
         /\ v = U32 * (v \div U32) + (v % U32)
<1>1. U32 \in Nat /\ U32 >= 8 /\ U64 = U32 * U32 /\ U64 \in Nat
  BY PowerFacts
<1>2. v \in Nat /\ v < U32 * U32
  BY <1>1
<1> DEFINE u == U32
<1>3. u \in Nat /\ u >= 1 /\ v \in Nat /\ v < u * u
  BY <1>1, <1>2
<1> HIDE DEF u
<1>4. v \div u \in Nat /\ v \div u < u
  BY <1>3, DivLess
<1>5. v % u \in 0 .. u - 1 /\ v = u * (v \div u) + (v % u)
  BY <1>3, DivFacts
<1> QED
  BY <1>3, <1>4, <1>5 DEF u

\* The byte that both halves share.
LEMMA MiddleByte ==
  ASSUME NEW hi \in Nat, NEW lo \in 0 .. U32 - 1
  PROVE  (hi % 8) * Pow2[H - Full * W] + lo \div Pow2[Full * W] \in 0 .. B - 1
<1> DEFINE P == Pow2[H - Full * W]
           Q == Pow2[Full * W]
<1>0. /\ Full * W \in Nat /\ H \in Nat /\ W \in Nat /\ W >= 3 /\ H = Full * W + W - 3
      /\ MaxBits \in Nat /\ H <= MaxBits /\ W <= MaxBits
  BY WidthFacts
<1>1. H - Full * W \in Nat /\ H - Full * W + Full * W = H /\ H - Full * W + 3 = W /\ H - Full * W <= H
      /\ Full * W + (H - Full * W) = H /\ Full * W <= MaxBits
  BY <1>0
<1>2. P \in Nat /\ P >= 1 /\ Q \in Nat /\ Q >= 1
  BY <1>0, <1>1, Pow2Type
<1>3. U32 = Q * P
  <2>1. Pow2[Full * W + (H - Full * W)] = Q * P
    BY <1>0, <1>1, Pow2Sum
  <2> QED
    BY <1>1, <2>1 DEF U32
<1>4. B = P * 8
  <2>1. Pow2[(H - Full * W) + 3] = P * Pow2[3]
    BY <1>0, <1>1, Pow2Sum
  <2>2. Pow2[3] = 8
    BY PowerFacts
  <2> QED
    BY <1>1, <2>1, <2>2 DEF B
<1> HIDE DEF P, Q
<1>5. lo \in Nat /\ lo < Q * P
  BY <1>2, <1>3
<1>6. lo \div Q \in Nat /\ lo \div Q < P
  BY <1>2, <1>5, DivLess
<1>7. hi % 8 \in 0 .. 7
  OBVIOUS
<1> DEFINE x == hi % 8
           y == lo \div Q
<1> HIDE DEF x, y
<1>8. x \in 0 .. 7 /\ y \in Nat /\ y < P
  BY <1>6, <1>7 DEF x, y
<1>9. x * P \in Nat /\ x * P <= 7 * P
  BY <1>2, <1>8
<1>10. x * P + y \in 0 .. B - 1
  BY <1>2, <1>4, <1>8, <1>9
<1> QED
  BY <1>10 DEF x, y, P, Q

\* The whole bytes of the lower half of a uint64_t.
LEMMA LowBytes ==
  ASSUME NEW lo \in Int
  PROVE  /\ [k \in 1 .. Full |-> Group(lo, (k - 1) * W)] \in Seq(Byte)
         /\ Len([k \in 1 .. Full |-> Group(lo, (k - 1) * W)]) = Full
<1>0. /\ Full \in Nat /\ Len32 = Full + 1 /\ Len32 <= Len64 /\ Len64 \in Nat /\ W \in Nat
      /\ Len64 * W \in Nat /\ MaxBits = Len64 * W + W /\ B \in Nat /\ B >= 8 /\ MaxBits \in Nat
  BY WidthFacts, PowerFacts
<1>1. ASSUME NEW k \in 1 .. Full PROVE Group(lo, (k - 1) * W) \in Byte
  <2>1. k - 1 \in Nat /\ k - 1 <= Len64
    BY <1>0
  <2>2. (k - 1) * W \in Nat /\ (k - 1) * W <= Len64 * W
    BY <1>0, <2>1, TimesW
  <2>3. (k - 1) * W \in 0 .. MaxBits
    BY <1>0, <2>2
  <2>4. Group(lo, (k - 1) * W) \in B .. 2 * B - 1
    BY <2>3, GroupByte
  <2> QED
    BY <1>0, <2>4 DEF Byte
<1> QED
  BY <1>0, <1>1

\* uint64_pack writes as many bytes as uint64_size says.
LEMMA Uint64Pack ==
  ASSUME NEW v \in 0 .. U64 - 1
  PROVE  /\ uint64_pack(v) \in Seq(Byte)
         /\ Len(uint64_pack(v)) = uint64_size(v) /\ uint64_size(v) \in 1 .. Len64
<1> DEFINE hi == v \div U32
           lo == v % U32
           middle == (hi % 8) * Pow2[H - Full * W] + lo \div Pow2[Full * W]
           low == [k \in 1 .. Full |-> Group(lo, (k - 1) * W)]
           T == {k \in 0 .. Len64 - Len32 - 1 : hi >= Pow2[3 + k * W]}
<1>1. hi \in 0 .. U32 - 1 /\ lo \in 0 .. U32 - 1 /\ v = U32 * hi + lo
  BY Halves
<1>2. /\ U32 \in Nat /\ U32 >= 8 /\ B \in Nat /\ B >= 8 /\ Full \in Nat /\ Len32 = Full + 1
      /\ Len64 \in Nat /\ Len32 <= Len64 /\ H \in Nat /\ W \in Nat /\ W >= 3 /\ MaxBits \in Nat
      /\ Len64 * W \in Nat /\ MaxBits = Len64 * W + W /\ Len32 * W = H + 3 /\ 2 * H <= Len64 * W
      /\ Pow2[3] = 8
  BY WidthFacts, PowerFacts
<1>a. hi \in Nat /\ lo \in Int /\ lo \in 0 .. U32 - 1
  BY <1>1
<1>3. middle \in 0 .. B - 1
  <2> HIDE DEF hi, lo
  <2> QED
    BY <1>a, MiddleByte
<1>4. low \in Seq(Byte) /\ Len(low) = Full
  <2> HIDE DEF hi, lo
  <2> QED
    BY <1>a, LowBytes
<1>5. uint64_pack(v) = IF hi = 0 THEN uint32_pack(lo)
                       ELSE IF hi < 8 THEN Append(low, middle)
                       ELSE Append(low, B + middle) \o Base128(hi \div 8, Len64)
  BY DEF uint64_pack
<1>6. uint64_size(v) = IF hi = 0 THEN uint32_size(v) ELSE Len32 + Cardinality(T)
  BY DEF uint64_size, Steps
<1> HIDE DEF middle, low, hi, lo
<1>7. CASE hi = 0
  <2>1. v = lo
    BY <1>1, <1>2, <1>7
  <2>2. lo \in Nat /\ lo < U32
    BY <1>1, <1>2
  <2>3. uint32_pack(lo) \in Seq(Byte) /\ Len(uint32_pack(lo)) = uint32_size(lo)
        /\ uint32_size(lo) \in 1 .. Len32
    BY <2>2, Uint32Pack
  <2> QED
    BY <1>2, <1>5, <1>6, <1>7, <2>1, <2>3
<1>8. \A k \in 0 .. Len64 : /\ k * W \in Nat /\ 3 + k * W \in 0 .. MaxBits /\ k * W \in 0 .. MaxBits
                            /\ Pow2[3 + k * W] = 8 * Pow2[k * W]
                            /\ Pow2[k * W] \in Nat /\ Pow2[k * W] >= 1
  <2> TAKE k \in 0 .. Len64
  <2>1. k * W \in Nat /\ k * W <= Len64 * W
    BY <1>2, TimesW
  <2>2. 3 + k * W \in 0 .. MaxBits /\ k * W \in 0 .. MaxBits
    BY <1>2, <2>1
  <2>3. Pow2[3 + k * W] = Pow2[3] * Pow2[k * W]
    BY <2>1, <2>2, Pow2Sum
  <2> QED
    BY <1>2, <2>1, <2>2, <2>3, Pow2Type
<1>9. CASE hi # 0 /\ hi < 8
  <2>1. T = {}
    <3>1. \A k \in 0 .. Len64 - Len32 - 1 : hi < Pow2[3 + k * W]
      <4> TAKE k \in 0 .. Len64 - Len32 - 1
      <4>1. k \in 0 .. Len64
        BY <1>2
      <4>2. Pow2[3 + k * W] >= 8 /\ Pow2[3 + k * W] \in Nat
        BY <1>8, <4>1
      <4> QED
        BY <1>1, <1>2, <1>9, <4>2
    <3>2. \A k \in 0 .. Len64 - Len32 - 1 : Pow2[3 + k * W] \in Nat
      <4> TAKE k \in 0 .. Len64 - Len32 - 1
      <4>1. k \in 0 .. Len64
        BY <1>2
      <4> QED
        BY <1>8, <4>1
    <3> QED
      BY <1>1, <3>1, <3>2
  <2>2. Cardinality(T) = 0
    BY <2>1, FS_EmptySet
  <2>3. Append(low, middle) \in Seq(Byte) /\ Len(Append(low, middle)) = Len32
    BY <1>2, <1>3, <1>4 DEF Byte
  <2> QED
    BY <1>2, <1>5, <1>6, <1>9, <2>2, <2>3
<1>10. CASE hi >= 8
  <2> DEFINE up == hi \div 8
             S == Passed(up, Len64)
  <2>1. up \in Nat /\ 8 * up <= hi /\ hi < 8 * up + 8
    BY <1>1
  <2> HIDE DEF up
  <2>a. up \in Int /\ up \in Nat /\ Len64 \in 0 .. Len64
    BY <1>2, <2>1
  <2>2. IsFiniteSet(S) /\ Cardinality(S) \in 0 .. Len64
    BY <2>a, Base128Count
  <2>3. T = S \cup {0}
    <3>1. \A k \in S : k \in T
      <4> TAKE k \in S
      <4>1. k \in 1 .. Len64 /\ up >= Pow2[k * W]
        BY DEF Passed
      <4>2. k \in 0 .. Len64 /\ Pow2[3 + k * W] = 8 * Pow2[k * W] /\ Pow2[k * W] \in Nat /\ k * W \in Nat
            /\ 3 + k * W \in 0 .. MaxBits
        BY <1>2, <1>8, <4>1
      <4>3. hi >= Pow2[3 + k * W]
        BY <2>1, <4>1, <4>2, <1>1
      <4>4. 3 + k * W < H
        <5> SUFFICES ASSUME H <= 3 + k * W PROVE FALSE
          BY <1>2, <4>2
        <5>1. Pow2[H] <= Pow2[3 + k * W]
          BY <1>2, <4>2, Pow2Grows
        <5> QED
          BY <1>1, <1>2, <4>2, <4>3, <5>1 DEF U32
      <4>5. k + Len32 < Len64
        <5>1. (k + Len32) * W = k * W + Len32 * W
          BY <1>2, <4>1
        <5>2. (k + Len32) * W < Len64 * W
          BY <1>2, <4>2, <4>4, <5>1
        <5> QED
          BY <1>2, <4>1, <5>2, TimesW
      <4> QED
        BY <1>2, <4>1, <4>3, <4>5
    <3>2. \A k \in T : k \in S \cup {0}
      <4> TAKE k \in T
      <4>1. k \in 0 .. Len64 /\ hi >= Pow2[3 + k * W]
        BY <1>2
      <4>2. Pow2[3 + k * W] = 8 * Pow2[k * W] /\ Pow2[k * W] \in Nat
        BY <1>8, <4>1
      <4>3. up >= Pow2[k * W]
        BY <2>1, <4>1, <4>2, <1>1
      <4> QED
        BY <1>2, <4>1, <4>3 DEF Passed
    <3>3. 0 \in T
      <4>1. Len64 - Len32 - 1 >= 0
        <5>1. H > 3
          <6> SUFFICES ASSUME H <= 3 PROVE FALSE
            BY <1>2
          <6>1. Pow2[H] <= Pow2[3]
            BY <1>2, Pow2Grows
          <6> QED
            BY <1>1, <1>2, <1>10, <6>1 DEF U32
        <5>2. Len32 * W < Len64 * W
          BY <1>2, <5>1
        <5>3. Len32 < Len64
          BY <1>2, <5>2, TimesW
        <5> QED
          BY <1>2, <5>3
      <4>2. 0 * W = 0
        BY <1>2
      <4> QED
        BY <1>2, <1>10, <4>1, <4>2
    <3> QED
      BY <3>1, <3>2, <3>3
  <2>4. 0 \notin S
    BY DEF Passed
  <2>5. Cardinality(T) = Cardinality(S) + 1
    BY <2>2, <2>3, <2>4, FS_AddElement
  <2>6. up < Pow2[(Len64 + 1) * W]
    <3>1. (Len64 + 1) * W = MaxBits
      BY <1>2, TimesW
    <3>2. Pow2[H] <= Pow2[MaxBits] /\ Pow2[MaxBits] \in Nat
      BY <1>2, Pow2Grows, Pow2Type
    <3> QED
      BY <1>1, <1>2, <2>1, <3>1, <3>2 DEF U32
  <2>7. Base128(up, Len64) \in Seq(Byte) /\ Len(Base128(up, Len64)) = Cardinality(S) + 1
    BY <2>a, <2>6, Base128Bytes
  <2>8. Append(low, B + middle) \in Seq(Byte) /\ Len(Append(low, B + middle)) = Len32
    BY <1>2, <1>3, <1>4 DEF Byte
  <2>9. /\ Append(low, B + middle) \o Base128(up, Len64) \in Seq(Byte)
        /\ Len(Append(low, B + middle) \o Base128(up, Len64)) = Len32 + Cardinality(S) + 1
    <3> DEFINE s == Append(low, B + middle)
               t == Base128(up, Len64)
    <3>1. s \in Seq(Byte) /\ t \in Seq(Byte) /\ Len(s) = Len32 /\ Len(t) = Cardinality(S) + 1
      BY <2>7, <2>8
    <3> HIDE DEF s, t
    <3>2. s \o t \in Seq(Byte) /\ Len(s \o t) = Len(s) + Len(t)
      BY <3>1, ConcatProperties
    <3> QED
      BY <1>2, <2>2, <3>1, <3>2 DEF s, t
  <2>10. uint64_pack(v) = Append(low, B + middle) \o Base128(up, Len64)
    <3>1. hi # 0 /\ ~(hi < 8)
      BY <1>1, <1>10
    <3> QED
      BY <1>5, <3>1 DEF up
  <2>11. uint64_size(v) = Len32 + Cardinality(T)
    BY <1>1, <1>6, <1>10
  <2>12. Cardinality(T) <= Len64 - Len32
    <3>1. T \in SUBSET (0 .. Len64 - Len32 - 1)
      OBVIOUS
    <3>2. Len64 - Len32 - 1 \in Int /\ 0 \in Int
      BY <1>2
    <3>a. IsFiniteSet(0 .. Len64 - Len32 - 1)
          /\ Cardinality(0 .. Len64 - Len32 - 1) =
               IF 0 > Len64 - Len32 - 1 THEN 0 ELSE Len64 - Len32 - 1 - 0 + 1
      BY <3>2, FS_Interval
    <3>3. IsFiniteSet(0 .. Len64 - Len32 - 1) /\ Cardinality(0 .. Len64 - Len32 - 1) <= Len64 - Len32
      BY <1>2, <3>a
    <3>4. Cardinality(T) <= Cardinality(0 .. Len64 - Len32 - 1)
      BY <3>1, <3>3, FS_Subset
    <3> QED
      BY <1>2, <2>2, <2>5, <3>3, <3>4, FS_CardinalityType
  <2> QED
    BY <1>2, <2>2, <2>5, <2>9, <2>10, <2>11, <2>12
<1> QED
  BY <1>1, <1>7, <1>9, <1>10

\* A number taken to 32 bits is packed into as many bytes as it is said to take.
LEMMA Uint32Bytes ==
  ASSUME NEW v \in Int
  PROVE  /\ uint32_pack(v % U32) \in Seq(Byte)
         /\ Len(uint32_pack(v % U32)) = uint32_size(v % U32) /\ uint32_size(v % U32) \in 1 .. Len64
<1>1. U32 \in Nat /\ U32 >= 8 /\ Len32 <= Len64 /\ Len32 \in Nat /\ Len64 \in Nat
  BY PowerFacts, WidthFacts
<1> DEFINE w == v % U32
<1>2. w \in Nat /\ w < U32
  <2> DEFINE u == U32
  <2>1. u \in Nat /\ u >= 1
    BY <1>1
  <2> HIDE DEF u
  <2>2. v % u \in 0 .. u - 1
    BY <2>1, DivFacts
  <2> QED
    BY <2>1, <2>2 DEF u
<1> HIDE DEF w
<1>3. uint32_pack(w) \in Seq(Byte) /\ Len(uint32_pack(w)) = uint32_size(w) /\ uint32_size(w) \in 1 .. Len32
  BY <1>2, Uint32Pack
<1> QED
  BY <1>1, <1>3 DEF w

\* A number taken to 64 bits is packed into as many bytes as it is said to take.
LEMMA Uint64Bytes ==
  ASSUME NEW v \in Int
  PROVE  /\ uint64_pack(v % U64) \in Seq(Byte)
         /\ Len(uint64_pack(v % U64)) = uint64_size(v % U64) /\ uint64_size(v % U64) \in 1 .. Len64
<1> DEFINE u == U64
           w == v % u
<1>1. u \in Nat /\ u >= 1
  BY PowerFacts
<1> HIDE DEF u
<1>2. w \in 0 .. u - 1
  BY <1>1, DivFacts
<1> HIDE DEF w
<1>3. w \in 0 .. U64 - 1
  BY <1>2 DEF u
<1>4. uint64_pack(w) \in Seq(Byte) /\ Len(uint64_pack(w)) = uint64_size(w) /\ uint64_size(w) \in 1 .. Len64
  BY <1>3, Uint64Pack
<1> QED
  BY <1>4 DEF w, u

\* zigzag makes numbers of 32 and 64 bits.
LEMMA ZigzagInt ==
  ASSUME NEW v \in Int
  PROVE  /\ \E x \in Int : zigzag32(v) = x % U32
         /\ \E x \in Int : zigzag64(v) = x % U64
<1>1. U32 \in Nat /\ U32 >= 1 /\ U64 \in Nat /\ U64 >= 1
  BY PowerFacts
<1>2. (-v) % U32 \in Int /\ (-v) % U64 \in Int /\ -v \in Int /\ v * 2 \in Int
  BY <1>1
<1>3. ((-v) % U32) * 2 - 1 \in Int /\ ((-v) % U64) * 2 - 1 \in Int
  BY <1>2
<1>4. CASE v < 0
  <2>1. zigzag32(v) = (((-v) % U32) * 2 - 1) % U32 /\ zigzag64(v) = (((-v) % U64) * 2 - 1) % U64
    BY <1>4 DEF zigzag32, zigzag64
  <2> QED
    BY <1>3, <2>1
<1>5. CASE ~(v < 0)
  <2>1. zigzag32(v) = (v * 2) % U32 /\ zigzag64(v) = (v * 2) % U64
    BY <1>5 DEF zigzag32, zigzag64
  <2> QED
    BY <1>2, <2>1
<1> QED
  BY <1>4, <1>5

\* An int32_t is packed into as many bytes as it is said to take, MAX_UINT64_ENCODED_SIZE
\* if it is negative.
LEMMA Int32Bytes ==
  ASSUME NEW v \in -(U32 \div 2) .. U32 \div 2 - 1
  PROVE  /\ int32_pack(v) \in Seq(Byte)
         /\ Len(int32_pack(v)) = int32_size(v) /\ int32_size(v) \in 1 .. Len64
<1>1. /\ U32 \in Nat /\ U32 >= 8 /\ Len32 \in Nat /\ Len32 >= 1 /\ Len32 <= Len64 /\ Len64 \in Nat
      /\ B \in Nat /\ B >= 8 /\ W \in Nat /\ H \in Nat /\ MaxBits \in Nat /\ Len64 * W \in Nat
      /\ MaxBits = Len64 * W + W /\ 2 * H <= Len64 * W /\ Len64 * W < 2 * H + W
  BY PowerFacts, WidthFacts
<1>2. U32 \div 2 \in Nat /\ U32 \div 2 <= U32 /\ v \in Int /\ v < U32
  BY <1>1
<1>3. CASE v >= 0
  <2>1. v \in Nat /\ ~(v < 0) /\ v >= 0
    BY <1>2, <1>3
  <2>2. uint32_pack(v) \in Seq(Byte) /\ Len(uint32_pack(v)) = uint32_size(v) /\ uint32_size(v) \in 1 .. Len32
    BY <1>2, <2>1, Uint32Pack
  <2>3. int32_pack(v) = uint32_pack(v) /\ int32_size(v) = uint32_size(v)
    BY <2>1 DEF int32_pack, int32_size
  <2> QED
    BY <1>1, <2>2, <2>3
<1>4. CASE v < 0
  <2> DEFINE b == int32_pack(v)
             rest == 2 * H - (Len64 - 1) * W
  <2>1. b = [k \in 1 .. Len64 |-> IF k <= Len32 THEN Group(v, (k - 1) * W)
                                  ELSE IF k < Len64 THEN 2 * B - 1 ELSE Pow2[rest] - 1]
        /\ int32_size(v) = Len64
    <3>1. ~(v >= 0)
      BY <1>2, <1>4
    <3> QED
      BY <1>4, <3>1 DEF int32_pack, int32_size
  <2>2. Pow2[rest] - 1 \in 0 .. B - 1
    <3>1. Len64 - 1 \in Nat /\ (Len64 - 1) + 1 = Len64
      BY <1>1
    <3>2. (Len64 - 1) * W \in Nat /\ Len64 * W = (Len64 - 1) * W + W
      BY <3>1, TimesW
    <3>3. rest \in Nat /\ rest <= W /\ W <= MaxBits
      BY <1>1, <3>2
    <3> HIDE DEF rest
    <3>4. rest \in 0 .. MaxBits
      BY <1>1, <3>3
    <3>5. Pow2[rest] \in Nat /\ Pow2[rest] >= 1 /\ Pow2[rest] <= B
      BY <1>1, <3>3, <3>4, Pow2Type, Pow2Grows DEF B
    <3> QED
      BY <1>1, <3>5
  <2>3. ASSUME NEW k \in 1 .. Len64, k <= Len32 PROVE Group(v, (k - 1) * W) \in Byte
    <3>1. k - 1 \in Nat /\ k - 1 <= Len64
      BY <1>1, <2>3
    <3>2. (k - 1) * W \in Nat /\ (k - 1) * W <= Len64 * W
      BY <1>1, <3>1, TimesW
    <3>3. (k - 1) * W \in 0 .. MaxBits
      BY <1>1, <3>2
    <3>4. Group(v, (k - 1) * W) \in B .. 2 * B - 1
      BY <1>2, <3>3, GroupByte
    <3> QED
      BY <1>1, <3>4 DEF Byte
  <2> HIDE DEF b, rest
  <2>4. \A k \in 1 .. Len64 : b[k] \in Byte
    <3> TAKE k \in 1 .. Len64
    <3>1. 2 * B - 1 \in Byte /\ Pow2[rest] - 1 \in Byte
      BY <1>1, <2>2 DEF Byte
    <3> QED
      BY <2>1, <2>3, <3>1
  <2>5. b \in Seq(Byte) /\ Len(b) = Len64
    <3>1. b \in [1 .. Len64 -> Byte]
      BY <2>1, <2>4
    <3> QED
      BY <1>1, <3>1, FunctionIsSeq
  <2> QED
    BY <1>1, <2>1, <2>5 DEF b
<1> QED
  BY <1>2, <1>3, <1>4

\* fixed32_pack writes the bytes of an int.
LEMMA FixedBytes ==
  ASSUME NEW v \in Int
  PROVE  fixed32_pack(v) \in Seq(Byte) /\ Len(fixed32_pack(v)) = FixedLen
<1>1. FixedLen \in Nat /\ FixedLen >= 1 /\ W \in Nat /\ H \in Nat /\ MaxBits \in Nat
      /\ MaxBits = Len64 * W + W /\ Len64 * W \in Nat /\ 2 * H <= Len64 * W /\ W >= 3 /\ H >= W
      /\ B \in Nat /\ B >= 8
  BY WidthFacts, PowerFacts
<1>2. (FixedLen - 1) * (W + 1) <= H
  <2>1. H + W \in Nat /\ W + 1 \in Nat /\ W + 1 >= 1
    BY <1>1
  <2>2. (W + 1) * FixedLen <= H + W
    <3> DEFINE p == W + 1
               a == H + W
    <3>1. a \in Int /\ p \in Nat /\ p >= 1 /\ FixedLen = a \div p
      BY <2>1 DEF FixedLen
    <3> HIDE DEF p, a
    <3>2. a = p * (a \div p) + (a % p) /\ a % p \in 0 .. p - 1 /\ a \div p \in Int
      BY <3>1, DivFacts
    <3>3. p * (a \div p) \in Int
      BY <3>1, <3>2
    <3>4. p * (a \div p) <= a
      BY <3>1, <3>2, <3>3
    <3> QED
      BY <3>1, <3>4 DEF p, a
  <2>3. (FixedLen - 1) * (W + 1) = (W + 1) * FixedLen - (W + 1)
    BY <1>1
  <2>4. (W + 1) * FixedLen \in Nat
    BY <1>1
  <2> QED
    BY <1>1, <2>2, <2>3, <2>4
<1>3. Pow2[W + 1] = 2 * B
  <2>1. Pow2[W + 1] = Pow2[W] * Pow2[1] /\ Pow2[1] = 2
    BY <1>1, Pow2Sum, PowerFacts
  <2> QED
    BY <1>1, <2>1 DEF B
<1> DEFINE b == fixed32_pack(v)
<1>4. b = [k \in 1 .. FixedLen |-> (v \div Pow2[(k - 1) * (W + 1)]) % Pow2[W + 1]]
  BY DEF fixed32_pack
<1> HIDE DEF b
<1>5. \A k \in 1 .. FixedLen : b[k] \in Byte
  <2> TAKE k \in 1 .. FixedLen
  <2> DEFINE e == (k - 1) * (W + 1)
  <2>1. e \in 0 .. MaxBits
    <3>1. k - 1 \in Nat /\ k - 1 <= FixedLen - 1 /\ FixedLen - 1 \in Nat /\ W + 1 \in Nat
      BY <1>1
    <3>2. \A x, y, z \in Nat : x <= y => x * z \in Nat /\ x * z <= y * z
      OBVIOUS
    <3>3. e \in Nat /\ e <= (FixedLen - 1) * (W + 1)
      BY <3>1, <3>2
    <3> HIDE DEF e
    <3>4. (FixedLen - 1) * (W + 1) \in Nat
      BY <3>1, <3>2
    <3> QED
      BY <1>1, <1>2, <3>3, <3>4
  <2> HIDE DEF e
  <2> DEFINE p == Pow2[e]
             q == v \div p
             c == 2 * B
  <2>2. p \in Nat /\ p >= 1
    BY <2>1, Pow2Type
  <2>3. c \in Nat /\ c >= 1
    BY <1>1
  <2> HIDE DEF p, c
  <2>4. q \in Int
    BY <2>2, DivFacts
  <2> HIDE DEF q
  <2>5. q % c \in 0 .. c - 1
    BY <2>3, <2>4, DivFacts
  <2>6. b[k] = q % c
    BY <1>3, <1>4 DEF q, p, e, c
  <2> QED
    BY <2>5, <2>6 DEF Byte, c
<1>6. b \in [1 .. FixedLen -> Byte]
  BY <1>4, <1>5
<1> QED
  BY <1>1, <1>6, FunctionIsSeq DEF b

\* Every number takes as many bytes as the code says, and no more than there are
\* in the longest one.
LEMMA NumberBytes ==
  ASSUME NEW type \in NumberTypes, NEW v, IsValue(type, v)
  PROVE  /\ NumberPack(type, v) \in Seq(Byte)
         /\ Len(NumberPack(type, v)) = NumberSize(type, v) /\ NumberSize(type, v) \in Nat
         /\ NumberSize(type, v) >= 1
         /\ type \in Fixed32 => NumberSize(type, v) = FixedLen
         /\ type \in Fixed64 => NumberSize(type, v) = 2 * FixedLen
         /\ type \notin Fixed32 \cup Fixed64 => NumberSize(type, v) <= Len64
<1>1. /\ U32 \in Nat /\ U32 >= 8 /\ U64 \in Nat /\ U64 >= 1 /\ Len64 \in Nat /\ Len32 \in Nat
      /\ Len32 <= Len64 /\ Len32 >= 1 /\ FixedLen \in Nat /\ FixedLen >= 1 /\ B \in Nat /\ B >= 8
  BY PowerFacts, WidthFacts
<1>2. v \in Int
  <2>1. type \notin Blobs /\ type # "message"
    BY DEF NumberTypes, Blobs, Fixed32, Fixed64
  <2>2. CASE type = "int32"
    <3>1. U32 \div 2 \in Int
      BY <1>1
    <3>2. v \in -(U32 \div 2) .. U32 \div 2 - 1
      BY <2>1, <2>2 DEF IsValue
    <3> QED
      BY <3>1, <3>2
  <2>3. CASE type # "int32"
    BY <2>1, <2>3 DEF IsValue
  <2> QED
    BY <2>2, <2>3
<1>3. CASE type = "sint32"
  <2>1. PICK x \in Int : zigzag32(v) = x % U32
    BY <1>2, ZigzagInt
  <2>2. NumberPack(type, v) = uint32_pack(x % U32) /\ NumberSize(type, v) = uint32_size(x % U32)
    BY <1>3, <2>1 DEF NumberPack, NumberSize, Fixed32, Fixed64
  <2>3. /\ uint32_pack(x % U32) \in Seq(Byte)
        /\ Len(uint32_pack(x % U32)) = uint32_size(x % U32) /\ uint32_size(x % U32) \in 1 .. Len64
    BY <1>2, Uint32Bytes
  <2>4. type \notin Fixed32 /\ type \notin Fixed64
    BY <1>3 DEF Fixed32, Fixed64
  <2> QED
    BY <1>1, <2>2, <2>3, <2>4
<1>4. CASE type = "int32"
  <2>1. v \in -(U32 \div 2) .. U32 \div 2 - 1
    BY <1>4 DEF IsValue, Blobs
  <2>2. NumberPack(type, v) = int32_pack(v) /\ NumberSize(type, v) = int32_size(v)
    BY <1>4 DEF NumberPack, NumberSize, Fixed32, Fixed64
  <2>3. int32_pack(v) \in Seq(Byte) /\ Len(int32_pack(v)) = int32_size(v) /\ int32_size(v) \in 1 .. Len64
    BY <2>1, Int32Bytes
  <2>4. type \notin Fixed32 /\ type \notin Fixed64
    BY <1>4 DEF Fixed32, Fixed64
  <2> QED
    BY <1>1, <2>2, <2>3, <2>4
<1>5. CASE type \in {"uint32", "enum"}
  <2>1. NumberPack(type, v) = uint32_pack(v % U32) /\ NumberSize(type, v) = uint32_size(v % U32)
    BY <1>5 DEF NumberPack, NumberSize, Fixed32, Fixed64
  <2>3. /\ uint32_pack(v % U32) \in Seq(Byte)
        /\ Len(uint32_pack(v % U32)) = uint32_size(v % U32) /\ uint32_size(v % U32) \in 1 .. Len64
    BY <1>2, Uint32Bytes
  <2>4. type \notin Fixed32 /\ type \notin Fixed64
    BY <1>5 DEF Fixed32, Fixed64
  <2> QED
    BY <1>1, <2>1, <2>3, <2>4
<1>6. CASE type = "sint64"
  <2>1. PICK x \in Int : zigzag64(v) = x % U64
    BY <1>2, ZigzagInt
  <2>2. NumberPack(type, v) = uint64_pack(x % U64) /\ NumberSize(type, v) = uint64_size(x % U64)
    BY <1>6, <2>1 DEF NumberPack, NumberSize, Fixed32, Fixed64
  <2>3. /\ uint64_pack(x % U64) \in Seq(Byte)
        /\ Len(uint64_pack(x % U64)) = uint64_size(x % U64) /\ uint64_size(x % U64) \in 1 .. Len64
    BY <1>2, Uint64Bytes
  <2>4. type \notin Fixed32 /\ type \notin Fixed64
    BY <1>6 DEF Fixed32, Fixed64
  <2> QED
    BY <1>1, <2>2, <2>3, <2>4
<1>7. CASE type \in {"int64", "uint64"}
  <2>1. NumberPack(type, v) = uint64_pack(v % U64) /\ NumberSize(type, v) = uint64_size(v % U64)
    BY <1>7 DEF NumberPack, NumberSize, Fixed32, Fixed64
  <2>3. /\ uint64_pack(v % U64) \in Seq(Byte)
        /\ Len(uint64_pack(v % U64)) = uint64_size(v % U64) /\ uint64_size(v % U64) \in 1 .. Len64
    BY <1>2, Uint64Bytes
  <2>4. type \notin Fixed32 /\ type \notin Fixed64
    BY <1>7 DEF Fixed32, Fixed64
  <2> QED
    BY <1>1, <2>1, <2>3, <2>4
<1>8. CASE type = "bool"
  <2>1. NumberPack(type, v) = boolean_pack(v) /\ NumberSize(type, v) = 1
    BY <1>8 DEF NumberPack, NumberSize, Fixed32, Fixed64
  <2>2. <<1>> \in Seq(Byte) /\ <<0>> \in Seq(Byte) /\ Len(<<1>>) = 1 /\ Len(<<0>>) = 1
    BY <1>1 DEF Byte
  <2>3. boolean_pack(v) \in Seq(Byte) /\ Len(boolean_pack(v)) = 1
    BY <2>2 DEF boolean_pack
  <2>4. type \notin Fixed32 /\ type \notin Fixed64
    BY <1>8 DEF Fixed32, Fixed64
  <2>5. 1 \in Nat /\ 1 >= 1 /\ 1 <= Len64
    BY <1>1
  <2> QED
    BY <2>1, <2>3, <2>4, <2>5
<1>9. CASE type \in Fixed32
  <2>1. NumberPack(type, v) = fixed32_pack(v % U32) /\ NumberSize(type, v) = FixedLen
    BY <1>9 DEF NumberPack, NumberSize, Fixed32, Fixed64
  <2>2. v % U32 \in Int
    BY <1>1, <1>2
  <2>3. type \notin Fixed64
    BY <1>9 DEF Fixed32, Fixed64
  <2> QED
    BY <1>1, <1>9, <2>1, <2>2, <2>3, FixedBytes
<1>10. CASE type \in Fixed64
  <2> DEFINE w == v % U64
             lo == fixed32_pack(w % U32)
             hi == fixed32_pack(w \div U32)
  <2>1. NumberPack(type, v) = fixed64_pack(w) /\ NumberSize(type, v) = 2 * FixedLen
    BY <1>10 DEF NumberPack, NumberSize, Fixed32, Fixed64
  <2>2. w \in Int
    BY <1>1, <1>2
  <2> HIDE DEF w
  <2>3. w % U32 \in Int /\ w \div U32 \in Int
    BY <1>1, <2>2
  <2>4. lo \in Seq(Byte) /\ Len(lo) = FixedLen /\ hi \in Seq(Byte) /\ Len(hi) = FixedLen
    BY <2>3, FixedBytes
  <2>5. fixed64_pack(w) = lo \o hi
    BY DEF fixed64_pack
  <2>6. lo \o hi \in Seq(Byte) /\ Len(lo \o hi) = Len(lo) + Len(hi)
    <3> HIDE DEF lo, hi
    <3> QED
      BY <2>4, ConcatProperties
  <2>7. type \notin Fixed32
    BY <1>10 DEF Fixed32, Fixed64
  <2> HIDE DEF lo, hi
  <2> QED
    BY <1>1, <1>10, <2>1, <2>4, <2>5, <2>6, <2>7
<1> QED
  BY <1>3, <1>4, <1>5, <1>6, <1>7, <1>8, <1>9, <1>10 DEF NumberTypes
-----------------------------------------------------------------------------
(* Tags.                                                                   *)

\* A number of a field, taken times 8, leaves the lowest three bits of its first byte free.
LEMMA EightDivides ==
  ASSUME NEW y \in Nat
  PROVE  (8 * y) % B \in 0 .. B - 8
<1> DEFINE q == Pow2[W - 3]
<1>0. W \in Nat /\ W >= 3 /\ MaxBits \in Nat /\ MaxBits = Len64 * W + W /\ Len64 * W \in Nat
      /\ Pow2[3] = 8
  BY WidthFacts, PowerFacts
<1>1. q \in Nat /\ q >= 1 /\ B = q * 8
  <2>1. W - 3 \in Nat /\ (W - 3) + 3 = W /\ W - 3 <= MaxBits /\ W <= MaxBits
    BY <1>0
  <2>2. Pow2[(W - 3) + 3] = q * Pow2[3]
    BY <2>1, Pow2Sum
  <2> QED
    BY <1>0, <2>1, <2>2, Pow2Type DEF B
<1> HIDE DEF q
<1> DEFINE x == 8 * y
           b == q * 8
           k == x \div b
           r == x % b
<1>2. x \in Nat /\ b \in Nat /\ b >= 1
  BY <1>1
<1> HIDE DEF x, b
<1>3. k \in Int /\ r \in 0 .. b - 1 /\ x = b * k + r
  BY <1>2, DivFacts
<1> HIDE DEF k, r
<1>4. r = 8 * (y - q * k)
  <2>1. b * k = 8 * (q * k) /\ q * k \in Int
    BY <1>1, <1>3 DEF b
  <2> QED
    BY <1>3, <2>1 DEF x
<1>5. y - q * k \in Int
  BY <1>1, <1>3
<1>6. r <= b - 8
  BY <1>1, <1>3, <1>4, <1>5 DEF b
<1>7. r \in 0 .. b - 8
  BY <1>2, <1>3, <1>6
<1> QED
  BY <1>1, <1>7 DEF r, x, b

\* The first byte of a number that takes more than one.
LEMMA GroupZero ==
  ASSUME NEW v \in Nat
  PROVE  Group(v, 0) = B + (v % B)
<1>1. Pow2[0] = 1 /\ v \div 1 = v
  BY PowerFacts
<1> QED
  BY <1>1 DEF Group

\* The first byte has room for the wire type.
LEMMA TagPack ==
  ASSUME NEW id \in 1 .. U32 - 1
  PROVE  /\ tag_pack(id) \in Seq(Byte)
         /\ Len(tag_pack(id)) = get_tag_size(id) /\ get_tag_size(id) \in 1 .. Len32
         /\ tag_pack(id)[1] + 7 \in Byte
<1> DEFINE T == {k \in 0 .. Len32 - 1 - 1 : id >= Pow2[(W - 3) + k * W]}
           v == id * 8
<1>0. /\ U32 \in Nat /\ U32 >= 8 /\ B \in Nat /\ B >= 8 /\ Full \in Nat /\ Full >= 1 /\ Len32 = Full + 1
      /\ Len64 \in Nat /\ Len32 <= Len64 /\ H \in Nat /\ W \in Nat /\ W >= 3 /\ MaxBits \in Nat
      /\ Len64 * W \in Nat /\ MaxBits = Len64 * W + W /\ Len32 * W = H + 3 /\ 2 * H <= Len64 * W
      /\ Full * W \in Nat /\ H = Full * W + W - 3 /\ U64 = U32 * U32 /\ H >= W
      /\ Pow2[3] = 8 /\ Pow2[0] = 1
  BY WidthFacts, PowerFacts
<1>1. get_tag_size(id) = 1 + Cardinality(T)
  BY DEF get_tag_size, Steps
<1>2. \A k \in 0 .. Full : /\ (W - 3) + k * W \in 0 .. MaxBits /\ (k + 1) * W \in 0 .. MaxBits
                           /\ Pow2[(k + 1) * W] = 8 * Pow2[(W - 3) + k * W]
                           /\ Pow2[(W - 3) + k * W] \in Nat /\ k * W \in Nat
  <2> TAKE k \in 0 .. Full
  <2>1. k \in Nat /\ k + 1 <= Len64 /\ k + 1 \in Nat
    BY <1>0
  <2>2. k * W \in Nat /\ (k + 1) * W = k * W + W /\ (k + 1) * W <= Len64 * W /\ (k + 1) * W \in Nat
    BY <1>0, <2>1, TimesW
  <2>3. (W - 3) + k * W \in Nat /\ (W - 3) + k * W <= MaxBits /\ ((W - 3) + k * W) + 3 = (k + 1) * W
        /\ (k + 1) * W <= MaxBits
    BY <1>0, <2>2
  <2>4. Pow2[((W - 3) + k * W) + 3] = Pow2[(W - 3) + k * W] * Pow2[3]
    BY <2>3, Pow2Sum
  <2>5. Pow2[(W - 3) + k * W] \in Nat
    BY <2>3, Pow2Type
  <2> QED
    BY <1>0, <2>2, <2>3, <2>4, <2>5
<1>3. H - 3 \in 0 .. MaxBits /\ Pow2[H - 3] \in Nat /\ U32 = 8 * Pow2[H - 3] /\ v \in Nat
  <2>1. H - 3 \in Nat /\ H - 3 + 3 = H /\ H <= MaxBits /\ H - 3 <= MaxBits
    BY <1>0
  <2>2. Pow2[(H - 3) + 3] = Pow2[H - 3] * Pow2[3] /\ Pow2[H - 3] \in Nat
    BY <2>1, Pow2Sum, Pow2Type
  <2> QED
    BY <1>0, <2>1, <2>2 DEF U32
<1>4. CASE id < Pow2[H - 3]
  <2>1. v < U32 /\ tag_pack(id) = uint32_pack(v)
    BY <1>0, <1>3, <1>4 DEF tag_pack
  <2> DEFINE S == Passed(v, Full)
  <2>2. Full \in 0 .. Len64 /\ v \in Int /\ v \in Nat
    BY <1>0, <1>3
  <2> HIDE DEF v
  <2>3. IsFiniteSet(S) /\ Cardinality(S) \in 0 .. Full /\ S = 1 .. Cardinality(S)
    BY <2>2, Base128Count
  <2>4. uint32_pack(v) \in Seq(Byte)
    BY <2>1, <2>2, Uint32Pack
  <2>5. Len(uint32_pack(v)) = Cardinality(S) + 1
    BY <2>2, Base128Bytes DEF uint32_pack
  <2>6. Cardinality(T) = Cardinality(S)
    <3>1. \A k \in S : k + (-1) \in T
      <4> TAKE k \in S
      <4>1. k \in 1 .. Full /\ v >= Pow2[k * W]
        BY DEF Passed
      <4>2. k - 1 \in 0 .. Full /\ (k - 1) + 1 = k /\ k + (-1) = k - 1 /\ k - 1 \in 0 .. Len32 - 1 - 1
        BY <1>0, <4>1
      <4>3. Pow2[k * W] = 8 * Pow2[(W - 3) + (k - 1) * W] /\ Pow2[(W - 3) + (k - 1) * W] \in Nat
        BY <1>2, <4>2
      <4>4. id >= Pow2[(W - 3) + (k - 1) * W]
        BY <1>0, <4>1, <4>3 DEF v
      <4> QED
        BY <4>2, <4>4
    <3>2. \A k \in T : k - (-1) \in S
      <4> TAKE k \in T
      <4>1. k \in 0 .. Full /\ k + 1 \in 1 .. Full /\ k - (-1) = k + 1 /\ id >= Pow2[(W - 3) + k * W]
        BY <1>0
      <4>2. Pow2[(k + 1) * W] = 8 * Pow2[(W - 3) + k * W] /\ Pow2[(W - 3) + k * W] \in Nat
        BY <1>2, <4>1
      <4>3. v >= Pow2[(k + 1) * W]
        BY <1>0, <4>1, <4>2 DEF v
      <4> QED
        BY <4>1, <4>3 DEF Passed
    <3>3. S \in SUBSET Int /\ T \in SUBSET Int
      BY DEF Passed
    <3> HIDE DEF S, T
    <3> QED
      BY SMTT(60), <2>3, <3>1, <3>2, <3>3, SameCount
  <2>7. uint32_pack(v)[1] + 7 \in Byte
    <3> DEFINE c == Cardinality(S)
    <3>1. uint32_pack(v) =
            [k \in 1 .. c + 1 |-> IF k <= c THEN Group(v, (k - 1) * W) ELSE v \div Pow2[c * W]]
      BY DEF uint32_pack, Base128, Passed
    <3>2. c \in Nat /\ S = 1 .. c
      BY <1>0, <2>3
    <3>3. v % B \in 0 .. B - 8
      <4>1. id \in Nat /\ v = 8 * id
        BY <1>0 DEF v
      <4> QED
        BY <4>1, EightDivides
    <3> HIDE DEF c
    <3>4. CASE c = 0
      <4>1. 1 \notin S /\ 1 \in 1 .. Full
        BY <1>0, <3>2, <3>4
      <4>2. 1 * W = W /\ 0 * W = 0
        BY <1>0
      <4>3. v < B
        BY <1>0, <2>2, <4>1, <4>2 DEF Passed, B
      <4>4. v % B = v
        BY <1>0, <2>2, <4>3
      <4>5. v \div 1 = v
        BY <2>2
      <4>6. uint32_pack(v)[1] = v \div Pow2[c * W]
        BY <3>1, <3>4
      <4>7. uint32_pack(v)[1] = v
        BY <1>0, <3>4, <4>2, <4>5, <4>6
      <4> QED
        BY <1>0, <3>3, <4>4, <4>7 DEF Byte
    <3>5. CASE c # 0
      <4>1. 1 \in 1 .. c + 1 /\ 1 <= c /\ (1 - 1) * W = 0
        BY <1>0, <3>2, <3>5
      <4>2. uint32_pack(v)[1] = Group(v, 0)
        BY <3>1, <4>1
      <4>3. Group(v, 0) = B + (v % B)
        BY <2>2, GroupZero
      <4> QED
        BY <1>0, <3>3, <4>2, <4>3 DEF Byte
    <3> QED
      BY <3>4, <3>5
  <2> QED
    BY <1>0, <1>1, <2>1, <2>3, <2>4, <2>5, <2>6, <2>7
<1>5. CASE id >= Pow2[H - 3]
  <2> DEFINE hi == v \div U32
             lo == v % U32
             middle == (hi % 8) * Pow2[H - Full * W] + lo \div Pow2[Full * W]
             low == [k \in 1 .. Full |-> Group(lo, (k - 1) * W)]
  <2>1. tag_pack(id) = uint64_pack(v) /\ v >= U32 /\ v < U32 * 8
    BY <1>0, <1>3, <1>5 DEF tag_pack
  <2>2. v \in 0 .. U64 - 1
    <3>1. U32 * 8 <= U32 * U32
      BY <1>0
    <3>2. U64 \in Nat
      BY PowerFacts
    <3> QED
      BY <1>0, <1>3, <2>1, <3>1, <3>2
  <2> HIDE DEF v
  <2>3. hi \in 0 .. U32 - 1 /\ lo \in 0 .. U32 - 1 /\ v = U32 * hi + lo
    BY <2>2, Halves
  <2>4. uint64_pack(v) = IF hi = 0 THEN uint32_pack(lo)
                         ELSE IF hi < 8 THEN Append(low, middle)
                         ELSE Append(low, B + middle) \o Base128(hi \div 8, Len64)
    BY DEF uint64_pack
  <2>5. hi < 8
    <3>1. v \in Nat /\ U32 \in Nat /\ U32 >= 1 /\ 8 \in Nat /\ v < U32 * 8
      BY <1>0, <1>3, <2>1
    <3> QED
      BY <3>1, DivLess
  <2>8. hi \in Nat /\ lo \in Int /\ lo \in Nat
    BY <1>0, <2>3
  <2>6. \E y \in Nat : lo = 8 * y
    <3>1. hi * U32 = U32 * hi /\ U32 * hi = 8 * (Pow2[H - 3] * hi) /\ Pow2[H - 3] * hi \in Nat
      <4> HIDE DEF hi, lo
      <4>1. hi \in Nat
        BY <1>0, <2>3
      <4> QED
        BY <1>0, <1>3, <4>1
    <3>2. lo = 8 * (id - Pow2[H - 3] * hi)
      <4> HIDE DEF hi, lo
      <4> DEFINE z == Pow2[H - 3] * hi
                 y == U32 * hi
      <4>1. z \in Nat /\ y = 8 * z /\ id \in Nat /\ lo \in Nat
        BY <1>0, <2>8, <3>1
      <4>2. id * 8 = y + lo
        BY <2>3 DEF v
      <4> HIDE DEF z, y
      <4>3. lo = 8 * (id - z)
        BY <4>1, <4>2
      <4> QED
        BY <4>3 DEF z
    <3>3. id - Pow2[H - 3] * hi \in Nat
      <4> DEFINE z == id - Pow2[H - 3] * hi
      <4>1. z \in Int
        BY <1>0, <3>1
      <4>2. lo >= 0 /\ lo = 8 * z
        BY <2>3, <3>2
      <4> HIDE DEF z
      <4>3. z \in Nat
        BY <4>1, <4>2
      <4> QED
        BY <4>3 DEF z
    <3> QED
      BY <3>2, <3>3
  <2>7. hi # 0
    <3> HIDE DEF hi, lo
    <3> QED
      BY <1>0, <1>3, <2>1, <2>3
  <2>9. middle \in 0 .. B - 1
    <3> HIDE DEF hi, lo
    <3> QED
      BY <2>3, <2>8, MiddleByte
  <2>10. low \in Seq(Byte) /\ Len(low) = Full
    <3> HIDE DEF hi, lo
    <3> QED
      BY <2>8, LowBytes
  <2>11. low[1] = B + (lo % B)
    <3>1. 1 \in 1 .. Full /\ (1 - 1) * W = 0
      BY <1>0
    <3>2. low[1] = Group(lo, 0)
      <4> HIDE DEF lo
      <4> QED
        BY <3>1
    <3> QED
      BY <2>8, <3>2, GroupZero
  <2>12. lo % B \in 0 .. B - 8
    <3> HIDE DEF lo
    <3> QED
      BY <2>6, EightDivides
  <2> HIDE DEF hi, lo, middle, low
  <2>13. tag_pack(id) = Append(low, middle)
    BY <2>1, <2>4, <2>5, <2>7
  <2>14. Append(low, middle) \in Seq(Byte) /\ Len(Append(low, middle)) = Len32
         /\ Append(low, middle)[1] = low[1]
    <3>1. middle \in Byte
      BY <1>0, <2>9 DEF Byte
    <3>2. 1 \in 1 .. Len(low)
      BY <1>0, <2>10
    <3>3. Append(low, middle)[1] = low[1]
      BY <2>10, <3>1, <3>2
    <3>4. Append(low, middle) \in Seq(Byte) /\ Len(Append(low, middle)) = Len(low) + 1
      BY <2>10, <3>1
    <3> QED
      BY <1>0, <2>10, <3>3, <3>4
  <2>15. low[1] + 7 \in Byte
    <3> DEFINE r == lo % B
    <3>1. r \in 0 .. B - 8 /\ low[1] = B + r
      BY <2>11, <2>12
    <3> HIDE DEF r
    <3> QED
      BY <1>0, <3>1 DEF Byte
  <2>16. Cardinality(T) = Full
    <3>1. \A k \in 0 .. Full - 1 : id >= Pow2[(W - 3) + k * W]
      <4> TAKE k \in 0 .. Full - 1
      <4>1. k \in 0 .. Full /\ k \in Nat /\ k < Full
        BY <1>0
      <4>2. k * W + W <= Full * W /\ k * W \in Nat
        BY <1>0, <4>1, TimesW
      <4>3. (W - 3) + k * W \in Nat /\ (W - 3) + k * W <= H - 3 /\ H - 3 <= MaxBits
        BY <1>0, <1>3, <4>2
      <4>4. Pow2[(W - 3) + k * W] <= Pow2[H - 3] /\ Pow2[(W - 3) + k * W] \in Nat
        BY <1>2, <1>3, <4>1, <4>3, Pow2Grows
      <4> QED
        BY <1>3, <1>5, <4>4
    <3>2. T = 0 .. Full - 1
      BY <1>0, <3>1
    <3>3. Full - 1 \in Int /\ 0 \in Int
      BY <1>0
    <3>4. Cardinality(0 .. Full - 1) = IF 0 > Full - 1 THEN 0 ELSE Full - 1 - 0 + 1
      BY <3>3, FS_Interval
    <3>5. Cardinality(0 .. Full - 1) = Full
      BY <1>0, <3>4
    <3> QED
      BY <3>2, <3>5
  <2> QED
    BY <1>0, <1>1, <2>13, <2>14, <2>15, <2>16
<1> QED
  BY <1>0, <1>3, <1>4, <1>5

\* A tag with a wire type is as long as get_tag_size says.
LEMMA TagBytes ==
  ASSUME NEW id \in 1 .. U32 - 1, NEW w \in 0 .. 7
  PROVE  /\ Tag(id, w) \in Seq(Byte)
         /\ Len(Tag(id, w)) = get_tag_size(id) /\ get_tag_size(id) \in Nat /\ get_tag_size(id) >= 1
<1> DEFINE t == tag_pack(id)
<1>1. /\ t \in Seq(Byte) /\ Len(t) = get_tag_size(id) /\ get_tag_size(id) \in Nat
      /\ get_tag_size(id) >= 1 /\ t[1] + 7 \in Byte
  <2>1. Len32 \in Nat
    BY WidthFacts
  <2> QED
    BY <2>1, TagPack
<1> HIDE DEF t
<1>2. B \in Nat /\ B >= 8
  BY PowerFacts
<1>3. 1 \in 1 .. Len(t) /\ t[1] \in Byte
  BY <1>1
<1>4. t[1] + w \in Byte
  BY <1>1, <1>2, <1>3 DEF Byte
<1>5. Tag(id, w) = [t EXCEPT ![1] = t[1] + w]
  BY DEF Tag, t
<1>6. [t EXCEPT ![1] = t[1] + w] \in Seq(Byte) /\ Len([t EXCEPT ![1] = t[1] + w]) = Len(t)
  BY <1>1, <1>3, <1>4
<1> QED
  BY <1>1, <1>5, <1>6
-----------------------------------------------------------------------------
(* Sums.                                                                   *)

\* A sum is summed up term by term.
LEMMA SumSteps ==
  ASSUME NEW ns \in Seq(Nat)
  PROVE  \E t \in [0 .. Len(ns) -> Nat] :
           /\ t[0] = 0 /\ \A k \in 1 .. Len(ns) : t[k] = t[k - 1] + ns[k]
           /\ SumOf(ns) = t[Len(ns)]
<1> DEFINE n == Len(ns)
           step == [x \in Nat \X (1 .. n) |-> x[1] + ns[x[2]]]
           Rec(u) == u = [k \in 0 .. n |-> IF k = 0 THEN 0 ELSE u[k - 1] + ns[k]]
<1>0. n \in Nat /\ \A k \in 1 .. n : ns[k] \in Nat
  OBVIOUS
<1> HIDE DEF n
<1>1. step \in [Nat \X (1 .. n) -> Nat]
  BY <1>0
<1>2. PICK t \in [0 .. n -> Nat] : Solves(t, n, 0, step)
  <2> HIDE DEF step
  <2> QED
    BY <1>0, <1>1, RecursionExists
<1>3. t[0] = 0 /\ \A k \in 1 .. n : k - 1 \in 0 .. n /\ t[k] = t[k - 1] + ns[k]
  <2>1. ASSUME NEW k \in 1 .. n PROVE k - 1 \in 0 .. n /\ t[k] = t[k - 1] + ns[k]
    <3>1. k - 1 \in 0 .. n
      BY <1>0
    <3>2. t[k] = step[<<t[k - 1], k>>] /\ t[k - 1] \in Nat
      BY <1>2, <3>1 DEF Solves
    <3> QED
      BY <3>1, <3>2
  <2> QED
    BY <1>2, <2>1 DEF Solves
<1>4. Rec(t)
  <2>1. ASSUME NEW k \in 0 .. n PROVE t[k] = IF k = 0 THEN 0 ELSE t[k - 1] + ns[k]
    BY <1>0, <1>3
  <2> QED
    BY <2>1
<1> DEFINE p == CHOOSE u : Rec(u)
<1>5. Rec(p)
  <2> HIDE DEF Rec
  <2> QED
    BY <1>4
<1>6. SumOf(ns) = p[n]
  BY DEF SumOf, n
<1> HIDE DEF p
<1>7. p[0] = 0 /\ \A k \in 1 .. n : p[k] = p[k - 1] + ns[k]
  BY <1>0, <1>5
<1>8. p[n] = t[n]
  <2> DEFINE Bad == {k \in 0 .. n : p[k] # t[k]}
  <2>1. ASSUME NEW m \in Bad, \A y \in Bad : m <= y PROVE FALSE
    <3>1. m # 0 /\ m \in 1 .. n
      BY <1>0, <1>3, <1>7
    <3>2. m - 1 \in 0 .. n /\ m - 1 \notin Bad
      <4>1. m - 1 \in 0 .. n /\ ~(m <= m - 1)
        BY <1>0, <3>1
      <4> QED
        BY <2>1, <4>1
    <3> QED
      BY <1>3, <1>7, <3>1, <3>2
  <2>2. Bad \in SUBSET Nat
    BY <1>0
  <2> HIDE DEF Bad
  <2>3. Bad = {}
    BY <2>1, <2>2, SmallestExists
  <2>4. n \in 0 .. n
    BY <1>0
  <2> QED
    BY <2>3, <2>4 DEF Bad
<1>9. /\ t[0] = 0 /\ \A k \in 1 .. n : t[k] = t[k - 1] + ns[k]
      /\ SumOf(ns) = t[n]
  BY <1>3, <1>6, <1>8
<1> QED
  BY <1>9 DEF n

\* The sum of nothing.
LEMMA SumEmpty == SumOf(<<>>) = 0
<1>1. <<>> \in Seq(Nat) /\ Len(<<>>) = 0
  OBVIOUS
<1> QED
  BY <1>1, SumSteps

\* The sum with one term more.
LEMMA SumAppend ==
  ASSUME NEW ns \in Seq(Nat), NEW x \in Nat
  PROVE  SumOf(ns) \in Nat /\ SumOf(Append(ns, x)) = SumOf(ns) + x
<1> DEFINE n == Len(ns)
           ms == Append(ns, x)
<1>1. n \in Nat /\ ms \in Seq(Nat) /\ Len(ms) = n + 1 /\ ms[n + 1] = x /\ \A k \in 1 .. n : ms[k] = ns[k]
  OBVIOUS
<1>2. PICK t \in [0 .. n -> Nat] :
        t[0] = 0 /\ (\A k \in 1 .. n : t[k] = t[k - 1] + ns[k]) /\ SumOf(ns) = t[n]
  BY SumSteps
<1> HIDE DEF ms
<1>3. PICK u \in [0 .. n + 1 -> Nat] :
        u[0] = 0 /\ (\A k \in 1 .. n + 1 : u[k] = u[k - 1] + ms[k]) /\ SumOf(ms) = u[n + 1]
  BY <1>1, SumSteps
<1> HIDE DEF n
<1>4. u[n] = t[n]
  <2> DEFINE Bad == {k \in 0 .. n : u[k] # t[k]}
  <2>1. ASSUME NEW m \in Bad, \A y \in Bad : m <= y PROVE FALSE
    <3>1. m # 0 /\ m \in 1 .. n /\ m \in 1 .. n + 1
      BY SMTT(60), <1>1, <1>2, <1>3
    <3>2. m - 1 \in 0 .. n /\ m - 1 \notin Bad
      <4>1. m - 1 \in 0 .. n /\ ~(m <= m - 1)
        BY <1>1, <3>1
      <4> QED
        BY <2>1, <4>1
    <3>3. u[m] = u[m - 1] + ms[m] /\ t[m] = t[m - 1] + ns[m] /\ ms[m] = ns[m]
      BY <1>1, <1>2, <1>3, <3>1
    <3> QED
      BY <3>1, <3>2, <3>3
  <2>2. Bad \in SUBSET Nat
    BY <1>1
  <2> HIDE DEF Bad
  <2>3. Bad = {}
    BY <2>1, <2>2, SmallestExists
  <2>4. n \in 0 .. n
    BY <1>1
  <2> QED
    BY <2>3, <2>4 DEF Bad
<1>5. u[n + 1] = u[n] + x
  <2>1. n + 1 \in 1 .. n + 1 /\ (n + 1) - 1 = n
    BY <1>1
  <2>2. u[n + 1] = u[(n + 1) - 1] + ms[n + 1]
    BY <1>3, <2>1
  <2> QED
    BY <1>1, <2>1, <2>2
<1>6. t[n] \in Nat
  BY <1>1, <1>2
<1> QED
  BY <1>2, <1>3, <1>4, <1>5, <1>6 DEF ms

\* A sum of natural numbers is one.
LEMMA SumNat ==
  ASSUME NEW ns \in Seq(Nat)
  PROVE  SumOf(ns) \in Nat
<1>1. 0 \in Nat
  OBVIOUS
<1> QED
  BY <1>1, SumAppend

\* Between the smallest and the largest, times their number.
LEMMA SumBounds ==
  ASSUME NEW a \in Nat, NEW b \in Nat
  PROVE  \A ns \in Seq(Nat) : (\A k \in 1 .. Len(ns) : a <= ns[k] /\ ns[k] <= b) =>
           a * Len(ns) <= SumOf(ns) /\ SumOf(ns) <= b * Len(ns)
<1> DEFINE Holds(ns) == (\A k \in 1 .. Len(ns) : a <= ns[k] /\ ns[k] <= b) =>
                           a * Len(ns) <= SumOf(ns) /\ SumOf(ns) <= b * Len(ns)
           G == {ns \in Seq(Nat) : Holds(ns)}
<1>1. <<>> \in G
  <2>1. <<>> \in Seq(Nat) /\ Len(<<>>) = 0 /\ SumOf(<<>>) = 0 /\ a * 0 = 0 /\ b * 0 = 0
    BY SumEmpty
  <2> QED
    BY <2>1
<1>2. ASSUME NEW s \in Seq(Nat), NEW x \in Nat, s \in G PROVE Append(s, x) \in G
  <2>1. SumOf(s) \in Nat /\ SumOf(Append(s, x)) = SumOf(s) + x
    BY SumAppend
  <2> DEFINE t == Append(s, x)
             n == Len(s)
  <2>2. t \in Seq(Nat) /\ Len(t) = n + 1 /\ t[n + 1] = x /\ (\A k \in 1 .. n : t[k] = s[k]) /\ n \in Nat
    OBVIOUS
  <2> HIDE DEF t
  <2> SUFFICES ASSUME \A k \in 1 .. n + 1 : a <= t[k] /\ t[k] <= b
               PROVE  a * (n + 1) <= SumOf(t) /\ SumOf(t) <= b * (n + 1)
    BY <2>2 DEF t
  <2>3. a <= x /\ x <= b /\ \A k \in 1 .. n : a <= s[k] /\ s[k] <= b
    BY <2>2
  <2>4. a * n <= SumOf(s) /\ SumOf(s) <= b * n
    BY <1>2, <2>3
  <2> HIDE DEF n
  <2>5. a * (n + 1) = a * n + a /\ b * (n + 1) = b * n + b /\ a * n \in Nat /\ b * n \in Nat
    BY <2>2
  <2> QED
    BY <2>1, <2>3, <2>4, <2>5 DEF t
<1> HIDE DEF G
<1>3. \A ns \in Seq(Nat) : ns \in G
  BY <1>1, <1>2, SeqInduction
<1> QED
  BY <1>3 DEF G

\* The length of what is strung together.
LEMMA ConcatLen ==
  ASSUME NEW S, NEW ss \in Seq(Seq(S)), NEW ns \in Seq(Nat), Len(ns) = Len(ss),
         \A k \in 1 .. Len(ss) : ns[k] = Len(ss[k])
  PROVE  Concat(ss) \in Seq(S) /\ Len(Concat(ss)) = SumOf(ns)
<1> DEFINE Lens(u) == [k \in 1 .. Len(u) |-> Len(u[k])]
           G == {u \in Seq(Seq(S)) : Concat(u) \in Seq(S) /\ Len(Concat(u)) = SumOf(Lens(u))}
<1>1. <<>> \in G
  <2>1. <<>> \in Seq(Seq(S)) /\ Concat(<<>>) = <<>> /\ <<>> \in Seq(S) /\ Len(<<>>) = 0
    BY FlattenEmpty DEF Concat
  <2>2. Lens(<<>>) = <<>>
    OBVIOUS
  <2> QED
    BY <2>1, <2>2, SumEmpty
<1>2. ASSUME NEW u \in Seq(Seq(S)), NEW x \in Seq(S), u \in G PROVE Append(u, x) \in G
  <2> DEFINE t == Append(u, x)
             n == Len(u)
  <2>1. t \in Seq(Seq(S)) /\ Len(t) = n + 1 /\ t[n + 1] = x /\ (\A k \in 1 .. n : t[k] = u[k]) /\ n \in Nat
    OBVIOUS
  <2>2. Lens(u) \in Seq(Nat) /\ Len(x) \in Nat
    OBVIOUS
  <2>3. Concat(t) = Concat(u) \o x
    BY FlattenAppend DEF Concat
  <2>4. Concat(t) \in Seq(S) /\ Len(Concat(t)) = Len(Concat(u)) + Len(x)
    <3>1. Concat(u) \in Seq(S) /\ x \in Seq(S)
      BY <1>2
    <3> HIDE DEF t
    <3> QED
      BY <2>3, <3>1, ConcatProperties
  <2> HIDE DEF t
  <2>5. Lens(t) = Append(Lens(u), Len(x))
    <3> DEFINE p == Lens(t)
               q == Lens(u)
    <3>1. p \in Seq(Nat) /\ Len(p) = n + 1 /\ \A k \in 1 .. n + 1 : p[k] = Len(t[k])
      BY <2>1
    <3>2. q \in Seq(Nat) /\ Len(q) = n /\ \A k \in 1 .. n : q[k] = Len(u[k])
      OBVIOUS
    <3> HIDE DEF p, q, n
    <3>3. Append(q, Len(x)) \in Seq(Nat) /\ Len(Append(q, Len(x))) = n + 1
          /\ \A k \in 1 .. n + 1 : Append(q, Len(x))[k] = IF k = n + 1 THEN Len(x) ELSE q[k]
      BY <2>1, <2>2, <3>2
    <3>4. \A k \in 1 .. n + 1 : p[k] = Append(q, Len(x))[k]
      <4> TAKE k \in 1 .. n + 1
      <4>1. k = n + 1 \/ k \in 1 .. n
        BY <2>1
      <4>2. CASE k = n + 1
        <5>1. t[k] = x
          BY <2>1, <4>2
        <5>2. Append(q, Len(x))[k] = Len(x)
          BY <3>3, <4>2
        <5> QED
          BY <3>1, <5>1, <5>2
      <4>3. CASE k \in 1 .. n /\ k # n + 1
        <5>1. t[k] = u[k] /\ q[k] = Len(u[k])
          BY <2>1, <3>2, <4>3
        <5>2. Append(q, Len(x))[k] = q[k]
          BY <3>3, <4>3
        <5> QED
          BY <3>1, <5>1, <5>2
      <4> QED
        BY <4>1, <4>2, <4>3
    <3> DEFINE r == Append(q, Len(x))
    <3>5. r \in Seq(Nat) /\ Len(r) = Len(p) /\ \A k \in 1 .. Len(p) : p[k] = r[k]
      BY <3>1, <3>3, <3>4
    <3> HIDE DEF r
    <3>6. p = r
      BY <3>1, <3>5, SeqEqual
    <3> QED
      BY <3>6 DEF p, q, r
  <2>6. SumOf(Lens(t)) = SumOf(Lens(u)) + Len(x)
    <3> HIDE DEF Lens
    <3> QED
      BY <2>2, <2>5, SumAppend
  <2> QED
    BY <1>2, <2>1, <2>4, <2>6 DEF t
<1> HIDE DEF G
<1>3. ss \in G
  BY <1>1, <1>2, SeqInduction
<1>4. Lens(ss) = ns
  <2>1. Lens(ss) \in Seq(Nat) /\ Len(Lens(ss)) = Len(ss)
    OBVIOUS
  <2> QED
    BY <2>1, SeqEqual
<1> QED
  BY <1>3, <1>4 DEF G
-----------------------------------------------------------------------------
(* Room that is written later, and the length of a length.                 *)

\* Room between two pieces, once it is written.
LEMMA RoomFilled ==
  ASSUME NEW S, 0 \in S, NEW a \in Seq(S), NEW c \in Seq(S), NEW bytes \in Seq(S)
  PROVE  Overwrite((a \o Room(Len(bytes))) \o c, Len(a), bytes) = (a \o bytes) \o c
<1> DEFINE n == Len(bytes)
           r == Room(n)
<1>1. n \in Nat /\ bytes \in [1 .. n -> S] /\ Len(a) \in Nat /\ Len(c) \in Nat
  BY LenProperties
<1>2. r \in Seq(S) /\ Len(r) = n
  <2>1. r \in [1 .. n -> S]
    BY DEF Room
  <2> QED
    BY <1>1, <2>1, FunctionIsSeq
<1>3. ASSUME NEW x \in Seq(S)
      PROVE  Overwrite((x \o r) \o c, Len(x), bytes) = (x \o bytes) \o c
  <2> DEFINE s == (x \o r) \o c
             t == (x \o bytes) \o c
             o == Overwrite(s, Len(x), bytes)
             l == Len(x)
             N == (l + n) + Len(c)
  <2> HIDE DEF r
  <2>1. l \in Nat /\ N \in Nat
    BY <1>1
  <2>2. x \o r \in Seq(S) /\ Len(x \o r) = l + n
        /\ \A k \in 1 .. l + n : (x \o r)[k] = IF k <= l THEN x[k] ELSE r[k - l]
    <3>1. r \in Seq(S) /\ Len(r) = n
      BY <1>2
    <3> HIDE DEF n
    <3> QED
      BY <3>1, ConcatProperties
  <2>3. x \o bytes \in Seq(S) /\ Len(x \o bytes) = l + n
        /\ \A k \in 1 .. l + n : (x \o bytes)[k] = IF k <= l THEN x[k] ELSE bytes[k - l]
    BY <1>1, ConcatProperties
  <2> DEFINE xr == x \o r
             xb == x \o bytes
  <2> HIDE DEF xr, xb
  <2>4. /\ xr \in Seq(S) /\ Len(xr) = l + n
        /\ \A k \in 1 .. l + n : xr[k] = IF k <= l THEN x[k] ELSE r[k - l]
        /\ xb \in Seq(S) /\ Len(xb) = l + n
        /\ \A k \in 1 .. l + n : xb[k] = IF k <= l THEN x[k] ELSE bytes[k - l]
        /\ s = xr \o c /\ t = xb \o c
    BY <2>2, <2>3 DEF xr, xb
  <2>5. s \in Seq(S) /\ Len(s) = N
        /\ \A k \in 1 .. N : s[k] = IF k <= l + n THEN xr[k] ELSE c[k - (l + n)]
    BY <2>4, ConcatProperties
  <2>6. t \in Seq(S) /\ Len(t) = N
        /\ \A k \in 1 .. N : t[k] = IF k <= l + n THEN xb[k] ELSE c[k - (l + n)]
    BY <2>4, ConcatProperties
  <2> DEFINE E(k) == IF k - l \in DOMAIN bytes THEN bytes[k - l] ELSE s[k]
  <2> HIDE DEF s, t
  <2>7. o = [k \in DOMAIN s |-> E(k)] /\ DOMAIN s = 1 .. N /\ DOMAIN bytes = 1 .. n
    <3>1. DOMAIN s = 1 .. N
      BY <2>5, LenProperties
    <3> QED
      BY <1>1, <3>1 DEF Overwrite
  <2> HIDE DEF N
  <2>8. ASSUME NEW k \in 1 .. N PROVE E(k) = t[k]
    <3>1. CASE k - l \in 1 .. n
      <4>1. k <= l + n /\ ~(k <= l) /\ k \in 1 .. l + n
        BY <1>1, <2>1, <3>1
      <4> QED
        BY <2>4, <2>6, <2>7, <3>1, <4>1
    <3>2. CASE k <= l
      <4>1. k - l \notin 1 .. n /\ k <= l + n /\ k \in 1 .. l + n
        BY <1>1, <2>1, <3>2
      <4> QED
        BY <2>4, <2>5, <2>6, <2>7, <3>2, <4>1
    <3>3. CASE k > l + n
      <4>1. k - l \notin 1 .. n /\ ~(k <= l + n)
        BY <1>1, <2>1, <3>3
      <4> QED
        BY <2>5, <2>6, <2>7, <4>1
    <3>4. k - l \in 1 .. n \/ k <= l \/ k > l + n
      BY <1>1, <2>1
    <3> QED
      BY <3>1, <3>2, <3>3, <3>4
  <2>9. t = [k \in 1 .. N |-> t[k]]
    BY <2>6, LenProperties
  <2>10. [k \in 1 .. N |-> E(k)] = [k \in 1 .. N |-> t[k]]
    <3> HIDE DEF E
    <3> QED
      BY <2>8
  <2>11. o = t
    <3> HIDE DEF E, o
    <3> QED
      BY <2>7, <2>9, <2>10
  <2> QED
    BY <2>11 DEF s, t, r
<1> QED
  BY <1>3

\* The same at the beginning.
LEMMA RoomFilledFirst ==
  ASSUME NEW S, 0 \in S, NEW c \in Seq(S), NEW bytes \in Seq(S)
  PROVE  Overwrite(Room(Len(bytes)) \o c, 0, bytes) = bytes \o c
<1> DEFINE n == Len(bytes)
           r == Room(n)
<1>1. n \in Nat /\ <<>> \in Seq(S) /\ Len(<<>>) = 0
  BY LenProperties
<1>2. r \in Seq(S)
  <2>1. r \in [1 .. n -> S]
    BY DEF Room
  <2> QED
    BY <1>1, <2>1, FunctionIsSeq
<1>3. Overwrite((<<>> \o r) \o c, Len(<<>>), bytes) = (<<>> \o bytes) \o c
  BY <1>1, RoomFilled
<1>4. <<>> \o r = r /\ <<>> \o bytes = bytes
  <2> HIDE DEF r
  <2> QED
    BY <1>2, ConcatEmptySeq
<1> QED
  <2> HIDE DEF r
  <2>1. Overwrite(r \o c, 0, bytes) = bytes \o c
    BY <1>1, <1>3, <1>4
  <2> QED
    BY <2>1 DEF r

\* A number no smaller and at most B times as large as another takes as many
\* bytes or one more.
LEMMA OneByteMore ==
  ASSUME NEW q \in Nat, NEW p \in Nat, q <= p, p <= B * q
  PROVE  uint32_size(p) \in {uint32_size(q), uint32_size(q) + 1}
<1> DEFINE K == 0 .. Len32 - 1 - 1
           Over(v) == {k \in K : v >= Pow2[W + k * W]}
           Up == {k + 1 : k \in Over(q)}
<1>1. /\ W \in Nat /\ Len32 \in Nat /\ Len32 * W = H + 3 /\ H \in Nat /\ MaxBits \in Nat
      /\ W >= 3 /\ H >= W /\ Len32 >= 1 /\ MaxBits = Len64 * W + W /\ Len64 * W \in Nat /\ 2 * H <= Len64 * W
  BY WidthFacts, PowerFacts
<1>2. B \in Nat /\ B >= 8
  BY PowerFacts
<1>3. ASSUME NEW k \in K PROVE W + k * W \in 0 .. MaxBits /\ Pow2[W + k * W] \in Nat
  <2>1. k + 1 \in Nat /\ k + 1 <= Len32 /\ k \in Nat
    BY <1>1
  <2>2. (k + 1) * W <= Len32 * W /\ (k + 1) * W = W + k * W
    BY <1>1, <2>1
  <2>3. W + k * W \in 0 .. MaxBits
    BY <1>1, <2>1, <2>2
  <2> QED
    BY <2>3, Pow2Type
<1>4. K \in SUBSET Nat /\ IsFiniteSet(K)
  BY <1>1, FS_Interval
<1>5. Over(p) \subseteq K /\ Over(q) \subseteq K /\ IsFiniteSet(Over(p)) /\ IsFiniteSet(Over(q))
  <2> HIDE DEF K
  <2>1. Over(p) \subseteq K /\ Over(q) \subseteq K
    OBVIOUS
  <2> HIDE DEF Over
  <2> QED
    BY <1>4, <2>1, FS_Subset
<1>6. Over(q) \subseteq Over(p)
  <2> SUFFICES ASSUME NEW k \in K, q >= Pow2[W + k * W] PROVE p >= Pow2[W + k * W]
    OBVIOUS
  <2> DEFINE x == Pow2[W + k * W]
  <2>1. x \in Nat
    BY <1>3
  <2> HIDE DEF x
  <2> QED
    BY <2>1 DEF x
<1>7. Over(p) \subseteq {0} \cup Up
  <2> SUFFICES ASSUME NEW k \in K, p >= Pow2[W + k * W], k # 0 PROVE k \in Up
    OBVIOUS
  <2>1. k - 1 \in K /\ k - 1 \in Nat
    BY <1>1
  <2> DEFINE j == k - 1
             x == Pow2[W + j * W]
  <2>2. W + k * W = W + (W + j * W) /\ W + j * W \in Nat
    BY <1>1, <2>1
  <2>3. x \in Nat /\ W + k * W \in 0 .. MaxBits
    BY <1>3, <2>1
  <2>4. Pow2[W + k * W] = B * x
    BY <1>1, <2>2, <2>3, Pow2Sum DEF B
  <2> HIDE DEF x
  <2>5. B * x <= B * q
    <3>1. p >= B * x
      BY <2>4
    <3>2. B * x \in Nat /\ B * q \in Nat
      BY <1>2, <2>3
    <3> QED
      BY <3>1, <3>2
  <2>6. x <= q
    BY <1>2, <2>3, <2>5
  <2>7. j \in Over(q)
    BY <2>1, <2>3, <2>6 DEF x
  <2> QED
    BY <2>1, <2>7
<1> DEFINE cp == Cardinality(Over(p))
           cq == Cardinality(Over(q))
<1>8. cp \in Nat /\ cq \in Nat /\ cq <= cp
  <2> HIDE DEF Over
  <2> QED
    BY <1>5, <1>6, FS_Subset, FS_CardinalityType
<1>9. cp <= cq + 1
  <2>1. IsFiniteSet(Up) /\ Cardinality(Up) <= cq
    <3> DEFINE f == [k \in Over(q) |-> k + 1]
    <3>1. f \in Surjection(Over(q), Up)
      <4> HIDE DEF Over
      <4> QED
        BY DEF Surjection
    <3> HIDE DEF f, Up, Over
    <3> QED
      BY <1>5, <3>1, FS_Surjection
  <2>2. IsFiniteSet({0} \cup Up) /\ Cardinality({0} \cup Up) <= Cardinality(Up) + 1
        /\ Cardinality(Up) \in Nat /\ Cardinality({0} \cup Up) \in Nat
    <3> HIDE DEF Up
    <3>1. Up \cup {0} = {0} \cup Up
      OBVIOUS
    <3>2. IsFiniteSet(Up \cup {0})
          /\ Cardinality(Up \cup {0}) = IF 0 \in Up THEN Cardinality(Up) ELSE Cardinality(Up) + 1
      BY <2>1, FS_AddElement
    <3> DEFINE c == Cardinality(Up)
               d == Cardinality(Up \cup {0})
    <3>3. c \in Nat
      BY <2>1, FS_CardinalityType
    <3>4. IsFiniteSet(Up \cup {0}) /\ (d = c \/ d = c + 1)
      BY <3>2
    <3> HIDE DEF c, d
    <3>5. d <= c + 1 /\ d \in Nat
      BY <3>3, <3>4
    <3> QED
      BY <3>1, <3>3, <3>4, <3>5 DEF c, d
  <2>3. cp <= Cardinality({0} \cup Up)
    <3> HIDE DEF Over, Up
    <3> QED
      BY <1>7, <2>2, FS_Subset
  <2> HIDE DEF cp, cq, Up
  <2> QED
    BY <1>8, <2>1, <2>2, <2>3
<1>10. uint32_size(p) = 1 + cp /\ uint32_size(q) = 1 + cq
  BY DEF uint32_size, Steps
<1> HIDE DEF cp, cq
<1> QED
  BY <1>8, <1>9, <1>10
-----------------------------------------------------------------------------
(* Fields: how long what is packed for them is.                            *)

\* S is Nat, or Byte for a piece whose length a program has.
Writes(S, n) == S = Nat \/ (S = Byte /\ n < U32)

\* n elements of S.
Written(S, n, bytes) == bytes \in Seq(S) /\ Len(bytes) = n

\* Bytes are natural numbers, and 0 is one.
LEMMA ByteFacts ==
  /\ Byte \subseteq Nat /\ 0 \in Byte
  /\ \A S, n : Writes(S, n) => 0 \in S /\ Byte \subseteq S
<1>1. B \in Nat /\ B >= 8
  BY PowerFacts
<1>2. Byte \subseteq Nat /\ 0 \in Byte
  BY <1>1 DEF Byte
<1> QED
  BY <1>2 DEF Writes

\* A length in front.
LEMMA LengthBytes ==
  ASSUME NEW S, NEW v \in Nat, Writes(S, v)
  PROVE  /\ uint32_pack(v) \in Seq(S)
         /\ Len(uint32_pack(v)) = uint32_size(v) /\ uint32_size(v) \in Nat /\ uint32_size(v) >= 1
<1>1. Len32 \in Nat
  BY WidthFacts
<1>2. /\ uint32_pack(v) \in Seq(Nat) /\ Len(uint32_pack(v)) = uint32_size(v)
      /\ uint32_size(v) \in 1 .. Len32 /\ (v < U32 => uint32_pack(v) \in Seq(Byte))
  BY Uint32Pack
<1>3. uint32_pack(v) \in Seq(S)
  BY <1>2 DEF Writes
<1> QED
  BY <1>1, <1>2, <1>3

\* A message that was packed elsewhere, with its length.
LEMMA PrefixedBytes ==
  ASSUME NEW S, NEW body \in Seq(S), Writes(S, Len(body))
  PROVE  prefixed_message_pack(body) = uint32_pack(Len(body)) \o body
<1> DEFINE l == Len(body)
           b == uint32_pack(l)
<1>1. l \in Nat
  BY LenProperties
<1>2. b \in Seq(S) /\ Len(b) = uint32_size(l) /\ 0 \in S
  <2> HIDE DEF l
  <2> QED
    BY <1>1, LengthBytes, ByteFacts DEF l
<1>3. prefixed_message_pack(body) = Overwrite(Room(Len(b)) \o body, 0, b)
  <2> HIDE DEF b
  <2>1. prefixed_message_pack(body) = Overwrite(Room(uint32_size(l)) \o body, 0, b)
    BY DEF prefixed_message_pack, b
  <2> QED
    BY <1>2, <2>1
<1> HIDE DEF b, l
<1>4. Overwrite(Room(Len(b)) \o body, 0, b) = b \o body
  BY <1>2, RoomFilledFirst
<1> QED
  BY <1>3, <1>4 DEF b, l

\* The message in a value is packed into as many bytes as it is said to take.
Fits(S, type, v, N, P) == type = "message" => P[v] \in Seq(S) /\ N[v] = Len(P[v])

\* A value is written as long as ValueSize says, in bytes if its length fits in an int.
LEMMA ValueBytes ==
  ASSUME NEW S, NEW N, NEW P, NEW type \in Types, NEW v, IsValue(type, v),
         Fits(Nat, type, v, N, P)
  PROVE  /\ ValueSize(type, v, N) \in Nat
         /\ Writes(S, ValueSize(type, v, N)) /\ Fits(S, type, v, N, P) =>
              ValuePack(type, v, P) \in Seq(S) /\ Len(ValuePack(type, v, P)) = ValueSize(type, v, N)
<1>1. ASSUME NEW body \in Seq(Nat)
      PROVE  LET s == uint32_size(Len(body)) + Len(body)
                 p == uint32_pack(Len(body))
             IN  /\ s \in Nat
                 /\ Writes(S, s) /\ body \in Seq(S) =>
                      p \o body \in Seq(S) /\ Len(p \o body) = s /\ Writes(S, Len(body))
  <2> DEFINE l == Len(body)
             s == uint32_size(l) + l
             p == uint32_pack(l)
  <2>1. l \in Nat
    BY LenProperties
  <2> HIDE DEF l
  <2>2. uint32_size(l) \in Nat
    BY <2>1, LengthBytes DEF Writes
  <2>3. s \in Nat /\ l <= s
    BY <2>1, <2>2
  <2>4. ASSUME Writes(S, s), body \in Seq(S)
        PROVE  p \o body \in Seq(S) /\ Len(p \o body) = s /\ Writes(S, l)
    <3>0. U32 \in Nat
      BY PowerFacts
    <3>1. Writes(S, l)
      BY <2>1, <2>3, <2>4, <3>0 DEF Writes
    <3>2. p \in Seq(S) /\ Len(p) = uint32_size(l)
      BY <2>1, <3>1, LengthBytes
    <3> HIDE DEF p
    <3>3. p \o body \in Seq(S) /\ Len(p \o body) = Len(p) + Len(body)
      BY <2>4, <3>2, ConcatProperties
    <3> QED
      BY <3>1, <3>2, <3>3 DEF l
  <2> QED
    BY <2>3, <2>4 DEF l
<1> HIDE <1>1
<1>2. CASE type \in Blobs
  <2>1. v \in Seq(Byte) /\ v \in Seq(Nat)
    <3>0. type # "message" /\ type # "int32"
      BY <1>2 DEF Blobs
    <3>1. v \in Seq(Byte)
      BY <1>2, <3>0 DEF IsValue, Byte
    <3> QED
      BY <3>1, ByteFacts, SeqMonotonic
  <2>2. Writes(S, ValueSize(type, v, N)) => v \in Seq(S)
    BY <2>1, ByteFacts DEF Writes
  <2>3. ValueSize(type, v, N) = uint32_size(Len(v)) + Len(v) /\ ValuePack(type, v, P) = uint32_pack(Len(v)) \o v
    <3>0. type # "message"
      BY <1>2 DEF Blobs
    <3> QED
      BY <1>2, <3>0, Zenon DEF ValueSize, ValuePack
  <2> QED
    BY <1>1, <2>1, <2>2, <2>3
<1>3. CASE type = "message"
  <2> DEFINE body == P[v]
  <2>1. body \in Seq(Nat) /\ N[v] = Len(body)
    BY <1>3 DEF Fits
  <2>2. type \notin Blobs
    BY <1>3 DEF Blobs
  <2>3. ValueSize(type, v, N) = uint32_size(Len(body)) + Len(body)
        /\ ValuePack(type, v, P) = prefixed_message_pack(body)
    BY <1>3, <2>1, <2>2 DEF ValueSize, ValuePack
  <2>4. Fits(S, type, v, N, P) => body \in Seq(S)
    BY <1>3 DEF Fits
  <2> HIDE DEF body
  <2>5. body \in Seq(S) /\ Writes(S, Len(body)) =>
           prefixed_message_pack(body) = uint32_pack(Len(body)) \o body
    BY PrefixedBytes
  <2> QED
    BY <1>1, <2>1, <2>3, <2>4, <2>5
<1>4. CASE type \in NumberTypes
  <2>1. type \notin Blobs /\ type # "message"
    BY <1>4 DEF NumberTypes, Blobs, Fixed32, Fixed64
  <2>2. ValueSize(type, v, N) = NumberSize(type, v) /\ ValuePack(type, v, P) = NumberPack(type, v)
    BY <2>1 DEF ValueSize, ValuePack
  <2>3. NumberPack(type, v) \in Seq(Byte) /\ Len(NumberPack(type, v)) = NumberSize(type, v) /\ NumberSize(type, v) \in Nat
    BY <1>4, NumberBytes
  <2>4. Writes(S, ValueSize(type, v, N)) => NumberPack(type, v) \in Seq(S)
    BY <2>3, ByteFacts, SeqMonotonic
  <2> QED
    BY <2>2, <2>3, <2>4
<1> QED
  BY <1>2, <1>3, <1>4 DEF Types

\* The wire type leaves the rest of the byte to the number of the field.
LEMMA FieldTag ==
  ASSUME NEW f, IsField(f)
  PROVE  /\ Tag(f.id, WireType(f.type)) \in Seq(Byte) /\ Tag(f.id, 2) \in Seq(Byte)
         /\ Len(Tag(f.id, WireType(f.type))) = get_tag_size(f.id)
         /\ Len(Tag(f.id, 2)) = get_tag_size(f.id)
         /\ get_tag_size(f.id) \in Nat /\ get_tag_size(f.id) >= 1
<1>1. f.id \in 1 .. U32 - 1 /\ WireType(f.type) \in 0 .. 7 /\ 2 \in 0 .. 7
  BY DEF IsField, WireType
<1> QED
  BY <1>1, TagBytes

\* So is a value with its tag.
LEMMA RequiredBytes ==
  ASSUME NEW S, NEW N, NEW P, NEW f, IsField(f), NEW v \in ToSet(f.values),
         Fits(Nat, f.type, v, N, P)
  PROVE  /\ get_tag_size(f.id) + ValueSize(f.type, v, N) \in Nat
         /\ Writes(S, get_tag_size(f.id) + ValueSize(f.type, v, N)) /\ Fits(S, f.type, v, N, P) =>
              Written(S, get_tag_size(f.id) + ValueSize(f.type, v, N), required_field_pack(f, v, P))
<1> DEFINE t == Tag(f.id, WireType(f.type))
           z == ValueSize(f.type, v, N)
           g == get_tag_size(f.id)
           b == ValuePack(f.type, v, P)
<1>1. t \in Seq(Byte) /\ Len(t) = g /\ g \in Nat
  BY FieldTag
<1>2. z \in Nat /\ (Writes(S, z) /\ Fits(S, f.type, v, N, P) => b \in Seq(S) /\ Len(b) = z)
  BY ValueBytes DEF IsField
<1>3. required_field_pack(f, v, P) = t \o b
  BY DEF required_field_pack
<1> HIDE DEF t, z, g, b
<1>4. U32 \in Nat
  BY PowerFacts
<1>5. ASSUME Writes(S, g + z), Fits(S, f.type, v, N, P)
      PROVE  t \o b \in Seq(S) /\ Len(t \o b) = g + z
  <2>1. Writes(S, z)
    BY <1>1, <1>2, <1>4, <1>5 DEF Writes
  <2>2. t \in Seq(S)
    BY <1>1, <1>5, ByteFacts, SeqMonotonic
  <2>3. b \in Seq(S) /\ Len(b) = z
    BY <1>2, <1>5, <2>1
  <2> QED
    BY <1>1, <2>2, <2>3, ConcatProperties
<1>6. g + z \in Nat
  BY <1>1, <1>2
<1> QED
  BY <1>3, <1>5, <1>6 DEF g, z, Written
-----------------------------------------------------------------------------
(* Packed fields.                                                          *)

\* f.values is a sequence.
LEMMA ValuesSeq ==
  ASSUME NEW f, IsField(f)
  PROVE  /\ f.values \in Seq(ToSet(f.values)) /\ Len(f.values) \in Nat
         /\ DOMAIN f.values = 1 .. Len(f.values)
         /\ \A k \in 1 .. Len(f.values) : f.values[k] \in ToSet(f.values)
         /\ \A v \in ToSet(f.values) : IsValue(f.type, v)
<1>1. f.values \in Seq(ToSet(f.values)) /\ \A v \in ToSet(f.values) : IsValue(f.type, v)
  BY DEF IsField, IsSeq
<1> QED
  BY <1>1, LenProperties, ElementOfSeq

\* The numbers of a packed field take as many bytes as get_packed_payload_length says,
\* at least as many as are guessed from their count, and no more than B times as many.
LEMMA PayloadBytes ==
  ASSUME NEW f, IsField(f), f.type \in NumberTypes
  PROVE  /\ Payload(f) \in Seq(Byte)
         /\ Len(Payload(f)) = get_packed_payload_length(f) /\ Len(Payload(f)) \in Nat
         /\ get_type_min_size(f.type) * Len(f.values) \in Nat
         /\ get_type_min_size(f.type) * Len(f.values) <= Len(Payload(f))
         /\ Len(Payload(f)) <= B * (get_type_min_size(f.type) * Len(f.values))
<1> DEFINE n == Len(f.values)
           ps == [k \in 1 .. n |-> NumberPack(f.type, f.values[k])]
           ns == [k \in 1 .. n |-> NumberSize(f.type, f.values[k])]
<1>1. n \in Nat /\ DOMAIN f.values = 1 .. n
  BY ValuesSeq
<1>2. ASSUME NEW k \in 1 .. n
      PROVE  /\ NumberPack(f.type, f.values[k]) \in Seq(Byte)
             /\ Len(NumberPack(f.type, f.values[k])) = NumberSize(f.type, f.values[k])
             /\ NumberSize(f.type, f.values[k]) \in Nat /\ NumberSize(f.type, f.values[k]) >= 1
             /\ f.type \in Fixed32 => NumberSize(f.type, f.values[k]) = FixedLen
             /\ f.type \in Fixed64 => NumberSize(f.type, f.values[k]) = 2 * FixedLen
             /\ f.type \notin Fixed32 \cup Fixed64 => NumberSize(f.type, f.values[k]) <= Len64
  <2>1. IsValue(f.type, f.values[k])
    BY ValuesSeq
  <2> QED
    BY <2>1, NumberBytes
<1>3. Payload(f) = Concat(ps) /\ get_packed_payload_length(f) = SumOf(ns)
  BY <1>1 DEF Payload, get_packed_payload_length
<1>4. ps \in Seq(Seq(Byte)) /\ Len(ps) = n /\ \A k \in 1 .. n : ps[k] = NumberPack(f.type, f.values[k])
  <2>1. ps \in [1 .. n -> Seq(Byte)]
    BY <1>2
  <2>2. \A k \in 1 .. n : ps[k] = NumberPack(f.type, f.values[k])
    OBVIOUS
  <2> HIDE DEF ps, n
  <2> QED
    BY <1>1, <2>1, <2>2, FunctionIsSeq
<1>5. ns \in Seq(Nat) /\ Len(ns) = n /\ \A k \in 1 .. n : ns[k] = NumberSize(f.type, f.values[k])
  <2>1. ns \in [1 .. n -> Nat]
    BY <1>2
  <2>2. \A k \in 1 .. n : ns[k] = NumberSize(f.type, f.values[k])
    OBVIOUS
  <2> HIDE DEF ns, n
  <2> QED
    BY <1>1, <2>1, <2>2, FunctionIsSeq
<1> HIDE DEF ps, ns, n
<1>6. Concat(ps) \in Seq(Byte) /\ Len(Concat(ps)) = SumOf(ns)
  <2>1. Len(ns) = Len(ps) /\ \A k \in 1 .. Len(ps) : ns[k] = Len(ps[k])
    BY <1>2, <1>4, <1>5
  <2> QED
    BY <1>4, <1>5, <2>1, ConcatLen
<1>7. SumOf(ns) \in Nat
  BY <1>5, SumNat
<1>8. FixedLen \in Nat /\ Len64 \in Nat /\ B \in Nat /\ B >= 8 /\ Len64 <= B
  BY WidthFacts, PowerFacts
<1> DEFINE m == get_type_min_size(f.type)
<1>9. m \in Nat /\ m * n <= SumOf(ns) /\ SumOf(ns) <= B * (m * n)
  <2>0. ASSUME NEW a \in Nat, a * n <= SumOf(ns), SumOf(ns) <= a * n
        PROVE  a * n <= SumOf(ns) /\ SumOf(ns) <= B * (a * n)
    <3> DEFINE x == a * n
    <3>1. x \in Nat
      BY <1>1
    <3>2. x <= SumOf(ns) /\ SumOf(ns) <= x
      BY <2>0
    <3> HIDE DEF x
    <3>3. x <= B * x
      BY <1>8, <3>1
    <3>4. SumOf(ns) <= B * x
      <4>1. B * x \in Nat
        BY <1>8, <3>1
      <4> QED
        BY <1>7, <3>1, <3>2, <3>3, <4>1
    <3> QED
      BY <3>2, <3>4 DEF x
  <2>1. CASE f.type \in Fixed32
    <3>1. m = FixedLen
      BY <2>1 DEF get_type_min_size
    <3>2. \A k \in 1 .. Len(ns) : FixedLen <= ns[k] /\ ns[k] <= FixedLen
      BY <1>2, <1>5, <1>8, <2>1
    <3>3. FixedLen * n <= SumOf(ns) /\ SumOf(ns) <= FixedLen * n
      BY <1>5, <1>8, <3>2, SumBounds
    <3> QED
      BY <1>8, <2>0, <3>1, <3>3
  <2>2. CASE f.type \in Fixed64
    <3> DEFINE F2 == 2 * FixedLen
    <3>0. F2 \in Nat /\ f.type \notin Fixed32
      BY <1>8, <2>2 DEF Fixed32, Fixed64
    <3>1. m = F2
      BY <2>2, <3>0 DEF get_type_min_size
    <3>2. \A k \in 1 .. n : ns[k] = F2
      BY <1>2, <1>5, <2>2
    <3> HIDE DEF F2
    <3>3. \A k \in 1 .. Len(ns) : F2 <= ns[k] /\ ns[k] <= F2
      BY <1>5, <3>0, <3>2
    <3>4. F2 * n <= SumOf(ns) /\ SumOf(ns) <= F2 * n
      BY <1>5, <3>0, <3>3, SumBounds
    <3> QED
      BY <2>0, <3>0, <3>1, <3>4
  <2>3. CASE f.type \notin Fixed32 \cup Fixed64
    <3>1. m = 1
      BY <2>3 DEF get_type_min_size
    <3>2. \A k \in 1 .. Len(ns) : 1 <= ns[k] /\ ns[k] <= B
      <4> TAKE k \in 1 .. Len(ns)
      <4>1. ns[k] \in Nat /\ ns[k] >= 1 /\ ns[k] <= Len64
        BY <1>2, <1>5, <2>3
      <4> QED
        BY <1>8, <4>1
    <3>3. 1 * n <= SumOf(ns) /\ SumOf(ns) <= B * n
      BY <1>5, <1>8, <3>2, SumBounds
    <3>4. 1 * n = n
      BY <1>1
    <3> HIDE DEF m
    <3> QED
      BY <3>1, <3>3, <3>4
  <2> QED
    BY <2>1, <2>2, <2>3
<1>10. m * n \in Nat
  <2> HIDE DEF m
  <2> QED
    BY <1>1, <1>9
<1> QED
  BY <1>3, <1>6, <1>7, <1>9, <1>10 DEF n

\* The two assertions.
LEMMA GuessIsRight ==
  ASSUME NEW f, IsField(f)
  PROVE  GuessHolds(f) /\ PayloadLengthHolds(f)
<1> SUFFICES ASSUME f.label = "repeated", f.packed
             PROVE  /\ actual_length_size(f) \in {length_size_min(f), length_size_min(f) + 1}
                    /\ get_packed_payload_length(f) = Len(Payload(f))
  BY DEF GuessHolds, PayloadLengthHolds
<1>1. f.type \in NumberTypes
  BY DEF IsField
<1> QED
  BY <1>1, PayloadBytes, OneByteMore DEF actual_length_size, length_size_min

\* A packed field is its tag, its length and its numbers, wherever the numbers were
\* first written.
LEMMA PackedBytes ==
  ASSUME NEW S, NEW f, IsField(f), f.label = "repeated", f.packed,
         Writes(S, Len(Payload(f)))
  PROVE  LET p == Payload(f)
             n == get_tag_size(f.id) + uint32_size(Len(p)) + Len(p)
         IN  /\ PackedPack(f) = (Tag(f.id, 2) \o uint32_pack(Len(p))) \o p
             /\ PackedPack(f) \in Seq(S) /\ Len(PackedPack(f)) = n /\ n \in Nat
<1> DEFINE t == Tag(f.id, 2)
           p == Payload(f)
           l == Len(p)
           b == uint32_pack(l)
           gap == length_size_min(f) + (IF length_size_min(f) # actual_length_size(f) THEN 1 ELSE 0)
<1>1. f.type \in NumberTypes
  BY DEF IsField
<1>2. p \in Seq(Byte) /\ l \in Nat /\ get_type_min_size(f.type) * Len(f.values) \in Nat
  BY <1>1, PayloadBytes
<1>3. t \in Seq(Byte) /\ Len(t) = get_tag_size(f.id) /\ get_tag_size(f.id) \in Nat
  BY FieldTag
<1>4. b \in Seq(S) /\ Len(b) = uint32_size(l) /\ uint32_size(l) \in Nat
  BY <1>2, LengthBytes
<1>5. p \in Seq(S) /\ t \in Seq(S) /\ 0 \in S
  BY <1>2, <1>3, ByteFacts, SeqMonotonic
<1>6. gap = Len(b)
  <2>1. length_size_min(f) \in Nat
    <3>1. Writes(Nat, get_type_min_size(f.type) * Len(f.values))
      BY DEF Writes
    <3> QED
      BY <1>2, <3>1, LengthBytes DEF length_size_min
  <2>2. actual_length_size(f) \in {length_size_min(f), length_size_min(f) + 1}
    BY <1>1, PayloadBytes, OneByteMore DEF actual_length_size, length_size_min
  <2>3. Len(b) = actual_length_size(f)
    BY <1>4 DEF actual_length_size
  <2> HIDE DEF b
  <2> QED
    BY <2>1, <2>2, <2>3
<1>7. PackedPack(f) = Overwrite((t \o Room(gap)) \o p, Len(t), b)
  BY DEF PackedPack
<1> HIDE DEF t, p, b, gap
<1>8. Overwrite((t \o Room(Len(b))) \o p, Len(t), b) = (t \o b) \o p
  <2>1. b \in Seq(S) /\ p \in Seq(S) /\ t \in Seq(S) /\ 0 \in S
    BY <1>4, <1>5
  <2> HIDE DEF l
  <2> QED
    BY <2>1, RoomFilled
<1>9. t \o b \in Seq(S) /\ Len(t \o b) = Len(t) + Len(b)
  BY <1>4, <1>5, ConcatProperties
<1> DEFINE tb == t \o b
<1> HIDE DEF tb
<1>10. tb \o p \in Seq(S) /\ Len(tb \o p) = Len(tb) + Len(p)
  BY <1>5, <1>9, ConcatProperties DEF tb
<1>11. get_tag_size(f.id) + uint32_size(l) + l \in Nat
  BY <1>2, <1>3, <1>4
<1> QED
  BY <1>3, <1>4, <1>6, <1>7, <1>8, <1>9, <1>10, <1>11 DEF tb, t, p, b
-----------------------------------------------------------------------------
(* Sums and strings of pieces, one for each of several.                    *)

\* Pieces of the sizes they are said to have, of which the whole may be no longer
\* than a program can say.
LEMMA PiecesBytes ==
  ASSUME NEW S, NEW ps, NEW ns, NEW n \in Nat, ps \in [1 .. n -> Seq(S)], ns \in [1 .. n -> Nat],
         \A k \in 1 .. n : Len(ps[k]) = ns[k]
  PROVE  Concat(ps) \in Seq(S) /\ Len(Concat(ps)) = SumOf(ns) /\ SumOf(ns) \in Nat
<1>1. ps \in Seq(Seq(S)) /\ Len(ps) = n /\ ns \in Seq(Nat) /\ Len(ns) = n
  BY FunctionIsSeq
<1> QED
  BY <1>1, ConcatLen, SumNat

\* A part is no more than the whole.
LEMMA SumPart ==
  ASSUME NEW n \in Nat, NEW ns \in [1 .. n -> Nat], NEW j \in 1 .. n
  PROVE  SumOf(ns) \in Nat /\ ns[j] <= SumOf(ns)
<1> DEFINE G == {s \in Seq(Nat) : \A k \in 1 .. Len(s) : s[k] <= SumOf(s)}
<1>1. <<>> \in G
  OBVIOUS
<1>2. ASSUME NEW s \in Seq(Nat), NEW x \in Nat, s \in G PROVE Append(s, x) \in G
  <2> DEFINE t == Append(s, x)
             l == Len(s)
  <2>1. t \in Seq(Nat) /\ Len(t) = l + 1 /\ t[l + 1] = x /\ (\A k \in 1 .. l : t[k] = s[k]) /\ l \in Nat
    OBVIOUS
  <2>2. SumOf(s) \in Nat /\ SumOf(t) = SumOf(s) + x
    BY SumAppend
  <2> HIDE DEF t
  <2>3. ASSUME NEW k \in 1 .. l + 1 PROVE t[k] <= SumOf(t)
    <3>1. CASE k = l + 1
      BY <2>1, <2>2, <3>1
    <3>2. CASE k \in 1 .. l
      <4>1. s[k] <= SumOf(s) /\ s[k] \in Nat
        BY <1>2, <3>2
      <4> QED
        BY SMTT(60), <2>1, <2>2, <3>2, <4>1
    <3> QED
      BY <2>1, <3>1, <3>2
  <2> QED
    BY <2>1, <2>3 DEF t
<1> HIDE DEF G
<1>3. \A s \in Seq(Nat) : s \in G
  BY <1>1, <1>2, SeqInduction
<1>4. ns \in Seq(Nat) /\ Len(ns) = n
  BY FunctionIsSeq
<1> QED
  BY <1>3, <1>4, SumNat DEF G

\* As many times the same more.
LEMMA SumPlus ==
  ASSUME NEW g \in Nat, NEW n \in Nat, NEW ns \in [1 .. n -> Nat], NEW ms \in [1 .. n -> Nat],
         \A k \in 1 .. n : ms[k] = g + ns[k]
  PROVE  SumOf(ms) = g * n + SumOf(ns)
<1> DEFINE More(s) == [k \in 1 .. Len(s) |-> g + s[k]]
           G == {s \in Seq(Nat) : SumOf(More(s)) = g * Len(s) + SumOf(s)}
<1>1. <<>> \in G
  <2>1. More(<<>>) = <<>> /\ Len(<<>>) = 0 /\ g * 0 = 0 /\ <<>> \in Seq(Nat)
    OBVIOUS
  <2> QED
    BY <2>1, SumEmpty
<1>2. ASSUME NEW s \in Seq(Nat), NEW x \in Nat, s \in G PROVE Append(s, x) \in G
  <2> DEFINE t == Append(s, x)
             l == Len(s)
             p == More(t)
             q == Append(More(s), g + x)
  <2>1. t \in Seq(Nat) /\ Len(t) = l + 1 /\ t[l + 1] = x /\ (\A k \in 1 .. l : t[k] = s[k]) /\ l \in Nat
    OBVIOUS
  <2>2. SumOf(s) \in Nat /\ SumOf(t) = SumOf(s) + x
    BY SumAppend
  <2> HIDE DEF t
  <2>3. More(s) \in Seq(Nat) /\ Len(More(s)) = l /\ g + x \in Nat /\ \A k \in 1 .. l : More(s)[k] = g + s[k]
    OBVIOUS
  <2>4. p \in Seq(Nat) /\ Len(p) = l + 1 /\ \A k \in 1 .. l + 1 : p[k] = g + t[k]
    BY <2>1
  <2>5. SumOf(q) = SumOf(More(s)) + (g + x)
    <3> HIDE DEF More
    <3> QED
      BY <2>3, SumAppend
  <2> DEFINE ms2 == More(s)
  <2> HIDE DEF p, ms2
  <2>6. q \in Seq(Nat) /\ Len(q) = l + 1 /\ q[l + 1] = g + x /\ \A k \in 1 .. l : q[k] = ms2[k]
    <3>1. ms2 \in Seq(Nat) /\ Len(ms2) = l /\ q = Append(ms2, g + x)
      BY <2>3 DEF ms2
    <3> HIDE DEF q, l
    <3> QED
      BY <2>1, <2>3, <3>1
  <2> HIDE DEF q, l
  <2>7. \A k \in 1 .. l + 1 : p[k] = q[k]
    <3> TAKE k \in 1 .. l + 1
    <3>1. k = l + 1 \/ k \in 1 .. l
      BY <2>1
    <3>2. \A j \in 1 .. l : ms2[j] = g + s[j]
      BY <2>3 DEF ms2
    <3> QED
      BY <2>1, <2>4, <2>6, <3>1, <3>2
  <2>8. p = q
    BY <2>4, <2>6, <2>7, SeqEqual
  <2>9. SumOf(More(s)) = g * l + SumOf(s)
    BY <1>2 DEF l
  <2>10. g * (l + 1) = g * l + g /\ g * l \in Nat
    BY <2>1
  <2>11. SumOf(More(t)) = g * (l + 1) + SumOf(t)
    <3>1. SumOf(More(t)) = (g * l + SumOf(s)) + (g + x)
      BY <2>5, <2>8, <2>9 DEF p
    <3> DEFINE gl == g * l
    <3> HIDE DEF gl
    <3> QED
      BY <2>2, <2>10, <3>1 DEF gl
  <2> QED
    BY <2>1, <2>11 DEF t
<1> HIDE DEF G
<1>3. \A s \in Seq(Nat) : s \in G
  BY <1>1, <1>2, SeqInduction
<1>4. ns \in Seq(Nat) /\ Len(ns) = n
  BY FunctionIsSeq
<1>5. SumOf(More(ns)) = g * n + SumOf(ns)
  BY <1>3, <1>4 DEF G
<1>6. More(ns) = ms
  BY <1>4
<1> QED
  BY <1>5, <1>6
-----------------------------------------------------------------------------
(* What the recursive functions of Pack say of one depth and the next.      *)

\* The messages so many messages down.
LEMMA AtDepthSteps ==
  /\ AtDepth[0] = Messages
  /\ \A d \in 1 .. MaxDepth : AtDepth[d] = UNION {Submessages(m) : m \in AtDepth[d - 1]}
<1> DEFINE N == MaxDepth
           base == Messages
           Level(x) == UNION {Submessages(m) : m \in x}
           Def(t, n) == t = [d \in 0 .. n |-> IF d = 0 THEN base ELSE Level(t[d - 1])]
           Good(n) == \E t : Def(t, n)
           p == CHOOSE t : t = [d \in 0 .. N |-> IF d = 0 THEN Messages ELSE UNION {Submessages(m) : m \in t[d - 1]}]
<1>1. N \in Nat
  BY PackAssumption
<1>2. AtDepth = p
  BY DEF AtDepth
<1>3. ASSUME NEW t PROVE [d \in 0 .. N |-> IF d = 0 THEN Messages ELSE UNION {Submessages(m) : m \in t[d - 1]}]
                          = [d \in 0 .. N |-> IF d = 0 THEN base ELSE Level(t[d - 1])]
  OBVIOUS
<1>4. p = CHOOSE t : Def(t, N)
  BY <1>3
<1> HIDE DEF N, base, Level, p
<1>5. Good(0)
  <2>1. Def([d \in 0 .. 0 |-> base], 0)
    OBVIOUS
  <2> QED
    BY <2>1
<1>6. ASSUME NEW n \in Nat, n # 0, Good(n - 1) PROVE Good(n)
  <2>1. PICK t : Def(t, n - 1)
    BY <1>6
  <2> DEFINE u == [d \in 0 .. n |-> IF d = n THEN Level(t[n - 1]) ELSE t[d]]
             r == [d \in 0 .. n |-> IF d = 0 THEN base ELSE Level(u[d - 1])]
  <2>2. ASSUME NEW d \in 0 .. n PROVE u[d] = IF d = 0 THEN base ELSE Level(u[d - 1])
    <3>1. CASE d = 0
      <4>1. d \in 0 .. n - 1 /\ d # n
        BY <1>6, <3>1
      <4>2. t[d] = base
        BY <2>1, <3>1, <4>1
      <4> QED
        BY <3>1, <4>1, <4>2
    <3>2. CASE d # 0
      <4>1. d - 1 \in 0 .. n /\ d - 1 # n /\ d - 1 \in 0 .. n - 1
        BY <1>6, <3>2
      <4>2. u[d - 1] = t[d - 1]
        BY <4>1
      <4>3. u[d] = Level(t[d - 1])
        <5>1. CASE d = n
          BY <5>1
        <5>2. CASE d # n
          <6>1. d \in 0 .. n - 1
            BY <1>6, <5>2
          <6>2. t[d] = Level(t[d - 1])
            BY <2>1, <3>2, <6>1
          <6> QED
            BY <5>2, <6>2
        <5> QED
          BY <5>1, <5>2
      <4> QED
        BY <3>2, <4>2, <4>3
    <3> QED
      BY <3>1, <3>2
  <2>3. u = r
    BY <2>2
  <2>4. Def(u, n)
    BY <2>3
  <2> QED
    BY <2>4
<1>7. Good(N)
  <2> DEFINE Bad == {n \in Nat : ~Good(n)}
  <2> HIDE DEF Good
  <2>1. ASSUME NEW m \in Bad, \A y \in Bad : m <= y PROVE FALSE
    <3>1. m \in Nat /\ m # 0
      BY <1>5
    <3>2. m - 1 \in Nat /\ ~(m <= m - 1)
      BY <3>1
    <3>3. Good(m - 1)
      BY <2>1, <3>2
    <3> QED
      BY <1>6, <3>1, <3>3
  <2>2. Bad \in SUBSET Nat
    OBVIOUS
  <2> HIDE DEF Bad
  <2>3. Bad = {}
    BY <2>1, <2>2, SmallestExists
  <2> QED
    BY <1>1, <2>3 DEF Bad
<1>8. Def(p, N)
  <2> HIDE DEF Def
  <2> QED
    BY <1>4, <1>7
<1>9. 0 \in 0 .. N /\ \A d \in 1 .. N : d \in 0 .. N /\ d # 0
  BY <1>1
<1>10. p[0] = base /\ \A d \in 1 .. N : p[d] = Level(p[d - 1])
  BY <1>8, <1>9
<1>11. AtDepth[0] = base /\ \A d \in 1 .. N : AtDepth[d] = Level(AtDepth[d - 1])
  BY <1>2, <1>10
<1> QED
  BY <1>11 DEF base, Level, N

\* The sizes.
LEMMA SizesSteps ==
  /\ Sizes[0] = [m \in Known |-> 0]
  /\ \A d \in 1 .. MaxDepth : Sizes[d] = [m \in Known |-> MessageSize(m, Sizes[d - 1])]
<1> DEFINE N == MaxDepth
           base == [m \in Known |-> 0]
           Level(x) == [m \in Known |-> MessageSize(m, x)]
           Def(t, n) == t = [d \in 0 .. n |-> IF d = 0 THEN base ELSE Level(t[d - 1])]
           Good(n) == \E t : Def(t, n)
           p == CHOOSE t : t = [d \in 0 .. N |-> [m \in Known |-> IF d = 0 THEN 0 ELSE MessageSize(m, t[d - 1])]]
<1>1. N \in Nat
  BY PackAssumption
<1>2. Sizes = p
  BY DEF Sizes
<1>3. ASSUME NEW t PROVE [d \in 0 .. N |-> [m \in Known |-> IF d = 0 THEN 0 ELSE MessageSize(m, t[d - 1])]]
                          = [d \in 0 .. N |-> IF d = 0 THEN base ELSE Level(t[d - 1])]
  OBVIOUS
<1>4. p = CHOOSE t : Def(t, N)
  BY <1>3
<1> HIDE DEF N, base, Level, p
<1>5. Good(0)
  <2>1. Def([d \in 0 .. 0 |-> base], 0)
    OBVIOUS
  <2> QED
    BY <2>1
<1>6. ASSUME NEW n \in Nat, n # 0, Good(n - 1) PROVE Good(n)
  <2>1. PICK t : Def(t, n - 1)
    BY <1>6
  <2> DEFINE u == [d \in 0 .. n |-> IF d = n THEN Level(t[n - 1]) ELSE t[d]]
             r == [d \in 0 .. n |-> IF d = 0 THEN base ELSE Level(u[d - 1])]
  <2>2. ASSUME NEW d \in 0 .. n PROVE u[d] = IF d = 0 THEN base ELSE Level(u[d - 1])
    <3>1. CASE d = 0
      <4>1. d \in 0 .. n - 1 /\ d # n
        BY <1>6, <3>1
      <4>2. t[d] = base
        BY <2>1, <3>1, <4>1
      <4> QED
        BY <3>1, <4>1, <4>2
    <3>2. CASE d # 0
      <4>1. d - 1 \in 0 .. n /\ d - 1 # n /\ d - 1 \in 0 .. n - 1
        BY <1>6, <3>2
      <4>2. u[d - 1] = t[d - 1]
        BY <4>1
      <4>3. u[d] = Level(t[d - 1])
        <5>1. CASE d = n
          BY <5>1
        <5>2. CASE d # n
          <6>1. d \in 0 .. n - 1
            BY <1>6, <5>2
          <6>2. t[d] = Level(t[d - 1])
            BY <2>1, <3>2, <6>1
          <6> QED
            BY <5>2, <6>2
        <5> QED
          BY <5>1, <5>2
      <4> QED
        BY <3>2, <4>2, <4>3
    <3> QED
      BY <3>1, <3>2
  <2>3. u = r
    BY <2>2
  <2>4. Def(u, n)
    BY <2>3
  <2> QED
    BY <2>4
<1>7. Good(N)
  <2> DEFINE Bad == {n \in Nat : ~Good(n)}
  <2> HIDE DEF Good
  <2>1. ASSUME NEW m \in Bad, \A y \in Bad : m <= y PROVE FALSE
    <3>1. m \in Nat /\ m # 0
      BY <1>5
    <3>2. m - 1 \in Nat /\ ~(m <= m - 1)
      BY <3>1
    <3>3. Good(m - 1)
      BY <2>1, <3>2
    <3> QED
      BY <1>6, <3>1, <3>3
  <2>2. Bad \in SUBSET Nat
    OBVIOUS
  <2> HIDE DEF Bad
  <2>3. Bad = {}
    BY <2>1, <2>2, SmallestExists
  <2> QED
    BY <1>1, <2>3 DEF Bad
<1>8. Def(p, N)
  <2> HIDE DEF Def
  <2> QED
    BY <1>4, <1>7
<1>9. 0 \in 0 .. N /\ \A d \in 1 .. N : d \in 0 .. N /\ d # 0
  BY <1>1
<1>10. p[0] = base /\ \A d \in 1 .. N : p[d] = Level(p[d - 1])
  BY <1>8, <1>9
<1>11. Sizes[0] = base /\ \A d \in 1 .. N : Sizes[d] = Level(Sizes[d - 1])
  BY <1>2, <1>10
<1> QED
  BY <1>11 DEF base, Level, N

\* The bytes.
LEMMA PacksSteps ==
  /\ Packs[0] = [m \in Known |-> <<>>]
  /\ \A d \in 1 .. MaxDepth : Packs[d] = [m \in Known |-> MessagePack(m, Packs[d - 1])]
<1> DEFINE N == MaxDepth
           base == [m \in Known |-> <<>>]
           Level(x) == [m \in Known |-> MessagePack(m, x)]
           Def(t, n) == t = [d \in 0 .. n |-> IF d = 0 THEN base ELSE Level(t[d - 1])]
           Good(n) == \E t : Def(t, n)
           p == CHOOSE t : t = [d \in 0 .. N |-> [m \in Known |-> IF d = 0 THEN <<>> ELSE MessagePack(m, t[d - 1])]]
<1>1. N \in Nat
  BY PackAssumption
<1>2. Packs = p
  BY DEF Packs
<1>3. ASSUME NEW t PROVE [d \in 0 .. N |-> [m \in Known |-> IF d = 0 THEN <<>> ELSE MessagePack(m, t[d - 1])]]
                          = [d \in 0 .. N |-> IF d = 0 THEN base ELSE Level(t[d - 1])]
  OBVIOUS
<1>4. p = CHOOSE t : Def(t, N)
  BY <1>3
<1> HIDE DEF N, base, Level, p
<1>5. Good(0)
  <2>1. Def([d \in 0 .. 0 |-> base], 0)
    OBVIOUS
  <2> QED
    BY <2>1
<1>6. ASSUME NEW n \in Nat, n # 0, Good(n - 1) PROVE Good(n)
  <2>1. PICK t : Def(t, n - 1)
    BY <1>6
  <2> DEFINE u == [d \in 0 .. n |-> IF d = n THEN Level(t[n - 1]) ELSE t[d]]
             r == [d \in 0 .. n |-> IF d = 0 THEN base ELSE Level(u[d - 1])]
  <2>2. ASSUME NEW d \in 0 .. n PROVE u[d] = IF d = 0 THEN base ELSE Level(u[d - 1])
    <3>1. CASE d = 0
      <4>1. d \in 0 .. n - 1 /\ d # n
        BY <1>6, <3>1
      <4>2. t[d] = base
        BY <2>1, <3>1, <4>1
      <4> QED
        BY <3>1, <4>1, <4>2
    <3>2. CASE d # 0
      <4>1. d - 1 \in 0 .. n /\ d - 1 # n /\ d - 1 \in 0 .. n - 1
        BY <1>6, <3>2
      <4>2. u[d - 1] = t[d - 1]
        BY <4>1
      <4>3. u[d] = Level(t[d - 1])
        <5>1. CASE d = n
          BY <5>1
        <5>2. CASE d # n
          <6>1. d \in 0 .. n - 1
            BY <1>6, <5>2
          <6>2. t[d] = Level(t[d - 1])
            BY <2>1, <3>2, <6>1
          <6> QED
            BY <5>2, <6>2
        <5> QED
          BY <5>1, <5>2
      <4> QED
        BY <3>2, <4>2, <4>3
    <3> QED
      BY <3>1, <3>2
  <2>3. u = r
    BY <2>2
  <2>4. Def(u, n)
    BY <2>3
  <2> QED
    BY <2>4
<1>7. Good(N)
  <2> DEFINE Bad == {n \in Nat : ~Good(n)}
  <2> HIDE DEF Good
  <2>1. ASSUME NEW m \in Bad, \A y \in Bad : m <= y PROVE FALSE
    <3>1. m \in Nat /\ m # 0
      BY <1>5
    <3>2. m - 1 \in Nat /\ ~(m <= m - 1)
      BY <3>1
    <3>3. Good(m - 1)
      BY <2>1, <3>2
    <3> QED
      BY <1>6, <3>1, <3>3
  <2>2. Bad \in SUBSET Nat
    OBVIOUS
  <2> HIDE DEF Bad
  <2>3. Bad = {}
    BY <2>1, <2>2, SmallestExists
  <2> QED
    BY <1>1, <2>3 DEF Bad
<1>8. Def(p, N)
  <2> HIDE DEF Def
  <2> QED
    BY <1>4, <1>7
<1>9. 0 \in 0 .. N /\ \A d \in 1 .. N : d \in 0 .. N /\ d # 0
  BY <1>1
<1>10. p[0] = base /\ \A d \in 1 .. N : p[d] = Level(p[d - 1])
  BY <1>8, <1>9
<1>11. Packs[0] = base /\ \A d \in 1 .. N : Packs[d] = Level(Packs[d - 1])
  BY <1>2, <1>10
<1> QED
  BY <1>11 DEF base, Level, N

\* What is done to a buffer.
LEMMA StepsOfSteps ==
  /\ StepsOf[0] = [m \in Known |-> <<>>]
  /\ \A d \in 1 .. MaxDepth : StepsOf[d] = [m \in Known |-> MessageSteps(m, StepsOf[d - 1])]
<1> DEFINE N == MaxDepth
           base == [m \in Known |-> <<>>]
           Level(x) == [m \in Known |-> MessageSteps(m, x)]
           Def(t, n) == t = [d \in 0 .. n |-> IF d = 0 THEN base ELSE Level(t[d - 1])]
           Good(n) == \E t : Def(t, n)
           p == CHOOSE t : t = [d \in 0 .. N |-> [m \in Known |-> IF d = 0 THEN <<>> ELSE MessageSteps(m, t[d - 1])]]
<1>1. N \in Nat
  BY PackAssumption
<1>2. StepsOf = p
  BY DEF StepsOf
<1>3. ASSUME NEW t PROVE [d \in 0 .. N |-> [m \in Known |-> IF d = 0 THEN <<>> ELSE MessageSteps(m, t[d - 1])]]
                          = [d \in 0 .. N |-> IF d = 0 THEN base ELSE Level(t[d - 1])]
  OBVIOUS
<1>4. p = CHOOSE t : Def(t, N)
  BY <1>3
<1> HIDE DEF N, base, Level, p
<1>5. Good(0)
  <2>1. Def([d \in 0 .. 0 |-> base], 0)
    OBVIOUS
  <2> QED
    BY <2>1
<1>6. ASSUME NEW n \in Nat, n # 0, Good(n - 1) PROVE Good(n)
  <2>1. PICK t : Def(t, n - 1)
    BY <1>6
  <2> DEFINE u == [d \in 0 .. n |-> IF d = n THEN Level(t[n - 1]) ELSE t[d]]
             r == [d \in 0 .. n |-> IF d = 0 THEN base ELSE Level(u[d - 1])]
  <2>2. ASSUME NEW d \in 0 .. n PROVE u[d] = IF d = 0 THEN base ELSE Level(u[d - 1])
    <3>1. CASE d = 0
      <4>1. d \in 0 .. n - 1 /\ d # n
        BY <1>6, <3>1
      <4>2. t[d] = base
        BY <2>1, <3>1, <4>1
      <4> QED
        BY <3>1, <4>1, <4>2
    <3>2. CASE d # 0
      <4>1. d - 1 \in 0 .. n /\ d - 1 # n /\ d - 1 \in 0 .. n - 1
        BY <1>6, <3>2
      <4>2. u[d - 1] = t[d - 1]
        BY <4>1
      <4>3. u[d] = Level(t[d - 1])
        <5>1. CASE d = n
          BY <5>1
        <5>2. CASE d # n
          <6>1. d \in 0 .. n - 1
            BY <1>6, <5>2
          <6>2. t[d] = Level(t[d - 1])
            BY <2>1, <3>2, <6>1
          <6> QED
            BY <5>2, <6>2
        <5> QED
          BY <5>1, <5>2
      <4> QED
        BY <3>2, <4>2, <4>3
    <3> QED
      BY <3>1, <3>2
  <2>3. u = r
    BY <2>2
  <2>4. Def(u, n)
    BY <2>3
  <2> QED
    BY <2>4
<1>7. Good(N)
  <2> DEFINE Bad == {n \in Nat : ~Good(n)}
  <2> HIDE DEF Good
  <2>1. ASSUME NEW m \in Bad, \A y \in Bad : m <= y PROVE FALSE
    <3>1. m \in Nat /\ m # 0
      BY <1>5
    <3>2. m - 1 \in Nat /\ ~(m <= m - 1)
      BY <3>1
    <3>3. Good(m - 1)
      BY <2>1, <3>2
    <3> QED
      BY <1>6, <3>1, <3>3
  <2>2. Bad \in SUBSET Nat
    OBVIOUS
  <2> HIDE DEF Bad
  <2>3. Bad = {}
    BY <2>1, <2>2, SmallestExists
  <2> QED
    BY <1>1, <2>3 DEF Bad
<1>8. Def(p, N)
  <2> HIDE DEF Def
  <2> QED
    BY <1>4, <1>7
<1>9. 0 \in 0 .. N /\ \A d \in 1 .. N : d \in 0 .. N /\ d # 0
  BY <1>1
<1>10. p[0] = base /\ \A d \in 1 .. N : p[d] = Level(p[d - 1])
  BY <1>8, <1>9
<1>11. StepsOf[0] = base /\ \A d \in 1 .. N : StepsOf[d] = Level(StepsOf[d - 1])
  BY <1>2, <1>10
<1> QED
  BY <1>11 DEF base, Level, N

\* The fields in a message and in the messages in it.
LEMMA WithinSteps ==
  /\ Within[0] = [m \in Known |-> ToSet(m.fields) \cup {}]
  /\ \A d \in 1 .. MaxDepth : Within[d] = [m \in Known |-> ToSet(m.fields) \cup UNION {Within[d - 1][s] : s \in Submessages(m)}]
<1> DEFINE N == MaxDepth
           base == [m \in Known |-> ToSet(m.fields) \cup {}]
           Level(x) == [m \in Known |-> ToSet(m.fields) \cup UNION {x[s] : s \in Submessages(m)}]
           Def(t, n) == t = [d \in 0 .. n |-> IF d = 0 THEN base ELSE Level(t[d - 1])]
           Good(n) == \E t : Def(t, n)
           p == CHOOSE t : t = [d \in 0 .. N |-> [m \in Known |-> ToSet(m.fields) \cup IF d = 0 THEN {} ELSE UNION {t[d - 1][s] : s \in Submessages(m)}]]
<1>1. N \in Nat
  BY PackAssumption
<1>2. Within = p
  BY DEF Within
<1> DEFINE E(t) == [d \in 0 .. N |-> [m \in Known |-> ToSet(m.fields) \cup
                     IF d = 0 THEN {} ELSE UNION {t[d - 1][s] : s \in Submessages(m)}]]
           C(t) == [d \in 0 .. N |-> IF d = 0 THEN base ELSE Level(t[d - 1])]
<1>3. ASSUME NEW t PROVE E(t) = C(t)
  OBVIOUS
<1>4. p = CHOOSE t : Def(t, N)
  <2>1. p = CHOOSE t : t = E(t)
    OBVIOUS
  <2>2. (CHOOSE t : t = E(t)) = CHOOSE t : t = C(t)
    <3> HIDE DEF E, C
    <3> QED
      BY <1>3
  <2>3. (CHOOSE t : t = C(t)) = CHOOSE t : Def(t, N)
    OBVIOUS
  <2> QED
    BY <2>1, <2>2, <2>3
<1> HIDE DEF N, base, Level, p
<1>5. Good(0)
  <2>1. Def([d \in 0 .. 0 |-> base], 0)
    OBVIOUS
  <2> QED
    BY <2>1
<1>6. ASSUME NEW n \in Nat, n # 0, Good(n - 1) PROVE Good(n)
  <2>1. PICK t : Def(t, n - 1)
    BY <1>6
  <2> DEFINE u == [d \in 0 .. n |-> IF d = n THEN Level(t[n - 1]) ELSE t[d]]
             r == [d \in 0 .. n |-> IF d = 0 THEN base ELSE Level(u[d - 1])]
  <2>2. ASSUME NEW d \in 0 .. n PROVE u[d] = IF d = 0 THEN base ELSE Level(u[d - 1])
    <3>1. CASE d = 0
      <4>1. d \in 0 .. n - 1 /\ d # n
        BY <1>6, <3>1
      <4>2. t[d] = base
        BY <2>1, <3>1, <4>1
      <4> QED
        BY <3>1, <4>1, <4>2
    <3>2. CASE d # 0
      <4>1. d - 1 \in 0 .. n /\ d - 1 # n /\ d - 1 \in 0 .. n - 1
        BY <1>6, <3>2
      <4>2. u[d - 1] = t[d - 1]
        BY <4>1
      <4>3. u[d] = Level(t[d - 1])
        <5>1. CASE d = n
          BY <5>1
        <5>2. CASE d # n
          <6>1. d \in 0 .. n - 1
            BY <1>6, <5>2
          <6>2. t[d] = Level(t[d - 1])
            BY <2>1, <3>2, <6>1
          <6> QED
            BY <5>2, <6>2
        <5> QED
          BY <5>1, <5>2
      <4> QED
        BY <3>2, <4>2, <4>3
    <3> QED
      BY <3>1, <3>2
  <2>3. u = r
    BY <2>2
  <2>4. Def(u, n)
    BY <2>3
  <2> QED
    BY <2>4
<1>7. Good(N)
  <2> DEFINE Bad == {n \in Nat : ~Good(n)}
  <2> HIDE DEF Good
  <2>1. ASSUME NEW m \in Bad, \A y \in Bad : m <= y PROVE FALSE
    <3>1. m \in Nat /\ m # 0
      BY <1>5
    <3>2. m - 1 \in Nat /\ ~(m <= m - 1)
      BY <3>1
    <3>3. Good(m - 1)
      BY <2>1, <3>2
    <3> QED
      BY <1>6, <3>1, <3>3
  <2>2. Bad \in SUBSET Nat
    OBVIOUS
  <2> HIDE DEF Bad
  <2>3. Bad = {}
    BY <2>1, <2>2, SmallestExists
  <2> QED
    BY <1>1, <2>3 DEF Bad
<1>8. Def(p, N)
  <2> HIDE DEF Def
  <2> QED
    BY <1>4, <1>7
<1>9. 0 \in 0 .. N /\ \A d \in 1 .. N : d \in 0 .. N /\ d # 0
  BY <1>1
<1>10. p[0] = base /\ \A d \in 1 .. N : p[d] = Level(p[d - 1])
  BY <1>8, <1>9
<1>11. Within[0] = base /\ \A d \in 1 .. N : Within[d] = Level(Within[d - 1])
  BY <1>2, <1>10
<1> QED
  BY <1>11 DEF base, Level, N
-----------------------------------------------------------------------------
(* Repeated fields, fields, messages.                                      *)

\* N and P are right about the messages in a field.
FitsAll(S, f, N, P) == \A v \in ToSet(f.values) : Fits(S, f.type, v, N, P)

\* A function of the places of a sequence.
LEMMA EmptyPieces ==
  ASSUME NEW s, s \in Seq(ToSet(s)), Len(s) = 0
  PROVE  s = <<>>
BY EmptySeq

\* A repeated field is written as long as repeated_field_get_packed_size says.
LEMMA RepeatedBytes ==
  ASSUME NEW S, NEW N, NEW P, NEW f, IsField(f), f.label = "repeated", FitsAll(Nat, f, N, P)
  PROVE  LET n == repeated_field_get_packed_size(f, N)
         IN  /\ n \in Nat
             /\ Writes(S, n) /\ FitsAll(S, f, N, P) =>
                  Written(S, n, repeated_field_pack(f, P))
<1> DEFINE c == Len(f.values)
           g == get_tag_size(f.id)
           ns == [k \in 1 .. c |-> ValueSize(f.type, f.values[k], N)]
           ms == [k \in 1 .. c |-> g + ValueSize(f.type, f.values[k], N)]
           ps == [k \in 1 .. c |-> required_field_pack(f, f.values[k], P)]
           n == repeated_field_get_packed_size(f, N)
<1>1. c \in Nat /\ DOMAIN f.values = 1 .. c /\ g \in Nat /\ U32 \in Nat
  BY ValuesSeq, FieldTag, PowerFacts
<1>2. ASSUME NEW k \in 1 .. c
      PROVE  /\ f.values[k] \in ToSet(f.values) /\ IsValue(f.type, f.values[k])
             /\ Fits(Nat, f.type, f.values[k], N, P)
             /\ FitsAll(S, f, N, P) => Fits(S, f.type, f.values[k], N, P)
  BY ValuesSeq DEF FitsAll
<1>3. ASSUME NEW k \in 1 .. c
      PROVE  /\ ValueSize(f.type, f.values[k], N) \in Nat
             /\ g + ValueSize(f.type, f.values[k], N) \in Nat
             /\ Writes(S, g + ValueSize(f.type, f.values[k], N)) /\ FitsAll(S, f, N, P) =>
                  Written(S, g + ValueSize(f.type, f.values[k], N), required_field_pack(f, f.values[k], P))
  <2>1. f.type \in Types
    BY DEF IsField
  <2>2. ValueSize(f.type, f.values[k], N) \in Nat
    BY <1>2, <2>1, ValueBytes
  <2> DEFINE v == f.values[k]
  <2>3. v \in ToSet(f.values) /\ Fits(Nat, f.type, v, N, P)
    BY <1>2
  <2> HIDE DEF v
  <2>4. /\ get_tag_size(f.id) + ValueSize(f.type, v, N) \in Nat
        /\ Writes(S, get_tag_size(f.id) + ValueSize(f.type, v, N)) /\ Fits(S, f.type, v, N, P) =>
             Written(S, get_tag_size(f.id) + ValueSize(f.type, v, N), required_field_pack(f, v, P))
    BY <2>3, RequiredBytes
  <2>5. FitsAll(S, f, N, P) => Fits(S, f.type, v, N, P)
    BY <1>2 DEF v
  <2> QED
    BY <2>2, <2>4, <2>5 DEF v, g
<1>4. ns \in [1 .. c -> Nat] /\ ms \in [1 .. c -> Nat]
  BY <1>3
<1>5. \A k \in 1 .. c : ms[k] = g + ns[k]
  OBVIOUS
<1> HIDE DEF ns, ms
<1>6. SumOf(ms) = g * c + SumOf(ns) /\ SumOf(ns) \in Nat /\ SumOf(ms) \in Nat
  <2> HIDE DEF g, c
  <2>1. SumOf(ms) = g * c + SumOf(ns)
    BY <1>1, <1>4, <1>5, SumPlus
  <2>2. ns \in Seq(Nat) /\ ms \in Seq(Nat)
    BY <1>1, <1>4, FunctionIsSeq
  <2> QED
    BY <2>1, <2>2, SumNat
<1>7. n = IF c = 0 THEN 0
          ELSE IF f.packed THEN g + uint32_size(SumOf(ns)) + SumOf(ns) ELSE g * c + SumOf(ns)
  BY <1>1 DEF repeated_field_get_packed_size, ns
<1>8. CASE f.packed
  <2>1. f.type \in NumberTypes
    BY <1>8 DEF IsField
  <2>2. Payload(f) \in Seq(Byte) /\ Len(Payload(f)) = SumOf(ns)
    <3>1. f.type \notin Blobs /\ f.type # "message"
      BY <2>1 DEF NumberTypes, Blobs, Fixed32, Fixed64
    <3>2. \A k \in 1 .. c : ValueSize(f.type, f.values[k], N) = NumberSize(f.type, f.values[k])
      BY <3>1 DEF ValueSize
    <3>3. ns = [k \in 1 .. c |-> NumberSize(f.type, f.values[k])]
      BY <3>2 DEF ns
    <3>4. get_packed_payload_length(f) = SumOf(ns)
      BY <1>1, <3>3 DEF get_packed_payload_length
    <3> QED
      BY <2>1, <3>4, PayloadBytes
  <2>3. CASE c = 0
    <3>1. f.values = <<>>
      BY <2>3, ValuesSeq, EmptyPieces
    <3>2. repeated_field_pack(f, P) = <<>> /\ n = 0
      BY <1>7, <1>8, <2>3, <3>1 DEF repeated_field_pack
    <3> QED
      BY <3>2, EmptySeq DEF Written
  <2>4. CASE c # 0
    <3>1. f.values # <<>>
      BY <2>4, EmptySeq
    <3>2. repeated_field_pack(f, P) = PackedPack(f)
      BY <1>8, <3>1 DEF repeated_field_pack
    <3>3. n = g + uint32_size(SumOf(ns)) + SumOf(ns)
      BY <1>7, <1>8, <2>4
    <3>4. uint32_size(SumOf(ns)) \in Nat
      <4>1. Writes(Nat, SumOf(ns))
        BY DEF Writes
      <4> QED
        BY <1>6, <4>1, LengthBytes
    <3> HIDE DEF n, g
    <3>5. n \in Nat /\ SumOf(ns) <= n
      BY <1>1, <1>6, <3>3, <3>4
    <3>6. ASSUME Writes(S, n)
          PROVE  PackedPack(f) \in Seq(S) /\ Len(PackedPack(f)) = n
      <4>1. Writes(S, Len(Payload(f)))
        BY <1>1, <1>6, <2>2, <3>5, <3>6 DEF Writes
      <4> QED
        BY <1>8, <2>2, <3>3, <4>1, PackedBytes DEF g
    <3> QED
      BY <3>2, <3>5, <3>6 DEF n, Written
  <2> QED
    BY <2>3, <2>4
<1>9. CASE ~f.packed
  <2>1. n = SumOf(ms)
    <3>1. CASE c = 0
      <4>1. ms = <<>>
        BY <1>4, <3>1
      <4> QED
        BY <1>7, <3>1, <4>1, SumEmpty
    <3>2. CASE c # 0
      BY <1>6, <1>7, <1>9, <3>2
    <3> QED
      BY <3>1, <3>2
  <2>2. repeated_field_pack(f, P) = Concat(ps)
    BY <1>1, <1>9 DEF repeated_field_pack
  <2>3. ASSUME Writes(S, n), FitsAll(S, f, N, P)
        PROVE  Concat(ps) \in Seq(S) /\ Len(Concat(ps)) = SumOf(ms)
    <3>1. ASSUME NEW k \in 1 .. c PROVE ps[k] \in Seq(S) /\ Len(ps[k]) = ms[k]
      <4>1. ms[k] <= SumOf(ms) /\ ms[k] \in Nat
        BY <1>1, <1>4, SumPart
      <4>2. Writes(S, ms[k])
        BY <1>1, <1>6, <2>1, <2>3, <4>1 DEF Writes
      <4>3. ms[k] = g + ValueSize(f.type, f.values[k], N)
        BY DEF ms
      <4> QED
        BY <1>3, <2>3, <4>2, <4>3 DEF Written
    <3>2. ps \in [1 .. c -> Seq(S)]
      BY <3>1
    <3> HIDE DEF ps, c
    <3> QED
      BY <1>1, <1>4, <3>1, <3>2, PiecesBytes
  <2> QED
    BY <1>6, <2>1, <2>2, <2>3 DEF Written
<1> QED
  BY <1>8, <1>9

\* A field is written as long as it is said to be, whatever its label.
LEMMA FieldBytes ==
  ASSUME NEW S, NEW N, NEW P, NEW f, IsField(f), FitsAll(Nat, f, N, P)
  PROVE  /\ FieldSize(f, N) \in Nat
         /\ Writes(S, FieldSize(f, N)) /\ FitsAll(S, f, N, P) =>
              Written(S, FieldSize(f, N), FieldPack(f, P))
<1> DEFINE n == FieldSize(f, N)
           v == f.values[1]
           r == required_field_get_packed_size(f, N)
<1>1. ASSUME f.label # "repeated"
      PROVE  /\ r \in Nat
             /\ Writes(S, r) /\ FitsAll(S, f, N, P) =>
                  Written(S, r, required_field_pack(f, v, P))
  <2>1. v \in ToSet(f.values)
    <3>1. Len(f.values) = 1
      BY <1>1 DEF IsField
    <3>2. 1 \in 1 .. Len(f.values)
      BY <3>1
    <3> QED
      BY <3>2, ValuesSeq
  <2>2. Fits(Nat, f.type, v, N, P) /\ (FitsAll(S, f, N, P) => Fits(S, f.type, v, N, P))
    BY <2>1 DEF FitsAll
  <2>3. r = get_tag_size(f.id) + ValueSize(f.type, v, N)
    BY DEF required_field_get_packed_size
  <2> HIDE DEF r, v
  <2>4. /\ get_tag_size(f.id) + ValueSize(f.type, v, N) \in Nat
        /\ Writes(S, get_tag_size(f.id) + ValueSize(f.type, v, N)) /\ Fits(S, f.type, v, N, P) =>
             Written(S, get_tag_size(f.id) + ValueSize(f.type, v, N), required_field_pack(f, v, P))
    BY <2>1, <2>2, RequiredBytes
  <2> QED
    BY <2>2, <2>3, <2>4
<1> HIDE DEF r
<1>2. CASE f.label = "required"
  <2>1. n = r /\ FieldPack(f, P) = required_field_pack(f, v, P)
    BY <1>2 DEF FieldSize, FieldPack, r
  <2> QED
    BY <1>1, <1>2, <2>1
<1>3. CASE f.label = "optional"
  <2>1. /\ n = IF IsSet(f) THEN r ELSE 0
        /\ FieldPack(f, P) = IF IsSet(f) THEN required_field_pack(f, v, P) ELSE <<>>
    BY <1>3 DEF FieldSize, FieldPack, r
  <2>2. CASE IsSet(f)
    BY <1>1, <1>3, <2>1, <2>2
  <2>3. CASE ~IsSet(f)
    <3>1. n = 0 /\ FieldPack(f, P) = <<>>
      BY <2>1, <2>3
    <3> QED
      BY <3>1, EmptySeq DEF Written
  <2> QED
    BY <2>2, <2>3
<1>4. CASE f.label = "repeated"
  <2>1. n = repeated_field_get_packed_size(f, N) /\ FieldPack(f, P) = repeated_field_pack(f, P)
    BY <1>4 DEF FieldSize, FieldPack
  <2> QED
    BY <1>4, <2>1, RepeatedBytes
<1> QED
  BY <1>2, <1>3, <1>4 DEF IsField, Labels

\* An unknown field is written as long as unknown_field_get_packed_size says.
LEMMA UnknownBytes ==
  ASSUME NEW u, IsUnknown(u)
  PROVE  /\ unknown_field_get_packed_size(u) \in Nat
         /\ unknown_field_pack(u) \in Seq(Byte)
         /\ Len(unknown_field_pack(u)) = unknown_field_get_packed_size(u)
<1> DEFINE t == Tag(u.tag, u.wire_type)
<1>1. u.tag \in 1 .. U32 - 1 /\ u.wire_type \in 0 .. 7 /\ u.data \in Seq(Byte)
  BY DEF IsUnknown, Byte
<1>2. t \in Seq(Byte) /\ Len(t) = get_tag_size(u.tag) /\ get_tag_size(u.tag) \in Nat
  BY <1>1, TagBytes
<1> HIDE DEF t
<1>3. t \o u.data \in Seq(Byte) /\ Len(t \o u.data) = Len(t) + Len(u.data)
  BY <1>1, <1>2, ConcatProperties
<1>4. Len(u.data) \in Nat
  BY <1>1, LenProperties
<1> QED
  BY <1>2, <1>3, <1>4 DEF unknown_field_get_packed_size, unknown_field_pack, t

\* N and P are right about the messages in m.
FitsMessage(S, m, N, P) == \A f \in ToSet(m.fields) : FitsAll(S, f, N, P)

\* The fields and the unknown fields of a message, by their places.
LEMMA MessageParts ==
  ASSUME NEW m, IsMessage(m)
  PROVE  /\ Len(m.fields) \in Nat /\ DOMAIN m.fields = 1 .. Len(m.fields)
         /\ \A k \in 1 .. Len(m.fields) : m.fields[k] \in ToSet(m.fields) /\ IsField(m.fields[k])
         /\ Len(m.unknown) \in Nat /\ DOMAIN m.unknown = 1 .. Len(m.unknown)
         /\ \A k \in 1 .. Len(m.unknown) : m.unknown[k] \in ToSet(m.unknown) /\ IsUnknown(m.unknown[k])
<1>1. /\ m.fields \in Seq(ToSet(m.fields)) /\ \A f \in ToSet(m.fields) : IsField(f)
      /\ m.unknown \in Seq(ToSet(m.unknown)) /\ \A u \in ToSet(m.unknown) : IsUnknown(u)
  BY DEF IsMessage, IsSeq
<1> QED
  BY <1>1, LenProperties, ElementOfSeq

\* A message is written as long as it is said to be, if the messages in it are; no field
\* is longer than the message.
LEMMA MessageBytes ==
  ASSUME NEW S, NEW N, NEW P, NEW m, IsMessage(m), FitsMessage(Nat, m, N, P)
  PROVE  /\ MessageSize(m, N) \in Nat
         /\ \A k \in 1 .. Len(m.fields) :
              FieldSize(m.fields[k], N) \in Nat /\ FieldSize(m.fields[k], N) <= MessageSize(m, N)
         /\ \A k \in 1 .. Len(m.unknown) :
              unknown_field_get_packed_size(m.unknown[k]) <= MessageSize(m, N)
         /\ Writes(S, MessageSize(m, N)) /\ FitsMessage(S, m, N, P) =>
              Written(S, MessageSize(m, N), MessagePack(m, P))
<1> DEFINE F == Len(m.fields)
           G == Len(m.unknown)
           ns == [k \in 1 .. F |-> FieldSize(m.fields[k], N)]
           us == [k \in 1 .. G |-> unknown_field_get_packed_size(m.unknown[k])]
           ps == [k \in 1 .. F |-> FieldPack(m.fields[k], P)]
           qs == [k \in 1 .. G |-> unknown_field_pack(m.unknown[k])]
           n == MessageSize(m, N)
<1>1. /\ F \in Nat /\ DOMAIN m.fields = 1 .. F /\ G \in Nat /\ DOMAIN m.unknown = 1 .. G
      /\ \A k \in 1 .. F : m.fields[k] \in ToSet(m.fields) /\ IsField(m.fields[k])
      /\ \A k \in 1 .. G : IsUnknown(m.unknown[k])
  BY MessageParts
<1>2. U32 \in Nat
  BY PowerFacts
<1>3. ASSUME NEW k \in 1 .. F
      PROVE  /\ FieldSize(m.fields[k], N) \in Nat
             /\ Writes(S, FieldSize(m.fields[k], N)) /\ FitsMessage(S, m, N, P) =>
                  Written(S, FieldSize(m.fields[k], N), FieldPack(m.fields[k], P))
  <2>1. IsField(m.fields[k]) /\ FitsAll(Nat, m.fields[k], N, P)
        /\ (FitsMessage(S, m, N, P) => FitsAll(S, m.fields[k], N, P))
    BY <1>1 DEF FitsMessage
  <2> QED
    BY <2>1, FieldBytes
<1>4. ASSUME NEW k \in 1 .. G
      PROVE  /\ unknown_field_get_packed_size(m.unknown[k]) \in Nat
             /\ unknown_field_pack(m.unknown[k]) \in Seq(Byte)
             /\ Len(unknown_field_pack(m.unknown[k])) = unknown_field_get_packed_size(m.unknown[k])
  BY <1>1, UnknownBytes
<1>5. ns \in [1 .. F -> Nat] /\ us \in [1 .. G -> Nat]
  BY <1>3, <1>4
<1>6. n = SumOf(ns) + SumOf(us)
  BY <1>1 DEF MessageSize
<1>7. MessagePack(m, P) = Concat(ps) \o Concat(qs)
  BY <1>1 DEF MessagePack
<1>8. SumOf(ns) \in Nat /\ SumOf(us) \in Nat
  <2> HIDE DEF ns, us, F, G
  <2>1. ns \in Seq(Nat) /\ us \in Seq(Nat)
    BY <1>1, <1>5, FunctionIsSeq
  <2> QED
    BY <2>1, SumNat
<1> HIDE DEF n
<1>9. \A k \in 1 .. F : ns[k] <= n
  <2> TAKE k \in 1 .. F
  <2> HIDE DEF ns, us, F, G
  <2>1. ns[k] <= SumOf(ns) /\ ns[k] \in Nat
    BY <1>1, <1>5, SumPart
  <2> QED
    BY <1>6, <1>8, <2>1
<1>10. \A k \in 1 .. G : us[k] <= n
  <2> TAKE k \in 1 .. G
  <2> HIDE DEF ns, us, F, G
  <2>1. us[k] <= SumOf(us) /\ us[k] \in Nat
    BY <1>1, <1>5, SumPart
  <2> QED
    BY <1>6, <1>8, <2>1
<1>11. n \in Nat
  BY <1>6, <1>8
<1>12. ASSUME Writes(S, n), FitsMessage(S, m, N, P)
       PROVE  MessagePack(m, P) \in Seq(S) /\ Len(MessagePack(m, P)) = n
  <2>1. ASSUME NEW k \in 1 .. F PROVE ps[k] \in Seq(S) /\ Len(ps[k]) = ns[k]
    <3>1. ns[k] = FieldSize(m.fields[k], N) /\ ns[k] \in Nat /\ ns[k] <= n
      BY <1>5, <1>9
    <3>2. Writes(S, ns[k])
      BY <1>2, <1>11, <1>12, <3>1 DEF Writes
    <3> QED
      BY <1>3, <1>12, <3>1, <3>2 DEF Written
  <2>2. ASSUME NEW k \in 1 .. G PROVE qs[k] \in Seq(S) /\ Len(qs[k]) = us[k]
    <3>1. unknown_field_pack(m.unknown[k]) \in Seq(S)
      BY <1>4, <1>12, ByteFacts, SeqMonotonic
    <3> QED
      BY <1>4, <3>1
  <2>3. ps \in [1 .. F -> Seq(S)] /\ qs \in [1 .. G -> Seq(S)]
    BY <2>1, <2>2
  <2>4. /\ Concat(ps) \in Seq(S) /\ Len(Concat(ps)) = SumOf(ns)
        /\ Concat(qs) \in Seq(S) /\ Len(Concat(qs)) = SumOf(us)
    <3> HIDE DEF ps, qs, ns, us, F, G
    <3>1. Concat(ps) \in Seq(S) /\ Len(Concat(ps)) = SumOf(ns)
      BY <1>1, <1>5, <2>1, <2>3, PiecesBytes
    <3>2. Concat(qs) \in Seq(S) /\ Len(Concat(qs)) = SumOf(us)
      BY <1>1, <1>5, <2>2, <2>3, PiecesBytes
    <3> QED
      BY <3>1, <3>2
  <2> DEFINE cp == Concat(ps)
             cq == Concat(qs)
  <2> HIDE DEF cp, cq
  <2>5. cp \o cq \in Seq(S) /\ Len(cp \o cq) = Len(cp) + Len(cq)
    BY <2>4, ConcatProperties DEF cp, cq
  <2> QED
    BY <1>6, <1>7, <2>4, <2>5 DEF cp, cq
<1> QED
  <2> USE DEF n
  <2>1. \A k \in 1 .. F : FieldSize(m.fields[k], N) \in Nat /\ FieldSize(m.fields[k], N) <= MessageSize(m, N)
    BY <1>3, <1>9
  <2>2. \A k \in 1 .. G : unknown_field_get_packed_size(m.unknown[k]) <= MessageSize(m, N)
    BY <1>10
  <2> QED
    BY <1>11, <1>12, <2>1, <2>2 DEF Written
-----------------------------------------------------------------------------
(* The messages there are.                                                 *)

\* The messages in a known message are known, one message further down.
LEMMA KnownFacts ==
  /\ Messages \subseteq Known
  /\ \A m \in Known : IsMessage(m) /\ message_get_packed_size[m] < U32 /\ Submessages(m) \subseteq Known
  /\ \A d \in 0 .. MaxDepth : AtDepth[d] \subseteq Known
  /\ \A d \in 0 .. MaxDepth : \A m \in AtDepth[d] :
       d + 1 \in 0 .. MaxDepth /\ Submessages(m) \subseteq AtDepth[d + 1]
<1>1. /\ MaxDepth \in Nat /\ AtDepth[MaxDepth] = {}
      /\ \A m \in Known : IsMessage(m) /\ message_get_packed_size[m] < U32
  BY PackAssumption
<1>2. \A d \in 0 .. MaxDepth : AtDepth[d] \subseteq Known
  BY DEF Known
<1>3. AtDepth[0] = Messages
  BY AtDepthSteps
<1>4. ASSUME NEW d \in 0 .. MaxDepth, NEW m \in AtDepth[d]
      PROVE  d + 1 \in 0 .. MaxDepth /\ Submessages(m) \subseteq AtDepth[d + 1]
  <2>1. d # MaxDepth
    BY <1>1, <1>4
  <2>2. d + 1 \in 1 .. MaxDepth /\ (d + 1) - 1 = d /\ d + 1 \in 0 .. MaxDepth
    BY <1>1, <2>1
  <2>3. AtDepth[d + 1] = UNION {Submessages(x) : x \in AtDepth[(d + 1) - 1]}
    BY <2>2, AtDepthSteps
  <2> QED
    BY <2>2, <2>3
<1>5. \A m \in Known : Submessages(m) \subseteq Known
  <2> TAKE m \in Known
  <2>1. PICK d \in 0 .. MaxDepth : m \in AtDepth[d]
    BY DEF Known
  <2> QED
    BY <1>2, <1>4, <2>1
<1> QED
  BY <1>1, <1>2, <1>3, <1>4, <1>5

\* Where a nested message is found.
LEMMA NestedValues ==
  ASSUME NEW m, NEW f \in ToSet(m.fields), f.type = "message"
  PROVE  ToSet(f.values) \subseteq Submessages(m)
BY DEF Submessages

\* What is written of a message is as long as it is said to be, however deep
\* the functions may go.
LEMMA DepthLengths ==
  \A d \in 0 .. MaxDepth :
    /\ DOMAIN Sizes[d] = Known /\ DOMAIN Packs[d] = Known
    /\ \A m \in Known : Packs[d][m] \in Seq(Nat) /\ Sizes[d][m] = Len(Packs[d][m])
<1> DEFINE Right(d) == /\ DOMAIN Sizes[d] = Known /\ DOMAIN Packs[d] = Known
                       /\ \A m \in Known : Packs[d][m] \in Seq(Nat) /\ Sizes[d][m] = Len(Packs[d][m])
           Bad == {d \in 0 .. MaxDepth : ~Right(d)}
<1>1. MaxDepth \in Nat
  BY PackAssumption
<1>2. Right(0)
  <2>1. Sizes[0] = [m \in Known |-> 0] /\ Packs[0] = [m \in Known |-> <<>>]
    BY SizesSteps, PacksSteps
  <2> QED
    BY <2>1, EmptySeq
<1>3. ASSUME NEW d \in 1 .. MaxDepth, Right(d - 1) PROVE Right(d)
  <2>1. /\ Sizes[d] = [m \in Known |-> MessageSize(m, Sizes[d - 1])]
        /\ Packs[d] = [m \in Known |-> MessagePack(m, Packs[d - 1])]
    BY SizesSteps, PacksSteps
  <2> DEFINE N == Sizes[d - 1]
             P == Packs[d - 1]
  <2>2. ASSUME NEW m \in Known
        PROVE  MessagePack(m, P) \in Seq(Nat) /\ Len(MessagePack(m, P)) = MessageSize(m, N)
    <3>1. IsMessage(m) /\ Submessages(m) \subseteq Known
      BY KnownFacts
    <3>2. FitsMessage(Nat, m, N, P)
      <4> SUFFICES ASSUME NEW f \in ToSet(m.fields), NEW v \in ToSet(f.values), f.type = "message"
                   PROVE  P[v] \in Seq(Nat) /\ N[v] = Len(P[v])
        BY DEF FitsMessage, FitsAll, Fits
      <4> QED
        BY <1>3, <3>1, NestedValues
    <3>3. Writes(Nat, MessageSize(m, N))
      BY DEF Writes
    <3> HIDE DEF N, P
    <3> QED
      BY <3>1, <3>2, <3>3, MessageBytes DEF Written
  <2> QED
    BY <2>1, <2>2
<1>4. Bad \in SUBSET Nat
  BY <1>1
<1>5. ASSUME NEW d \in Bad, \A y \in Bad : d <= y PROVE FALSE
  <2>1. d \in 0 .. MaxDepth /\ ~Right(d)
    OBVIOUS
  <2>2. d # 0
    BY <1>2, <2>1
  <2>3. d \in 1 .. MaxDepth /\ d - 1 \in 0 .. MaxDepth /\ ~(d <= d - 1)
    BY <1>1, <2>1, <2>2
  <2>4. Right(d - 1)
    <3> HIDE DEF Right
    <3> QED
      BY <1>5, <2>3
  <2> HIDE DEF Right
  <2> QED
    BY <1>3, <2>1, <2>3, <2>4
<1>6. Bad = {}
  <2> HIDE DEF Bad
  <2> QED
    BY <1>4, <1>5, SmallestExists
<1> HIDE DEF Right
<1>7. \A d \in 0 .. MaxDepth : Right(d)
  BY <1>6
<1> QED
  BY <1>7 DEF Right
-----------------------------------------------------------------------------
(* Deep enough is deep enough.                                             *)

\* A size depends on the sizes of the messages in the message alone.
LEMMA SameSizes ==
  ASSUME NEW m, IsMessage(m), NEW N, NEW M, \A s \in Submessages(m) : N[s] = M[s]
  PROVE  MessageSize(m, N) = MessageSize(m, M)
<1>1. /\ DOMAIN m.fields = 1 .. Len(m.fields)
      /\ \A k \in 1 .. Len(m.fields) : m.fields[k] \in ToSet(m.fields) /\ IsField(m.fields[k])
  BY MessageParts
<1>2. ASSUME NEW f \in ToSet(m.fields), IsField(f) PROVE FieldSize(f, N) = FieldSize(f, M)
  <2>1. ASSUME NEW v \in ToSet(f.values) PROVE ValueSize(f.type, v, N) = ValueSize(f.type, v, M)
    <3>1. CASE f.type = "message"
      <4>1. N[v] = M[v]
        BY <1>2, <3>1, NestedValues
      <4>2. f.type \notin Blobs
        BY <3>1 DEF Blobs
      <4> QED
        BY <3>1, <4>1, <4>2 DEF ValueSize
    <3>2. CASE f.type # "message"
      BY <3>2 DEF ValueSize
    <3> QED
      BY <3>1, <3>2
  <2>2. DOMAIN f.values = 1 .. Len(f.values)
        /\ \A k \in 1 .. Len(f.values) : f.values[k] \in ToSet(f.values)
    BY <1>2, ValuesSeq
  <2>3. CASE f.label = "repeated"
    <3>1. [k \in DOMAIN f.values |-> ValueSize(f.type, f.values[k], N)]
          = [k \in DOMAIN f.values |-> ValueSize(f.type, f.values[k], M)]
      BY <2>1, <2>2
    <3>2. repeated_field_get_packed_size(f, N) = repeated_field_get_packed_size(f, M)
      BY <3>1 DEF repeated_field_get_packed_size
    <3> QED
      BY <2>3, <3>2 DEF FieldSize
  <2>4. CASE f.label # "repeated"
    <3>1. Len(f.values) = 1 /\ f.label \in {"required", "optional"}
      BY <1>2, <2>4 DEF IsField, Labels
    <3>2. 1 \in 1 .. Len(f.values)
      BY <3>1
    <3>3. required_field_get_packed_size(f, N) = required_field_get_packed_size(f, M)
      BY <2>1, <2>2, <3>2 DEF required_field_get_packed_size
    <3> QED
      BY <3>1, <3>3 DEF FieldSize
  <2> QED
    BY <2>3, <2>4
<1>3. [k \in DOMAIN m.fields |-> FieldSize(m.fields[k], N)]
      = [k \in DOMAIN m.fields |-> FieldSize(m.fields[k], M)]
  BY <1>1, <1>2
<1> QED
  BY <1>3 DEF MessageSize

\* So do its bytes.
LEMMA SamePacks ==
  ASSUME NEW m, IsMessage(m), NEW P, NEW Q, \A s \in Submessages(m) : P[s] = Q[s]
  PROVE  MessagePack(m, P) = MessagePack(m, Q)
<1>1. /\ DOMAIN m.fields = 1 .. Len(m.fields)
      /\ \A k \in 1 .. Len(m.fields) : m.fields[k] \in ToSet(m.fields) /\ IsField(m.fields[k])
  BY MessageParts
<1>2. ASSUME NEW f \in ToSet(m.fields), IsField(f) PROVE FieldPack(f, P) = FieldPack(f, Q)
  <2>1. ASSUME NEW v \in ToSet(f.values) PROVE required_field_pack(f, v, P) = required_field_pack(f, v, Q)
    <3>1. CASE f.type = "message"
      <4>1. P[v] = Q[v]
        BY <1>2, <3>1, NestedValues
      <4>2. f.type \notin Blobs
        BY <3>1 DEF Blobs
      <4>3. ValuePack(f.type, v, P) = ValuePack(f.type, v, Q)
        BY <3>1, <4>1, <4>2 DEF ValuePack
      <4> QED
        BY <4>3 DEF required_field_pack
    <3>2. CASE f.type # "message"
      <4>1. ValuePack(f.type, v, P) = ValuePack(f.type, v, Q)
        BY <3>2 DEF ValuePack
      <4> QED
        BY <4>1 DEF required_field_pack
    <3> QED
      BY <3>1, <3>2
  <2>2. DOMAIN f.values = 1 .. Len(f.values)
        /\ \A k \in 1 .. Len(f.values) : f.values[k] \in ToSet(f.values)
    BY <1>2, ValuesSeq
  <2>3. CASE f.label = "repeated"
    <3>1. [k \in DOMAIN f.values |-> required_field_pack(f, f.values[k], P)]
          = [k \in DOMAIN f.values |-> required_field_pack(f, f.values[k], Q)]
      BY <2>1, <2>2
    <3>2. repeated_field_pack(f, P) = repeated_field_pack(f, Q)
      BY <3>1 DEF repeated_field_pack
    <3> QED
      BY <2>3, <3>2 DEF FieldPack
  <2>4. CASE f.label # "repeated"
    <3>1. Len(f.values) = 1 /\ f.label \in {"required", "optional"}
      BY <1>2, <2>4 DEF IsField, Labels
    <3>2. 1 \in 1 .. Len(f.values)
      BY <3>1
    <3>3. required_field_pack(f, f.values[1], P) = required_field_pack(f, f.values[1], Q)
      BY <2>1, <2>2, <3>2
    <3> QED
      BY <3>1, <3>3 DEF FieldPack
  <2> QED
    BY <2>3, <2>4
<1>3. [k \in DOMAIN m.fields |-> FieldPack(m.fields[k], P)]
      = [k \in DOMAIN m.fields |-> FieldPack(m.fields[k], Q)]
  BY <1>1, <1>2
<1> QED
  BY <1>3 DEF MessagePack

\* A message so many messages down has its size, and its bytes, once the functions
\* may go as deep as messages are below it.
LEMMA SizesSettle ==
  \A d \in 0 .. MaxDepth : \A e \in d .. MaxDepth : \A m \in AtDepth[MaxDepth - d] :
    /\ Sizes[e][m] = message_get_packed_size[m]
    /\ Packs[e][m] = message_pack[m] /\ Packs[e][m] \in Seq(Byte)
<1> DEFINE D == MaxDepth
           Right(d) == \A e \in d .. D : \A m \in AtDepth[D - d] :
                         Sizes[e][m] = Sizes[D][m] /\ Packs[e][m] = Packs[D][m] /\ Packs[e][m] \in Seq(Byte)
           Bad == {d \in 0 .. D : ~Right(d)}
<1>1. D \in Nat /\ AtDepth[D - 0] = {}
  <2>1. D \in Nat
    BY PackAssumption
  <2>2. D - 0 = D
    BY <2>1
  <2> QED
    BY <2>1, <2>2, PackAssumption
<1>2. Right(0)
  BY <1>1
<1>3. ASSUME NEW d \in 1 .. D, Right(d - 1) PROVE Right(d)
  <2> SUFFICES ASSUME NEW e \in d .. D, NEW m \in AtDepth[D - d]
               PROVE  Sizes[e][m] = Sizes[D][m] /\ Packs[e][m] = Packs[D][m] /\ Packs[e][m] \in Seq(Byte)
    OBVIOUS
  <2>1. /\ e \in 1 .. D /\ D \in 1 .. D /\ D - d \in 0 .. D /\ (D - d) + 1 = D - (d - 1)
        /\ e - 1 \in d - 1 .. D /\ D - 1 \in d - 1 .. D /\ e - 1 \in 0 .. D /\ D - 1 \in 0 .. D
    BY <1>1
  <2>2. /\ m \in Known /\ IsMessage(m) /\ Submessages(m) \subseteq AtDepth[D - (d - 1)]
        /\ Submessages(m) \subseteq Known /\ Sizes[D][m] < U32
    <3>1. m \in Known
      BY <2>1, KnownFacts
    <3>2. Submessages(m) \subseteq AtDepth[(D - d) + 1]
      BY <2>1, KnownFacts
    <3> QED
      BY <2>1, <3>1, <3>2, KnownFacts DEF message_get_packed_size
  <2>3. ASSUME NEW x \in 1 .. D
        PROVE  Sizes[x][m] = MessageSize(m, Sizes[x - 1]) /\ Packs[x][m] = MessagePack(m, Packs[x - 1])
    <3>1. /\ Sizes[x] = [y \in Known |-> MessageSize(y, Sizes[x - 1])]
          /\ Packs[x] = [y \in Known |-> MessagePack(y, Packs[x - 1])]
      BY SizesSteps, PacksSteps
    <3> QED
      BY <2>2, <3>1
  <2> DEFINE N == Sizes[e - 1]
             P == Packs[e - 1]
             M == Sizes[D - 1]
             Q == Packs[D - 1]
  <2>4. \A s \in Submessages(m) : N[s] = M[s] /\ P[s] = Q[s] /\ P[s] \in Seq(Byte)
    BY <1>3, <2>1, <2>2
  <2>5. MessageSize(m, N) = MessageSize(m, M)
    <3> HIDE DEF N, M
    <3> QED
      BY <2>2, <2>4, SameSizes
  <2>6. Sizes[e][m] = Sizes[D][m]
    BY <2>1, <2>3, <2>5
  <2>11. Packs[e][m] = Packs[D][m]
    <3>1. MessagePack(m, P) = MessagePack(m, Q)
      <4> HIDE DEF P, Q
      <4> QED
        BY <2>2, <2>4, SamePacks
    <3> QED
      BY <2>1, <2>3, <3>1
  <2>7. \A s \in Submessages(m) : P[s] \in Seq(Nat) /\ N[s] = Len(P[s])
    BY <2>1, <2>2, DepthLengths
  <2>8. FitsMessage(Nat, m, N, P) /\ FitsMessage(Byte, m, N, P)
    <3> HIDE DEF N, P
    <3>1. ASSUME NEW f \in ToSet(m.fields), NEW v \in ToSet(f.values), f.type = "message"
          PROVE  P[v] \in Seq(Byte) /\ P[v] \in Seq(Nat) /\ N[v] = Len(P[v])
      <4>1. v \in Submessages(m)
        BY <3>1, NestedValues
      <4> QED
        BY <2>4, <2>7, <4>1
    <3> QED
      BY <3>1 DEF FitsMessage, FitsAll, Fits
  <2>9. Writes(Byte, MessageSize(m, N))
    BY <2>1, <2>2, <2>3, <2>6 DEF Writes
  <2>10. Written(Byte, MessageSize(m, N), MessagePack(m, P))
    <3> HIDE DEF N, P
    <3> QED
      BY <2>2, <2>8, <2>9, MessageBytes
  <2> QED
    BY <2>1, <2>3, <2>6, <2>10, <2>11 DEF Written
<1>4. Bad \in SUBSET Nat
  BY <1>1
<1>5. ASSUME NEW d \in Bad, \A y \in Bad : d <= y PROVE FALSE
  <2>1. d \in 0 .. D /\ ~Right(d)
    OBVIOUS
  <2>2. d # 0
    BY <1>2, <2>1
  <2>3. d \in 1 .. D /\ d - 1 \in 0 .. D /\ ~(d <= d - 1)
    BY <1>1, <2>1, <2>2
  <2>4. Right(d - 1)
    <3> HIDE DEF Right
    <3> QED
      BY <1>5, <2>3
  <2> HIDE DEF Right
  <2> QED
    BY <1>3, <2>1, <2>3, <2>4
<1>6. Bad = {}
  <2> HIDE DEF Bad
  <2> QED
    BY <1>4, <1>5, SmallestExists
<1> HIDE DEF Right
<1>7. \A d \in 0 .. D : Right(d)
  BY <1>6
<1> QED
  BY <1>7 DEF Right, message_get_packed_size, message_pack

\* Sizes and bytes of a message follow from those of the messages in it.
LEMMA SizeFixpoint ==
  ASSUME NEW m \in Known
  PROVE  /\ message_get_packed_size[m] = MessageSize(m, message_get_packed_size)
         /\ message_pack[m] = MessagePack(m, message_pack)
         /\ message_get_packed_size[m] \in Nat
         /\ Written(Byte, message_get_packed_size[m], message_pack[m])
         /\ FitsMessage(Nat, m, message_get_packed_size, message_pack)
         /\ FitsMessage(Byte, m, message_get_packed_size, message_pack)
<1> DEFINE D == MaxDepth
<1>1. D \in Nat /\ D \in 0 .. D
  BY PackAssumption
<1>2. ASSUME NEW s \in Known
      PROVE  \E d \in 1 .. D : s \in AtDepth[D - d] /\ D - d \in 0 .. D /\ D \in d .. D
  <2>1. PICK c \in 0 .. D : s \in AtDepth[c]
    BY DEF Known
  <2>2. c + 1 \in 0 .. D
    BY <2>1, KnownFacts
  <2>3. D - c \in 1 .. D /\ D - (D - c) = c /\ D \in D - c .. D
    BY <1>1, <2>2
  <2> QED
    BY <2>1, <2>3
<1>3. ASSUME NEW s \in Known
      PROVE  /\ message_pack[s] \in Seq(Byte) /\ message_pack[s] \in Seq(Nat)
             /\ message_get_packed_size[s] = Len(message_pack[s])
  <2>1. Packs[D][s] \in Seq(Nat) /\ Sizes[D][s] = Len(Packs[D][s])
    BY <1>1, DepthLengths
  <2>2. PICK d \in 1 .. D : s \in AtDepth[D - d] /\ D - d \in 0 .. D /\ D \in d .. D
    BY <1>2
  <2>3. Packs[D][s] \in Seq(Byte)
    BY <1>1, <2>2, SizesSettle
  <2> QED
    BY <2>1, <2>3 DEF message_pack, message_get_packed_size
<1>4. IsMessage(m) /\ Submessages(m) \subseteq Known
  BY KnownFacts
<1>5. ASSUME NEW S \in {Nat, Byte}
      PROVE  FitsMessage(S, m, message_get_packed_size, message_pack)
  BY <1>3, <1>4, NestedValues DEF FitsMessage, FitsAll, Fits
<1>6. /\ message_get_packed_size[m] = MessageSize(m, message_get_packed_size)
      /\ message_pack[m] = MessagePack(m, message_pack)
  <2>1. PICK d \in 1 .. D : m \in AtDepth[D - d] /\ D - d \in 0 .. D /\ D \in d .. D
    BY <1>2
  <2>2. D \in 1 .. D /\ (D - d) + 1 = D - (d - 1) /\ d - 1 \in 0 .. D /\ D - 1 \in d - 1 .. D
    BY <1>1
  <2>3. Submessages(m) \subseteq AtDepth[D - (d - 1)]
    <3>1. Submessages(m) \subseteq AtDepth[(D - d) + 1]
      BY <2>1, KnownFacts
    <3> QED
      BY <2>2, <3>1
  <2>4. \A s \in Submessages(m) :
          Sizes[D - 1][s] = message_get_packed_size[s] /\ Packs[D - 1][s] = message_pack[s]
    BY <2>2, <2>3, SizesSettle
  <2>5. MessageSize(m, Sizes[D - 1]) = MessageSize(m, message_get_packed_size)
    BY <1>4, <2>4, SameSizes
  <2>6. MessagePack(m, Packs[D - 1]) = MessagePack(m, message_pack)
    BY <1>4, <2>4, SamePacks
  <2>7. /\ Sizes[D] = [y \in Known |-> MessageSize(y, Sizes[D - 1])]
        /\ Packs[D] = [y \in Known |-> MessagePack(y, Packs[D - 1])]
    BY <2>2, SizesSteps, PacksSteps
  <2>8. Sizes[D][m] = MessageSize(m, Sizes[D - 1]) /\ Packs[D][m] = MessagePack(m, Packs[D - 1])
    BY <2>7
  <2> QED
    BY <2>5, <2>6, <2>8 DEF message_get_packed_size, message_pack
<1>7. message_get_packed_size[m] \in Nat
  BY <1>3, LenProperties
<1> QED
  BY <1>3, <1>5, <1>6, <1>7 DEF Written
-----------------------------------------------------------------------------
(* The loops over the fields and the unknown fields of a message.          *)

\* The turns of the loops for a message, and what each of them comes to.
TotalOf(m) == Len(m.fields) + Len(m.unknown)

ItemSize(m, k) ==
  IF k <= Len(m.fields) THEN FieldSize(m.fields[k], message_get_packed_size)
  ELSE unknown_field_get_packed_size(m.unknown[k - Len(m.fields)])
ItemPack(m, k) ==
  IF k <= Len(m.fields) THEN FieldPack(m.fields[k], message_pack)
  ELSE unknown_field_pack(m.unknown[k - Len(m.fields)])

\* What the first j turns come to.
SizeUpTo(m, j) == SumOf([k \in 1 .. j |-> ItemSize(m, k)])
PackUpTo(m, j) == Concat([k \in 1 .. j |-> ItemPack(m, k)])

\* One more element.
LEMMA OneMore ==
  ASSUME NEW S, NEW j \in Nat, NEW s \in [1 .. j -> S], NEW t \in [1 .. j + 1 -> S],
         \A k \in 1 .. j : t[k] = s[k]
  PROVE  t = Append(s, t[j + 1])
<1>1. t \in Seq(S) /\ Len(t) = j + 1 /\ s \in Seq(S) /\ Len(s) = j
  BY FunctionIsSeq
<1>2. t[j + 1] \in S
  OBVIOUS
<1> DEFINE u == Append(s, t[j + 1])
<1>3. u \in Seq(S) /\ Len(u) = j + 1
  BY <1>1, <1>2
<1>4. \A k \in 1 .. j + 1 : u[k] = t[k]
  <2> TAKE k \in 1 .. j + 1
  <2>1. CASE k = j + 1
    BY <1>1, <1>2, <2>1
  <2>2. CASE k \in 1 .. j
    BY <1>1, <1>2, <2>2
  <2> QED
    BY <2>1, <2>2
<1> HIDE DEF u
<1>5. u = t
  BY <1>1, <1>3, <1>4, SeqEqual
<1> QED
  BY <1>5 DEF u

\* The turns are counted.
LEMMA TotalNat ==
  ASSUME NEW m \in Known
  PROVE  TotalOf(m) \in Nat
<1>1. Len(m.fields) \in Nat /\ Len(m.unknown) \in Nat
  <2>1. IsMessage(m)
    BY KnownFacts
  <2> QED
    BY <2>1, MessageParts
<1> DEFINE a == Len(m.fields)
           b == Len(m.unknown)
<1>2. TotalOf(m) = a + b
  BY DEF TotalOf
<1> HIDE DEF a, b
<1>3. a \in Nat /\ b \in Nat
  BY <1>1 DEF a, b
<1> QED
  BY <1>2, <1>3

\* Each turn writes as many bytes as it adds to the size.
LEMMA ItemBytes ==
  ASSUME NEW m \in Known, NEW k \in 1 .. TotalOf(m)
  PROVE  /\ ItemSize(m, k) \in Nat /\ ItemSize(m, k) <= message_get_packed_size[m]
         /\ Written(Byte, ItemSize(m, k), ItemPack(m, k))
<1> DEFINE N == message_get_packed_size
           P == message_pack
           F == Len(m.fields)
<1>1. /\ IsMessage(m) /\ N[m] = MessageSize(m, N) /\ N[m] \in Nat /\ N[m] < U32 /\ U32 \in Nat
      /\ FitsMessage(Nat, m, N, P) /\ FitsMessage(Byte, m, N, P)
  BY KnownFacts, SizeFixpoint, PowerFacts
<1>2. /\ F \in Nat /\ Len(m.unknown) \in Nat
      /\ \A j \in 1 .. F : m.fields[j] \in ToSet(m.fields) /\ IsField(m.fields[j])
      /\ \A j \in 1 .. Len(m.unknown) : IsUnknown(m.unknown[j])
  BY <1>1, MessageParts
<1> HIDE DEF N, P, F
<1>3. CASE k <= F
  <2> DEFINE f == m.fields[k]
  <2>1. k \in 1 .. F
    BY <1>2, <1>3
  <2>2. f \in ToSet(m.fields) /\ IsField(f)
    BY <1>2, <2>1
  <2>3. FieldSize(f, N) \in Nat /\ FieldSize(f, N) <= N[m]
    <3>1. \A j \in 1 .. Len(m.fields) :
            FieldSize(m.fields[j], N) \in Nat /\ FieldSize(m.fields[j], N) <= MessageSize(m, N)
      BY <1>1, MessageBytes
    <3> QED
      BY <1>1, <2>1, <3>1 DEF F
  <2>4. FitsAll(Nat, f, N, P) /\ FitsAll(Byte, f, N, P)
    BY <1>1, <2>2 DEF FitsMessage
  <2> HIDE DEF f
  <2>5. Writes(Byte, FieldSize(f, N))
    BY <1>1, <2>3 DEF Writes
  <2>6. Written(Byte, FieldSize(f, N), FieldPack(f, P))
    BY <2>2, <2>4, <2>5, FieldBytes
  <2>7. ItemSize(m, k) = FieldSize(f, N) /\ ItemPack(m, k) = FieldPack(f, P)
    BY <1>3 DEF ItemSize, ItemPack, f, N, P, F
  <2> QED
    BY <2>3, <2>6, <2>7 DEF N
<1>4. CASE ~(k <= F)
  <2> DEFINE u == m.unknown[k - F]
  <2>1. k - F \in 1 .. Len(m.unknown)
    <3>1. TotalOf(m) = F + Len(m.unknown)
      BY DEF TotalOf, F
    <3> QED
      BY <1>2, <1>4, <3>1
  <2>2. IsUnknown(u)
    BY <1>2, <2>1
  <2>3. unknown_field_get_packed_size(u) <= N[m]
    <3>1. \A j \in 1 .. Len(m.unknown) :
            unknown_field_get_packed_size(m.unknown[j]) <= MessageSize(m, N)
      BY <1>1, MessageBytes
    <3> QED
      BY <1>1, <2>1, <3>1
  <2> HIDE DEF u
  <2>4. /\ unknown_field_get_packed_size(u) \in Nat
        /\ Written(Byte, unknown_field_get_packed_size(u), unknown_field_pack(u))
    BY <2>2, UnknownBytes DEF Written
  <2>5. ItemSize(m, k) = unknown_field_get_packed_size(u) /\ ItemPack(m, k) = unknown_field_pack(u)
    BY <1>4 DEF ItemSize, ItemPack, u, F
  <2> QED
    BY <2>3, <2>4, <2>5 DEF N
<1> QED
  BY <1>3, <1>4

\* So do the first j turns.
LEMMA TurnsBytes ==
  ASSUME NEW m \in Known, NEW j \in 0 .. TotalOf(m)
  PROVE  /\ SizeUpTo(m, j) \in Nat /\ Written(Byte, SizeUpTo(m, j), PackUpTo(m, j))
         /\ SizeUpTo(m, 0) = 0 /\ PackUpTo(m, 0) = <<>> /\ TotalOf(m) \in Nat
<1>0. TotalOf(m) \in Nat
  BY TotalNat
<1>1. TotalOf(m) \in Nat /\ j \in Nat
  BY <1>0
<1> DEFINE ns == [k \in 1 .. j |-> ItemSize(m, k)]
           ps == [k \in 1 .. j |-> ItemPack(m, k)]
<1>2. ASSUME NEW k \in 1 .. j
      PROVE  ItemSize(m, k) \in Nat /\ ItemPack(m, k) \in Seq(Byte) /\ Len(ItemPack(m, k)) = ItemSize(m, k)
  BY <1>1, ItemBytes DEF Written
<1>3. ns \in [1 .. j -> Nat] /\ ps \in [1 .. j -> Seq(Byte)] /\ \A k \in 1 .. j : Len(ps[k]) = ns[k]
  BY <1>2
<1>4. SizeUpTo(m, j) = SumOf(ns) /\ PackUpTo(m, j) = Concat(ps)
  BY DEF SizeUpTo, PackUpTo
<1> HIDE DEF ns, ps
<1>5. Concat(ps) \in Seq(Byte) /\ Len(Concat(ps)) = SumOf(ns) /\ SumOf(ns) \in Nat
  BY <1>1, <1>3, PiecesBytes
<1>6. SizeUpTo(m, 0) = 0 /\ PackUpTo(m, 0) = <<>>
  <2>1. [k \in 1 .. 0 |-> ItemSize(m, k)] = <<>> /\ [k \in 1 .. 0 |-> ItemPack(m, k)] = <<>>
    OBVIOUS
  <2> QED
    BY <2>1, SumEmpty, FlattenEmpty DEF SizeUpTo, PackUpTo, Concat
<1> QED
  BY <1>1, <1>4, <1>5, <1>6 DEF Written

\* One turn more adds what that turn comes to.
LEMMA NextTurn ==
  ASSUME NEW m \in Known, NEW j \in 0 .. TotalOf(m), j + 1 <= TotalOf(m)
  PROVE  /\ SizeUpTo(m, j + 1) = SizeUpTo(m, j) + ItemSize(m, j + 1)
         /\ PackUpTo(m, j + 1) = PackUpTo(m, j) \o ItemPack(m, j + 1)
<1>1. TotalOf(m) \in Nat /\ j \in Nat /\ j + 1 \in 1 .. TotalOf(m)
  BY TurnsBytes
<1> DEFINE ns == [k \in 1 .. j |-> ItemSize(m, k)]
           ps == [k \in 1 .. j |-> ItemPack(m, k)]
           ns1 == [k \in 1 .. j + 1 |-> ItemSize(m, k)]
           ps1 == [k \in 1 .. j + 1 |-> ItemPack(m, k)]
<1>2. ASSUME NEW k \in 1 .. j + 1
      PROVE  ItemSize(m, k) \in Nat /\ ItemPack(m, k) \in Seq(Byte)
  BY <1>1, ItemBytes DEF Written
<1>3. /\ ns \in [1 .. j -> Nat] /\ ps \in [1 .. j -> Seq(Byte)]
      /\ ns1 \in [1 .. j + 1 -> Nat] /\ ps1 \in [1 .. j + 1 -> Seq(Byte)]
      /\ \A k \in 1 .. j : ns1[k] = ns[k] /\ ps1[k] = ps[k]
      /\ ns1[j + 1] = ItemSize(m, j + 1) /\ ps1[j + 1] = ItemPack(m, j + 1)
  BY <1>1, <1>2
<1> HIDE DEF ns, ps, ns1, ps1
<1>4. ns1 = Append(ns, ItemSize(m, j + 1)) /\ ps1 = Append(ps, ItemPack(m, j + 1))
  <2>1. ns1 = Append(ns, ns1[j + 1])
    BY <1>1, <1>3, OneMore
  <2>2. ps1 = Append(ps, ps1[j + 1])
    BY <1>1, <1>3, OneMore
  <2> QED
    BY <1>3, <2>1, <2>2
<1>5. j + 1 \in 1 .. j + 1
  BY <1>1
<1>6. SumOf(ns1) = SumOf(ns) + ItemSize(m, j + 1)
  <2>1. ns \in Seq(Nat) /\ ItemSize(m, j + 1) \in Nat
    BY <1>1, <1>2, <1>3, <1>5, FunctionIsSeq
  <2> QED
    BY <1>4, <2>1, SumAppend
<1>7. Concat(ps1) = Concat(ps) \o ItemPack(m, j + 1)
  <2>1. ps \in Seq(Seq(Byte)) /\ ItemPack(m, j + 1) \in Seq(Byte)
    BY <1>1, <1>2, <1>3, <1>5, FunctionIsSeq
  <2> QED
    BY <1>4, <2>1, FlattenAppend DEF Concat
<1> QED
  BY <1>6, <1>7 DEF SizeUpTo, PackUpTo, ns, ps, ns1, ps1

\* What some turns come to is no more than what all do.
LEMMA TurnsGrow ==
  ASSUME NEW m \in Known, NEW j \in 0 .. TotalOf(m)
  PROVE  SizeUpTo(m, j) <= SizeUpTo(m, TotalOf(m))
<1> DEFINE T == TotalOf(m)
           Z(x) == SizeUpTo(m, x)
           Bad == {x \in j .. T : ~(Z(j) <= Z(x))}
<1>1. T \in Nat /\ j \in 0 .. T /\ \A x \in 0 .. T : Z(x) \in Nat
  BY TurnsBytes
<1>2. ASSUME NEW x \in j .. T, x # j, Z(j) <= Z(x - 1) PROVE Z(j) <= Z(x)
  <2>1. x - 1 \in 0 .. T /\ (x - 1) + 1 = x /\ x \in 1 .. T
    BY <1>1, <1>2
  <2>2. SizeUpTo(m, (x - 1) + 1) = SizeUpTo(m, x - 1) + ItemSize(m, (x - 1) + 1)
    BY <2>1, NextTurn
  <2>3. ItemSize(m, x) \in Nat
    BY <2>1, ItemBytes
  <2>4. Z(x) = Z(x - 1) + ItemSize(m, x)
    BY <2>1, <2>2
  <2> HIDE DEF Z
  <2> QED
    BY <1>1, <1>2, <2>1, <2>3, <2>4
<1> HIDE DEF Z, T
<1>3. ASSUME NEW x \in Bad, \A y \in Bad : x <= y PROVE FALSE
  <2>1. x # j /\ x \in j .. T
    BY <1>1
  <2>2. x - 1 \in j .. T /\ ~(x <= x - 1)
    BY <1>1, <2>1
  <2>3. Z(j) <= Z(x - 1)
    BY <1>3, <2>2
  <2> QED
    BY <1>2, <2>1, <2>3
<1>4. Bad \in SUBSET Nat
  BY <1>1
<1>5. Bad = {}
  <2> HIDE DEF Bad
  <2> QED
    BY <1>3, <1>4, SmallestExists
<1>6. T \in j .. T
  BY <1>1
<1>7. Z(j) <= Z(T)
  BY <1>5, <1>6
<1> QED
  BY <1>7 DEF Z, T
-----------------------------------------------------------------------------
(* The bytes and the size.                                                 *)

\* Where the program can be.
Pcs == {"size", "pack", "buffer", "buffered", "read", "malformed", "done"}

\* size and out are what the turns so far come to, those of each function in its
\* turn, and no assertion has failed.
LoopInv ==
  /\ msg \in Messages /\ pc \in Pcs /\ i \in Nat \ {0}
  /\ pc \in {"size", "pack", "buffer"} => i <= Total + 1
  /\ size = SizeUpTo(msg, IF pc = "size" THEN i - 1 ELSE Total)
  /\ out = PackUpTo(msg, IF pc = "size" THEN 0 ELSE IF pc = "pack" THEN i - 1 ELSE Total)
  /\ asserted = FALSE
-----------------------------------------------------------------------------
(* Reading goes forward.                                                   *)

\* A number that is read ends within the data.
LEMMA NumberLenNat ==
  ASSUME NEW data, Len(data) \in Nat, NEW max \in Nat
  PROVE  NumberLen(data, max) \in Nat /\ NumberLen(data, max) <= Len(data)
<1> DEFINE ends == {k \in 1 .. AtMost(max, Len(data)) : ~HasMore(data[k])}
<1>1. AtMost(max, Len(data)) \in Nat /\ AtMost(max, Len(data)) <= Len(data)
  BY DEF AtMost
<1>2. ends \in SUBSET Nat /\ \A k \in ends : k <= Len(data)
  BY <1>1
<1>3. NumberLen(data, max) = IF ends = {} THEN 0 ELSE CHOOSE k \in ends : \A j \in ends : k <= j
  BY DEF NumberLen
<1> HIDE DEF ends
<1> DEFINE c == CHOOSE k \in ends : \A j \in ends : k <= j
<1>4. ends # {} => c \in ends
  <2> SUFFICES ASSUME ends # {} PROVE c \in ends
    OBVIOUS
  <2>1. \E k \in ends : \A j \in ends : k <= j
    BY <1>2, SmallestExists
  <2> QED
    BY <2>1
<1> HIDE DEF c
<1>5. NumberLen(data, max) = IF ends = {} THEN 0 ELSE c
  BY <1>3 DEF c
<1> QED
  <2>1. CASE ends = {}
    BY <1>1, <1>5, <2>1
  <2>2. CASE ends # {}
    <3>1. c \in Nat /\ c <= Len(data)
      BY <1>2, <1>4, <2>2
    <3> QED
      BY <1>5, <2>2, <3>1
  <2> QED
    BY <2>1, <2>2

\* It has no more bytes than it may have.
LEMMA NumberLenMax ==
  ASSUME NEW data, Len(data) \in Nat, NEW max \in Nat
  PROVE  NumberLen(data, max) <= max
<1> DEFINE ends == {k \in 1 .. AtMost(max, Len(data)) : ~HasMore(data[k])}
<1>1. AtMost(max, Len(data)) \in Nat /\ AtMost(max, Len(data)) <= max
  BY DEF AtMost
<1>2. ends \in SUBSET Nat /\ \A k \in ends : k <= max
  BY <1>1
<1>3. NumberLen(data, max) = IF ends = {} THEN 0 ELSE CHOOSE k \in ends : \A j \in ends : k <= j
  BY DEF NumberLen
<1> HIDE DEF ends
<1> DEFINE c == CHOOSE k \in ends : \A j \in ends : k <= j
<1>4. ends # {} => c \in ends
  <2> SUFFICES ASSUME ends # {} PROVE c \in ends
    OBVIOUS
  <2>1. \E k \in ends : \A j \in ends : k <= j
    BY <1>2, SmallestExists
  <2> QED
    BY <2>1
<1> HIDE DEF c
<1>5. NumberLen(data, max) = IF ends = {} THEN 0 ELSE c
  BY <1>3 DEF c
<1> QED
  <2>1. CASE ends = {}
    BY <1>1, <1>5, <2>1
  <2>2. CASE ends # {}
    <3>1. c \in Nat /\ c <= max
      BY <1>2, <1>4, <2>2
    <3> QED
      BY <1>5, <2>2, <3>1
  <2> QED
    BY <2>1, <2>2

\* The bits of a number that is read are a natural number.
LEMMA BitsNat ==
  ASSUME NEW data \in Seq(Byte), NEW n \in 0 .. Len(data), n <= Len64
  PROVE  Bits(data, n) \in Nat
<1>1. /\ B \in Nat /\ B >= 8 /\ W \in Nat /\ Len64 \in Nat /\ MaxBits \in Nat /\ MaxBits = Len64 * W + W
      /\ Len64 * W \in Nat
  BY PowerFacts, WidthFacts
<1>2. n \in Nat /\ Len(data) \in Nat
  BY LenProperties
<1> DEFINE ns == [k \in 1 .. n |-> (data[k] % B) * Pow2[(k - 1) * W]]
<1>3. ASSUME NEW k \in 1 .. n PROVE (data[k] % B) * Pow2[(k - 1) * W] \in Nat
  <2>1. data[k] \in Byte /\ k - 1 \in Nat /\ k - 1 <= Len64
    BY <1>1, <1>2
  <2>2. data[k] % B \in Nat
    BY <1>1, <2>1 DEF Byte
  <2>3. (k - 1) * W \in Nat /\ (k - 1) * W <= Len64 * W
    BY <1>1, <2>1, TimesW
  <2>4. (k - 1) * W \in 0 .. MaxBits
    BY <1>1, <2>3
  <2>5. Pow2[(k - 1) * W] \in Nat
    BY <2>4, Pow2Type
  <2> QED
    BY <2>2, <2>5
<1>4. ns \in [1 .. n -> Nat]
  BY <1>3
<1>5. Bits(data, n) = SumOf(ns)
  BY DEF Bits
<1> HIDE DEF ns
<1>6. ns \in Seq(Nat)
  BY <1>2, <1>4, FunctionIsSeq
<1> QED
  BY <1>5, <1>6, SumNat

\* The length of a member is a natural number.
LEMMA MemberLenNat ==
  ASSUME NEW w, NEW data \in Seq(Byte)
  PROVE  MemberLen(w, data).len \in Nat
<1>1. Len(data) \in Nat /\ Len32 \in Nat /\ Len64 \in Nat /\ FixedLen \in Nat /\ U32 \in Nat /\ U32 >= 8
      /\ Len32 <= Len64
  BY LenProperties, WidthFacts, PowerFacts
<1>2. CASE w = 0
  BY <1>1, <1>2, NumberLenNat DEF MemberLen, scan_varint
<1>3. CASE w = 2
  <2> DEFINE h == NumberLen(data, Len32)
             v == Bits(data, h) % U32
             t == (h + v) % U32
  <2>1. h \in Nat /\ h <= Len(data) /\ h <= Len32
    <3>1. h \in Nat /\ h <= Len(data)
      BY <1>1, NumberLenNat
    <3>2. h <= Len32
      BY <1>1, NumberLenMax
    <3> QED
      BY <3>1, <3>2
  <2> HIDE DEF h
  <2>2. Bits(data, h) \in Nat
    BY <1>1, <2>1, BitsNat
  <2>3. v \in Nat
    BY <1>1, <2>2
  <2> HIDE DEF v
  <2>4. t \in Nat
    BY <1>1, <2>1, <2>3
  <2>5. scan_length_prefixed_data(data) =
          [prefix |-> h, len |-> IF h = 0 \/ t > Len(data) THEN 0 ELSE t]
    BY DEF scan_length_prefixed_data, h, v
  <2>6. MemberLen(w, data) = scan_length_prefixed_data(data)
    BY <1>3 DEF MemberLen
  <2> HIDE DEF t
  <2> QED
    BY <2>4, <2>5, <2>6
<1>4. CASE w \in {1, 5}
  <2>1. w # 0 /\ w # 2
    BY <1>4
  <2> QED
    BY <1>1, <1>4, <2>1 DEF MemberLen
<1>5. CASE w \notin {0, 1, 2, 5}
  BY <1>5 DEF MemberLen
<1> QED
  BY <1>2, <1>3, <1>4, <1>5

\* A member that is scanned takes some bytes, or none if it is malformed.
LEMMA ScanForward ==
  ASSUME NEW data \in Seq(Byte)
  PROVE  ScanMember(data).used \in Nat
<1> DEFINE head == parse_tag_and_wiretype(data)
           rest == From(data, head.len)
           body == MemberLen(head.wire_type, rest)
<1>1. Len(data) \in Nat /\ Len32 \in Nat
  BY LenProperties, WidthFacts
<1>2. head.len \in Nat /\ head.len <= Len(data)
  <2>1. head.len = NumberLen(data, Len32)
    BY DEF parse_tag_and_wiretype
  <2> QED
    BY <1>1, <2>1, NumberLenNat
<1>3. rest \in Seq(Byte)
  <2> HIDE DEF head
  <2>1. \A k \in head.len + 1 .. Len(data) : data[k] \in Byte
    BY <1>1, <1>2
  <2> QED
    BY <1>1, <1>2, <2>1, SubSeqProperties DEF From
<1>4. body.len \in Nat
  <2> HIDE DEF rest, head
  <2> QED
    BY <1>3, MemberLenNat
<1>5. ScanMember(data).used = IF head.len = 0 \/ body.len = 0 THEN 0 ELSE head.len + body.len
  BY DEF ScanMember
<1> HIDE DEF head, body
<1> QED
  BY <1>2, <1>4, <1>5

\* Reading goes forward.
LEMMA ReadsOn ==
  ASSUME i \in Nat \ {0}, out \in Seq(Byte), ReadMember
  PROVE  i' \in Nat \ {0}
<1> DEFINE data == From(out, i - 1)
           member == ScanMember(data)
<1>1. data \in Seq(Byte)
  <2>1. i - 1 \in Nat /\ Len(out) \in Nat /\ (i - 1) + 1 = i
    BY LenProperties
  <2>2. \A k \in i .. Len(out) : out[k] \in Byte
    BY <2>1
  <2>3. SubSeq(out, i, Len(out)) \in Seq(Byte)
    BY <2>1, <2>2, SubSeqProperties
  <2> QED
    BY <2>1, <2>3 DEF From
<1>2. member.used \in Nat
  <2> HIDE DEF data
  <2> QED
    BY <1>1, ScanForward
<1>3. i' = i \/ i' = i + member.used
  BY DEF ReadMember
<1> HIDE DEF member
<1> QED
  BY <1>2, <1>3

\* The fields that are packed for a field are fields of messages.
LEMMA WithinFields ==
  \A d \in 0 .. MaxDepth : \A m \in Known : \A f \in Within[d][m] : IsField(f)
<1> DEFINE Right(d) == \A m \in Known : \A f \in Within[d][m] : IsField(f)
           Bad == {d \in 0 .. MaxDepth : ~Right(d)}
<1>1. MaxDepth \in Nat
  BY PackAssumption
<1>2. \A m \in Known : Submessages(m) \subseteq Known /\ \A f \in ToSet(m.fields) : IsField(f)
  BY KnownFacts DEF IsMessage
<1>3. Right(0)
  <2>1. Within[0] = [m \in Known |-> ToSet(m.fields) \cup {}]
    BY WithinSteps
  <2> QED
    BY <1>2, <2>1
<1>4. ASSUME NEW d \in 1 .. MaxDepth, Right(d - 1) PROVE Right(d)
  <2>1. Within[d] = [m \in Known |-> ToSet(m.fields) \cup
                                       UNION {Within[d - 1][s] : s \in Submessages(m)}]
    BY WithinSteps
  <2> SUFFICES ASSUME NEW m \in Known, NEW f \in Within[d][m] PROVE IsField(f)
    OBVIOUS
  <2>2. f \in ToSet(m.fields) \/ \E s \in Submessages(m) : f \in Within[d - 1][s]
    BY <2>1
  <2> QED
    BY <1>2, <1>4, <2>2
<1>5. Bad \in SUBSET Nat
  BY <1>1
<1>6. ASSUME NEW d \in Bad, \A y \in Bad : d <= y PROVE FALSE
  <2>1. d \in 0 .. MaxDepth /\ ~Right(d)
    OBVIOUS
  <2>2. d # 0
    BY <1>3, <2>1
  <2>3. d \in 1 .. MaxDepth /\ d - 1 \in 0 .. MaxDepth /\ ~(d <= d - 1)
    BY <1>1, <2>1, <2>2
  <2>4. Right(d - 1)
    <3> HIDE DEF Right
    <3> QED
      BY <1>6, <2>3
  <2> HIDE DEF Right
  <2> QED
    BY <1>4, <2>1, <2>3, <2>4
<1>7. Bad = {}
  <2> HIDE DEF Bad
  <2> QED
    BY <1>5, <1>6, SmallestExists
<1> HIDE DEF Right
<1>8. \A d \in 0 .. MaxDepth : Right(d)
  BY <1>7
<1> QED
  BY <1>8 DEF Right

\* The assertions hold for a field and for all fields of the messages in it.
LEMMA NoFieldAsserts ==
  ASSUME NEW m \in Known, NEW f \in ToSet(m.fields)
  PROVE  \A g \in FieldsIn(f) : GuessHolds(g) /\ PayloadLengthHolds(g)
<1>1. IsField(f) /\ Submessages(m) \subseteq Known
  BY KnownFacts DEF IsMessage
<1>2. MaxDepth \in 0 .. MaxDepth
  BY PackAssumption
<1>3. ASSUME NEW g \in FieldsIn(f) PROVE IsField(g)
  <2>1. CASE g = f
    BY <1>1, <2>1
  <2>2. CASE g # f
    <3>1. f.type = "message" /\ \E s \in ToSet(f.values) : g \in Within[MaxDepth][s]
      BY <2>2 DEF FieldsIn
    <3> QED
      BY <1>1, <1>2, <3>1, NestedValues, WithinFields
  <2> QED
    BY <2>1, <2>2
<1> QED
  BY <1>3, GuessIsRight

\* Every step of the program keeps LoopInv.
LEMMA LoopStep ==
  ASSUME LoopInv, [Next]_vars
  PROVE  LoopInv'
<1> DEFINE T == TotalOf(msg)
<1>0. /\ msg \in Messages /\ pc \in Pcs /\ i \in Nat \ {0} /\ asserted = FALSE
      /\ pc \in {"size", "pack", "buffer"} => i <= T + 1
      /\ size = SizeUpTo(msg, IF pc = "size" THEN i - 1 ELSE T)
      /\ out = PackUpTo(msg, IF pc = "size" THEN 0 ELSE IF pc = "pack" THEN i - 1 ELSE T)
  BY DEF LoopInv, Total, Fields, TotalOf
<1>1. msg \in Known
  BY <1>0, KnownFacts
<1>2. T \in Nat /\ 0 \in 0 .. T /\ Total = T
  <2>1. T \in Nat
    BY <1>1, TotalNat
  <2>2. Total = T
    BY DEF Total, Fields, TotalOf
  <2> HIDE DEF T
  <2> QED
    BY <2>1, <2>2
<1> SUFFICES ASSUME msg' = msg
             PROVE  /\ pc' \in Pcs /\ i' \in Nat \ {0} /\ asserted' = FALSE
                    /\ pc' \in {"size", "pack", "buffer"} => i' <= T + 1
                    /\ size' = SizeUpTo(msg, IF pc' = "size" THEN i' - 1 ELSE T)
                    /\ out' = PackUpTo(msg, IF pc' = "size" THEN 0
                                            ELSE IF pc' = "pack" THEN i' - 1 ELSE T)
  <2>1. msg' = msg
    BY DEF Next, vars, Size, PackItem, NextCall, BufferItem, DoAppend, JoinInner, OpenInner, Step,
           Clear, ReadMember, EndOfInput
  <2> QED
    BY <1>0, <2>1 DEF LoopInv, Total, Fields, TotalOf
<1>3. ASSUME NEW j \in 1 .. T
      PROVE  /\ j - 1 \in 0 .. T /\ (j + 1) - 1 = j /\ j + 1 <= T + 1 /\ j + 1 \in Nat \ {0}
             /\ SizeUpTo(msg, j) = SizeUpTo(msg, j - 1) + ItemSize(msg, j)
             /\ PackUpTo(msg, j) = PackUpTo(msg, j - 1) \o ItemPack(msg, j)
  <2>1. j - 1 \in 0 .. T /\ (j - 1) + 1 = j /\ (j - 1) + 1 <= T
    BY <1>2
  <2>2. /\ SizeUpTo(msg, (j - 1) + 1) = SizeUpTo(msg, j - 1) + ItemSize(msg, (j - 1) + 1)
        /\ PackUpTo(msg, (j - 1) + 1) = PackUpTo(msg, j - 1) \o ItemPack(msg, (j - 1) + 1)
    BY <1>1, <2>1, NextTurn
  <2> QED
    BY <1>2, <2>1, <2>2
<1>4. i <= Total => i \in 1 .. T /\ \A f \in AllFields : GuessHolds(f) /\ PayloadLengthHolds(f)
  <2> SUFFICES ASSUME i <= Total
               PROVE  i \in 1 .. T /\ \A f \in AllFields : GuessHolds(f) /\ PayloadLengthHolds(f)
    OBVIOUS
  <2>1. i \in 1 .. T
    BY <1>0, <1>2
  <2>2. CASE AtField
    <3>1. Len(msg.fields) \in Nat
          /\ \A k \in 1 .. Len(msg.fields) : msg.fields[k] \in ToSet(msg.fields)
      BY <1>1, KnownFacts, MessageParts
    <3>2. i \in 1 .. Len(msg.fields)
      BY <1>0, <2>2, <3>1 DEF AtField, Fields
    <3>3. Field \in ToSet(msg.fields)
      BY <3>1, <3>2 DEF Field
    <3>4. AllFields = FieldsIn(Field)
      BY <2>2 DEF AllFields
    <3> QED
      BY <1>1, <2>1, <3>3, <3>4, NoFieldAsserts
  <2>3. CASE ~AtField
    BY <2>1, <2>3 DEF AllFields
  <2> QED
    BY <2>2, <2>3
<1> HIDE DEF T
<1>5. CASE Size
  <2>1. /\ pc = "size" /\ pc' = pc /\ i <= Total /\ i' = i + 1 /\ out' = out /\ asserted' = asserted
        /\ size' = size + ItemSize(msg, i)
    <3>1. size' = size + IF AtField THEN FieldSize(Field, message_get_packed_size)
                         ELSE unknown_field_get_packed_size(Unknown)
      BY <1>5 DEF Size
    <3>2. (IF AtField THEN FieldSize(Field, message_get_packed_size)
                     ELSE unknown_field_get_packed_size(Unknown)) = ItemSize(msg, i)
      BY DEF ItemSize, AtField, Fields, Field, Unknown
    <3> QED
      BY <1>5, <3>1, <3>2 DEF Size
  <2> QED
    BY <1>0, <1>3, <1>4, <2>1
<1>6. CASE PackItem
  <2>1. /\ pc = "pack" /\ pc' = pc /\ i <= Total /\ i' = i + 1 /\ size' = size
        /\ out' = out \o ItemPack(msg, i)
    <3>1. out' = out \o IF AtField THEN FieldPack(Field, message_pack)
                        ELSE unknown_field_pack(Unknown)
      BY <1>6 DEF PackItem
    <3>2. (IF AtField THEN FieldPack(Field, message_pack)
                     ELSE unknown_field_pack(Unknown)) = ItemPack(msg, i)
      BY DEF ItemPack, AtField, Fields, Field, Unknown
    <3> QED
      BY <1>6, <3>1, <3>2 DEF PackItem
  <2>2. asserted' = FALSE
    <3>1. asserted' = (asserted \/ \E f \in AllFields : ~GuessHolds(f))
      BY <1>6 DEF PackItem
    <3>2. ~\E f \in AllFields : ~GuessHolds(f)
      BY <1>4, <2>1
    <3> QED
      BY <1>0, <3>1, <3>2
  <2> QED
    BY <1>0, <1>3, <1>4, <2>1, <2>2
<1>7. CASE NextCall
  <2>1. /\ i > T /\ i' = 1 /\ size' = size /\ out' = out /\ asserted' = asserted
        /\ \/ pc = "size" /\ pc' = "pack"
           \/ pc = "pack" /\ pc' = "buffer"
           \/ pc = "buffer" /\ pc' = "buffered"
    BY <1>2, <1>7 DEF NextCall, packVars
  <2>2. pc \in {"size", "pack", "buffer"} /\ i - 1 = T
    BY <1>0, <1>2, <2>1
  <2>3. i' - 1 = 0 /\ i' \in Nat \ {0} /\ i' <= T + 1
    BY <1>2, <2>1
  <2> QED
    BY <1>0, <2>1, <2>2, <2>3 DEF Pcs
<1>8. CASE BufferItem
  <2>1. /\ pc = "buffer" /\ pc' = pc /\ i <= Total /\ i' = i + 1 /\ size' = size /\ out' = out
    BY <1>8 DEF BufferItem, packVars
  <2>2. asserted' = FALSE
    <3>1. asserted' = (asserted \/ \E f \in AllFields : ~PayloadLengthHolds(f))
      BY <1>8 DEF BufferItem
    <3>2. ~\E f \in AllFields : ~PayloadLengthHolds(f)
      BY <1>4, <2>1
    <3> QED
      BY <1>0, <3>1, <3>2
  <2> QED
    BY <1>0, <1>3, <1>4, <2>1, <2>2
<1>9. CASE (\E found \in BOOLEAN : DoAppend(found) \/ JoinInner(found)) \/ OpenInner
  <2>1. UNCHANGED <<msg, pc, i, packVars, asserted>>
    BY <1>9 DEF DoAppend, JoinInner, OpenInner, Step
  <2> QED
    BY <1>0, <2>1 DEF packVars
<1>10. CASE Clear \/ EndOfInput
  <2>1. /\ pc \in {"buffered", "read"} /\ pc' \in {"read", "done"}
        /\ i' = i /\ size' = size /\ out' = out /\ asserted' = asserted
    BY <1>10 DEF Clear, EndOfInput, packVars
  <2> QED
    BY <1>0, <2>1 DEF Pcs
<1>11. CASE ReadMember
  <2>1. /\ pc = "read" /\ pc' \in {"read", "malformed"}
        /\ size' = size /\ out' = out /\ asserted' = asserted
    BY <1>11 DEF ReadMember, packVars
  <2>2. i' \in Nat \ {0}
    <3>1. T \in 0 .. T /\ out = PackUpTo(msg, T)
      BY <1>0, <1>2, <2>1
    <3>2. out \in Seq(Byte)
      BY <1>1, <3>1, TurnsBytes DEF Written, T
    <3> QED
      BY <1>0, <1>11, <3>2, ReadsOn
  <2> QED
    BY <1>0, <2>1, <2>2 DEF Pcs
<1>12. CASE UNCHANGED vars
  BY <1>0, <1>12 DEF vars
<1> QED
  BY <1>5, <1>6, <1>7, <1>8, <1>9, <1>10, <1>11, <1>12 DEF Next

\* The program begins with nothing sized and nothing packed.
LEMMA LoopInit == Init => LoopInv
<1> SUFFICES ASSUME Init PROVE LoopInv
  OBVIOUS
<1>1. /\ msg \in Messages /\ pc = "size" /\ i = 1 /\ size = 0 /\ out = <<>> /\ asserted = FALSE
  BY DEF Init
<1>2. msg \in Known
  BY <1>1, KnownFacts
<1>3. TotalOf(msg) \in Nat /\ Total = TotalOf(msg)
  BY <1>2, TotalNat DEF Total, Fields, TotalOf
<1>4. 0 \in 0 .. TotalOf(msg)
  BY <1>3
<1>5. SizeUpTo(msg, 0) = 0 /\ PackUpTo(msg, 0) = <<>>
  BY <1>2, <1>4, TurnsBytes
<1> QED
  BY <1>1, <1>3, <1>5 DEF LoopInv, Pcs

\* In the order of the program, the loops do what they do for every message.
THEOREM PackLoops == Spec => []LoopInv
<1>1. LoopInv /\ [Next]_vars => LoopInv'
  BY LoopStep
<1> QED
  BY LoopInit, <1>1, PTL DEF Spec

\* Every turn writes what it counted, so that no prefix of the bytes is longer than the
\* whole size.
LEMMA ExactInv == LoopInv => SizeExact
<1> SUFFICES ASSUME LoopInv PROVE SizeExact
  OBVIOUS
<1> DEFINE T == TotalOf(msg)
<1>1. /\ msg \in Known /\ i \in Nat \ {0} /\ (pc = "pack" => i <= T + 1)
      /\ size = SizeUpTo(msg, IF pc = "size" THEN i - 1 ELSE T)
      /\ out = PackUpTo(msg, IF pc = "size" THEN 0 ELSE IF pc = "pack" THEN i - 1 ELSE T)
  BY KnownFacts DEF LoopInv, Total, Fields, TotalOf
<1>2. T \in Nat /\ T \in 0 .. T
  <2>1. T \in Nat
    BY <1>1, TotalNat
  <2> HIDE DEF T
  <2> QED
    BY <2>1
<1> HIDE DEF T
<1>3. pc = "pack" => i - 1 \in 0 .. T
  BY <1>1, <1>2
<1>4. \A j \in 0 .. T : Len(PackUpTo(msg, j)) = SizeUpTo(msg, j) /\ SizeUpTo(msg, j) <= SizeUpTo(msg, T)
                        /\ SizeUpTo(msg, j) \in Nat
  BY <1>1, TurnsBytes, TurnsGrow DEF Written, T
<1>5. CASE pc = "pack"
  BY <1>1, <1>3, <1>4, <1>5 DEF SizeExact
<1>6. CASE pc \notin {"size", "pack"}
  BY <1>1, <1>2, <1>4, <1>6 DEF SizeExact
<1>7. CASE pc = "size"
  BY <1>7 DEF SizeExact
<1> QED
  BY <1>5, <1>6, <1>7

\* pack writes no more than get_packed_size says, and in the end exactly that, for
\* messages of any fields, nested however deep (protobuf_c_message_get_packed_size
\* and protobuf_c_message_pack).
THEOREM PackSizeExact == Spec => []SizeExact
BY PackLoops, ExactInv, PTL

\* The assertions of repeated_field_pack and of repeated_field_pack_to_buffer hold:
\* the length of a packed field is guessed too short by no more than a byte, and its
\* payload is as long as it was counted.
THEOREM PackAssertionsHold == Spec => []AssertionsHold
<1>1. LoopInv => AssertionsHold
  BY DEF LoopInv, AssertionsHold
<1> QED
  BY PackLoops, <1>1, PTL
-----------------------------------------------------------------------------
(* Pieces in two runs, one behind the other.                               *)

\* What is strung together of two sequences of pieces.
LEMMA ConcatBoth ==
  ASSUME NEW S, NEW a \in Seq(Seq(S)), NEW b \in Seq(Seq(S))
  PROVE  Concat(a \o b) = Concat(a) \o Concat(b) /\ Concat(a) \in Seq(S) /\ Concat(b) \in Seq(S)
<1>1. \A u \in Seq(Seq(S)) : \A x \in Seq(S) :
        Concat(u) \in Seq(S) /\ Concat(Append(u, x)) = Concat(u) \o x
  BY FlattenAppend DEF Concat
<1>2. <<>> \in Seq(S) /\ Concat(<<>>) = <<>>
  BY FlattenEmpty DEF Concat
<1>3. \A u \in Seq(Seq(S)) : Concat(u) \in Seq(S)
  BY <1>1, <1>2
<1> DEFINE G == {u \in Seq(Seq(S)) : Concat(a \o u) = Concat(a) \o Concat(u)}
<1>4. <<>> \in G
  <2>1. a \o <<>> = a
    BY ConcatEmptySeq
  <2>2. Concat(a) \o <<>> = Concat(a)
    BY <1>3, ConcatEmptySeq
  <2>3. <<>> \in Seq(Seq(S))
    OBVIOUS
  <2> QED
    BY <1>2, <2>1, <2>2, <2>3
<1>5. ASSUME NEW u \in Seq(Seq(S)), NEW x \in Seq(S), u \in G PROVE Append(u, x) \in G
  <2>1. a \o Append(u, x) = Append(a \o u, x) /\ a \o u \in Seq(Seq(S)) /\ Append(u, x) \in Seq(Seq(S))
    BY AppendIsConcat
  <2>2. Concat(Append(a \o u, x)) = Concat(a \o u) \o x /\ Concat(Append(u, x)) = Concat(u) \o x
    BY <1>1, <2>1
  <2> DEFINE ca == Concat(a)
             cu == Concat(u)
  <2>3. ca \in Seq(S) /\ cu \in Seq(S) /\ Concat(a \o u) = ca \o cu
    BY <1>3, <1>5
  <2> HIDE DEF ca, cu
  <2>4. (ca \o cu) \o x = ca \o (cu \o x)
    BY SMTT(60), <2>3, ConcatAssociative
  <2>5. Concat(a \o Append(u, x)) = ca \o (cu \o x)
    BY <2>1, <2>2, <2>3, <2>4
  <2>6. Concat(Append(u, x)) = cu \o x
    BY <2>2 DEF cu
  <2> QED
    BY <2>1, <2>5, <2>6 DEF ca
<1> HIDE DEF G
<1>6. b \in G
  BY <1>4, <1>5, SeqInduction
<1> QED
  BY <1>3, <1>6 DEF G

\* The sum of two sequences of terms.
LEMMA SumBoth ==
  ASSUME NEW a \in Seq(Nat), NEW b \in Seq(Nat)
  PROVE  SumOf(a \o b) = SumOf(a) + SumOf(b)
<1> DEFINE G == {u \in Seq(Nat) : SumOf(a \o u) = SumOf(a) + SumOf(u)}
<1>1. \A u \in Seq(Nat) : SumOf(u) \in Nat
  BY SumNat
<1>2. <<>> \in G
  <2>1. a \o <<>> = a /\ SumOf(<<>>) = 0 /\ SumOf(a) \in Nat /\ <<>> \in Seq(Nat)
    BY <1>1, ConcatEmptySeq, SumEmpty
  <2> QED
    BY <2>1
<1>3. ASSUME NEW u \in Seq(Nat), NEW x \in Nat, u \in G PROVE Append(u, x) \in G
  <2>1. a \o Append(u, x) = Append(a \o u, x) /\ a \o u \in Seq(Nat) /\ Append(u, x) \in Seq(Nat)
    BY AppendIsConcat
  <2>2. SumOf(Append(a \o u, x)) = SumOf(a \o u) + x /\ SumOf(Append(u, x)) = SumOf(u) + x
    BY <2>1, SumAppend
  <2> DEFINE p == SumOf(a)
             q == SumOf(u)
  <2>3. SumOf(a \o u) = p + q /\ p \in Nat /\ q \in Nat
    BY <1>1, <1>3
  <2> HIDE DEF p, q
  <2>4. SumOf(a \o Append(u, x)) = p + (q + x)
    BY <2>1, <2>2, <2>3
  <2>5. SumOf(Append(u, x)) = q + x
    BY <2>2 DEF q
  <2> QED
    BY <2>1, <2>4, <2>5 DEF p
<1> HIDE DEF G
<1>4. b \in G
  BY <1>2, <1>3, SeqInduction
<1> QED
  BY <1>4 DEF G

\* c is a with b behind it.
Joined(c, a, b) == c = a \o b

\* A sequence that is two functions side by side.
LEMMA BothAsOne ==
  ASSUME NEW S, NEW F \in Nat, NEW G \in Nat, NEW a \in [1 .. F -> S], NEW b \in [1 .. G -> S],
         NEW c \in [1 .. F + G -> S],
         \A k \in 1 .. F : c[k] = a[k], \A k \in 1 .. G : c[F + k] = b[k]
  PROVE  Joined(c, a, b)
<1>1. /\ a \in Seq(S) /\ Len(a) = F /\ b \in Seq(S) /\ Len(b) = G
      /\ c \in Seq(S) /\ Len(c) = F + G
  BY FunctionIsSeq
<1>2. a \o b \in Seq(S) /\ Len(a \o b) = F + G
      /\ \A k \in 1 .. F + G : (a \o b)[k] = IF k <= F THEN a[k] ELSE b[k - F]
  BY <1>1, ConcatProperties
<1> DEFINE d == a \o b
<1> HIDE DEF d
<1>3. \A k \in 1 .. F + G : c[k] = d[k]
  <2> TAKE k \in 1 .. F + G
  <2>1. CASE k <= F
    <3>1. k \in 1 .. F
      BY <2>1
    <3> QED
      BY <1>2, <2>1, <3>1 DEF d
  <2>2. CASE ~(k <= F)
    <3>1. k - F \in 1 .. G /\ F + (k - F) = k
      BY <2>2
    <3>2. c[F + (k - F)] = b[k - F]
      BY <3>1
    <3> QED
      BY <1>2, <2>2, <3>1, <3>2 DEF d
  <2> QED
    BY <2>1, <2>2
<1>4. c = d
  BY <1>1, <1>2, <1>3, SeqEqual DEF d
<1> QED
  BY <1>4 DEF d, Joined

\* All turns make the message.
LEMMA WholeMessage ==
  ASSUME NEW m \in Known
  PROVE  /\ SizeUpTo(m, TotalOf(m)) = message_get_packed_size[m]
         /\ PackUpTo(m, TotalOf(m)) = message_pack[m]
<1> DEFINE F == Len(m.fields)
           G == Len(m.unknown)
           ns == [k \in 1 .. F |-> FieldSize(m.fields[k], message_get_packed_size)]
           us == [k \in 1 .. G |-> unknown_field_get_packed_size(m.unknown[k])]
           ps == [k \in 1 .. F |-> FieldPack(m.fields[k], message_pack)]
           qs == [k \in 1 .. G |-> unknown_field_pack(m.unknown[k])]
           ts == [k \in 1 .. F + G |-> ItemSize(m, k)]
           bs == [k \in 1 .. F + G |-> ItemPack(m, k)]
<1>1. IsMessage(m)
  BY KnownFacts
<1>2. F \in Nat /\ G \in Nat /\ DOMAIN m.fields = 1 .. F /\ DOMAIN m.unknown = 1 .. G
  BY <1>1, MessageParts
<1>3. /\ message_get_packed_size[m] = SumOf(ns) + SumOf(us)
      /\ message_pack[m] = Concat(ps) \o Concat(qs)
      /\ SizeUpTo(m, TotalOf(m)) = SumOf(ts) /\ PackUpTo(m, TotalOf(m)) = Concat(bs)
  <2>1. /\ message_get_packed_size[m] = MessageSize(m, message_get_packed_size)
        /\ message_pack[m] = MessagePack(m, message_pack)
    BY SizeFixpoint
  <2>2. MessageSize(m, message_get_packed_size) = SumOf(ns) + SumOf(us)
    BY <1>2 DEF MessageSize
  <2>3. MessagePack(m, message_pack) = Concat(ps) \o Concat(qs)
    BY <1>2 DEF MessagePack
  <2>4. SizeUpTo(m, TotalOf(m)) = SumOf(ts) /\ PackUpTo(m, TotalOf(m)) = Concat(bs)
    BY DEF SizeUpTo, PackUpTo, TotalOf
  <2> QED
    BY <2>1, <2>2, <2>3, <2>4
<1>4. ASSUME NEW k \in 1 .. F + G PROVE ItemSize(m, k) \in Nat /\ ItemPack(m, k) \in Seq(Byte)
  <2>1. k \in 1 .. TotalOf(m)
    BY DEF TotalOf
  <2> QED
    BY <2>1, ItemBytes DEF Written
<1>5. ASSUME NEW k \in 1 .. F
      PROVE  k \in 1 .. F + G /\ ts[k] = ns[k] /\ bs[k] = ps[k]
  <2>1. k \in 1 .. F + G /\ k <= F
    <3> HIDE DEF F, G, ns, us, ps, qs, ts, bs
    <3> QED
      BY <1>2
  <2>2. k <= Len(m.fields)
    BY <2>1
  <2>3. ts[k] = ItemSize(m, k) /\ bs[k] = ItemPack(m, k)
    BY <2>1
  <2>4. ItemSize(m, k) = ns[k] /\ ItemPack(m, k) = ps[k]
    BY <2>2 DEF ItemSize, ItemPack
  <2> QED
    BY <2>1, <2>3, <2>4
<1>6. ASSUME NEW k \in 1 .. G
      PROVE  F + k \in 1 .. F + G /\ ts[F + k] = us[k] /\ bs[F + k] = qs[k]
  <2>1. F + k \in 1 .. F + G /\ ~(F + k <= F) /\ (F + k) - F = k
    <3> HIDE DEF F, G, ns, us, ps, qs, ts, bs
    <3> QED
      BY <1>2
  <2>2. ~(F + k <= Len(m.fields)) /\ (F + k) - Len(m.fields) = k
    BY <2>1
  <2>3. ts[F + k] = ItemSize(m, F + k) /\ bs[F + k] = ItemPack(m, F + k)
    BY <2>1
  <2> DEFINE j == F + k
  <2> HIDE DEF j
  <2>4. ItemSize(m, j) = us[k] /\ ItemPack(m, j) = qs[k]
    <3>1. ~(j <= Len(m.fields)) /\ j - Len(m.fields) = k
      BY <2>2 DEF j
    <3> QED
      BY <3>1 DEF ItemSize, ItemPack
  <2> QED
    BY <2>1, <2>3, <2>4 DEF j
<1>7. ts \in [1 .. F + G -> Nat] /\ bs \in [1 .. F + G -> Seq(Byte)]
  BY <1>4
<1>8. ns \in [1 .. F -> Nat] /\ ps \in [1 .. F -> Seq(Byte)]
  <2> SUFFICES ASSUME NEW k \in 1 .. F PROVE ns[k] \in Nat /\ ps[k] \in Seq(Byte)
    OBVIOUS
  <2>1. k \in 1 .. F + G /\ ts[k] = ns[k] /\ bs[k] = ps[k]
    BY <1>5
  <2> HIDE DEF ns, ps, ts, bs
  <2> QED
    BY <1>7, <2>1
<1>9. us \in [1 .. G -> Nat] /\ qs \in [1 .. G -> Seq(Byte)]
  <2> SUFFICES ASSUME NEW k \in 1 .. G PROVE us[k] \in Nat /\ qs[k] \in Seq(Byte)
    OBVIOUS
  <2>1. F + k \in 1 .. F + G /\ ts[F + k] = us[k] /\ bs[F + k] = qs[k]
    BY <1>6
  <2> HIDE DEF us, qs, ts, bs
  <2> QED
    BY <1>7, <2>1
<1> HIDE DEF ns, us, ps, qs, ts, bs, F, G
<1>10. ts = ns \o us /\ ns \in Seq(Nat) /\ us \in Seq(Nat)
  <2>2. ns \in Seq(Nat) /\ us \in Seq(Nat)
    BY <1>2, <1>8, <1>9, FunctionIsSeq
  <2>1. (\A k \in 1 .. F : ts[k] = ns[k]) /\ (\A k \in 1 .. G : ts[F + k] = us[k])
    BY <1>5, <1>6
  <2>3. Joined(ts, ns, us)
    BY <1>2, <1>7, <1>8, <1>9, <2>1, BothAsOne
  <2> QED
    BY <2>2, <2>3 DEF Joined
<1>11. bs = ps \o qs /\ ps \in Seq(Seq(Byte)) /\ qs \in Seq(Seq(Byte))
  <2>2. ps \in Seq(Seq(Byte)) /\ qs \in Seq(Seq(Byte))
    BY <1>2, <1>8, <1>9, FunctionIsSeq
  <2>1. (\A k \in 1 .. F : bs[k] = ps[k]) /\ (\A k \in 1 .. G : bs[F + k] = qs[k])
    BY <1>5, <1>6
  <2>3. Joined(bs, ps, qs)
    BY <1>2, <1>7, <1>8, <1>9, <2>1, BothAsOne
  <2> QED
    BY <2>2, <2>3 DEF Joined
<1>12. SumOf(ts) = SumOf(ns) + SumOf(us)
  BY <1>10, SumBoth
<1>13. Concat(bs) = Concat(ps) \o Concat(qs)
  BY <1>11, ConcatBoth
<1> QED
  BY <1>3, <1>12, <1>13
-----------------------------------------------------------------------------
(* What steps do to a stack of buffers when every append finds memory.     *)

\* h buffers, the contents of the one at each depth, and what was returned.
States == [h : Nat, data : [Nat -> Seq(Byte)], n : Nat]

StepSet == [do : {"append", "open", "join"}, depth : Nat, bytes : Seq(Byte), len : Nat]

\* The buffer a step writes to, and what it then holds.
At(step) == step.depth + IF step.do = "open" THEN 1 ELSE 0
New(s, step) ==
  CASE step.do = "append" -> s.data[step.depth] \o step.bytes
    [] step.do = "open"   -> <<>>
    [] step.do = "join"   -> s.data[step.depth] \o s.data[step.depth + 1]
Height(s, step) ==
  CASE step.do = "append" -> s.h
    [] step.do = "open"   -> s.h + 1
    [] step.do = "join"   -> s.h - 1

After(s, step) ==
  [h |-> Height(s, step), data |-> [s.data EXCEPT ![At(step)] = New(s, step)],
   n |-> s.n + Returned(step)]

\* The step fits the stack, and what it writes has a length.
Allowed(s, step) ==
  /\ step.depth < s.h /\ Len(New(s, step)) < U32
  /\ step.do = "append" => step.len = Len(step.bytes)
  /\ step.do = "open" => step.depth + 1 = s.h
  /\ step.do = "join" => step.depth + 2 = s.h /\ step.len = Len(s.data[step.depth + 1])

\* The steps lead from s to t.
Walk(r, p, s, t) ==
  /\ r[0] = s /\ r[Len(p)] = t
  /\ \A k \in 1 .. Len(p) : Allowed(r[k - 1], p[k]) /\ r[k] = After(r[k - 1], p[k])
Runs(p, s, t) == \E r \in [0 .. Len(p) -> States] : Walk(r, p, s, t)

\* A step leads to another stack.
LEMMA AfterState ==
  ASSUME NEW s \in States, NEW step \in StepSet, Allowed(s, step)
  PROVE  /\ After(s, step) \in States /\ New(s, step) \in Seq(Byte) /\ Height(s, step) \in Nat
         /\ At(step) \in Nat /\ Returned(step) \in Nat
<1>1. /\ s.h \in Nat /\ s.data \in [Nat -> Seq(Byte)] /\ s.n \in Nat
      /\ step.depth \in Nat /\ step.len \in Nat /\ step.bytes \in Seq(Byte)
      /\ step.do \in {"append", "open", "join"}
  BY DEF States, StepSet
<1> DEFINE g == s.data
           d == step.depth
           c == s.n
           h == s.h
           l == step.len
<1> HIDE DEF g, d, c, h, l
<1>2. s.data[step.depth] \in Seq(Byte) /\ s.data[step.depth + 1] \in Seq(Byte)
  <2>1. d \in Nat /\ g \in [Nat -> Seq(Byte)]
    BY <1>1, Zenon DEF d, g
  <2>3. d + 1 \in Nat
    BY <2>1
  <2>2. g[d] \in Seq(Byte) /\ g[d + 1] \in Seq(Byte)
    BY <2>1, <2>3
  <2> QED
    BY <2>2 DEF g, d
<1>3. New(s, step) \in Seq(Byte)
  <2>1. \A a, b \in Seq(Byte) : a \o b \in Seq(Byte)
    BY ConcatProperties
  <2> QED
    BY <1>1, <1>2, <2>1, EmptySeq DEF New
<1>4. Height(s, step) \in Nat /\ At(step) \in Nat /\ Returned(step) \in Nat
  <2>1. h \in Nat /\ d \in Nat /\ l \in Nat /\ d < h
    BY <1>1 DEF h, d, l, Allowed
  <2>2. h + 1 \in Nat /\ h - 1 \in Nat /\ d + 0 \in Nat /\ d + 1 \in Nat
    BY <2>1
  <2>3. Height(s, step) \in {h, h + 1, h - 1}
    BY <1>1 DEF Height, h
  <2>4. At(step) \in {d + 0, d + 1}
    BY DEF At, d
  <2>5. Returned(step) \in {l, 0}
    BY DEF Returned, l
  <2> QED
    BY <2>1, <2>2, <2>3, <2>4, <2>5
<1>5. s.n + Returned(step) \in Nat
  <2>1. c \in Nat
    BY <1>1 DEF c
  <2>2. c + Returned(step) \in Nat
    BY <1>4, <2>1
  <2> QED
    BY <2>2 DEF c
<1>6. [s.data EXCEPT ![At(step)] = New(s, step)] \in [Nat -> Seq(Byte)]
  BY <1>1, <1>3, <1>4
<1> QED
  BY <1>3, <1>4, <1>5, <1>6 DEF After, States

\* No steps lead nowhere.
LEMMA RunsNone ==
  ASSUME NEW s \in States
  PROVE  Runs(<<>>, s, s)
<1> DEFINE r == [k \in 0 .. 0 |-> s]
<1>1. Len(<<>>) = 0
  BY EmptySeq
<1>2. r \in [0 .. 0 -> States] /\ r[0] = s
  OBVIOUS
<1>3. Walk(r, <<>>, s, s)
  BY <1>1, <1>2 DEF Walk
<1> QED
  BY <1>1, <1>2, <1>3 DEF Runs

\* One step.
LEMMA RunsOne ==
  ASSUME NEW s \in States, NEW step \in StepSet, Allowed(s, step)
  PROVE  Runs(<<step>>, s, After(s, step))
<1> DEFINE t == After(s, step)
           r == [k \in 0 .. 1 |-> IF k = 0 THEN s ELSE t]
<1>1. Len(<<step>>) = 1 /\ <<step>>[1] = step
  OBVIOUS
<1>2. t \in States
  BY AfterState
<1>3. r \in [0 .. 1 -> States] /\ r[0] = s /\ r[1] = t
  BY <1>2
<1>4. Walk(r, <<step>>, s, t)
  <2> HIDE DEF r
  <2>1. \A k \in 1 .. 1 : k = 1 /\ k - 1 = 0
    OBVIOUS
  <2> QED
    BY <1>1, <1>3, <2>1 DEF Walk
<1> HIDE DEF r
<1> QED
  BY <1>1, <1>3, <1>4 DEF Runs

\* Steps and then others.
LEMMA RunsBoth ==
  ASSUME NEW p \in Seq(StepSet), NEW q \in Seq(StepSet), NEW s \in States, NEW t \in States,
         NEW u \in States, Runs(p, s, t), Runs(q, t, u)
  PROVE  Runs(p \o q, s, u)
<1> DEFINE F == Len(p)
           G == Len(q)
<1>1. F \in Nat /\ G \in Nat
  BY LenProperties
<1>2. PICK a \in [0 .. F -> States] : Walk(a, p, s, t)
  BY DEF Runs
<1>3. PICK b \in [0 .. G -> States] : Walk(b, q, t, u)
  BY DEF Runs
<1> DEFINE r == [k \in 0 .. F + G |-> IF k <= F THEN a[k] ELSE b[k - F]]
<1> HIDE DEF F, G
<1>4. /\ Len(p \o q) = F + G
      /\ \A k \in 1 .. F : (p \o q)[k] = p[k]
      /\ \A k \in 1 .. G : (p \o q)[F + k] = q[k]
  <2>1. /\ Len(p \o q) = F + G
        /\ \A k \in 1 .. F + G : (p \o q)[k] = IF k <= F THEN p[k] ELSE q[k - F]
    BY ConcatProperties DEF F, G
  <2>2. \A k \in 1 .. F : k \in 1 .. F + G /\ k <= F
    BY <1>1
  <2>3. \A k \in 1 .. G : F + k \in 1 .. F + G /\ ~(F + k <= F) /\ (F + k) - F = k
    BY <1>1
  <2> QED
    BY <2>1, <2>2, <2>3
<1>5. \A k \in 0 .. F : r[k] = a[k]
  BY <1>1
<1>6. \A k \in 0 .. G : r[F + k] = b[k]
  <2> TAKE k \in 0 .. G
  <2>1. F + k \in 0 .. F + G /\ (F + k <= F <=> k = 0) /\ (F + k) - F = k /\ F + 0 = F
    BY <1>1
  <2>2. a[F] = b[0]
    BY <1>2, <1>3 DEF Walk, F
  <2>3. CASE k = 0
    <3>1. r[F] = a[F]
      BY <1>1, <1>5
    <3> HIDE DEF r
    <3> QED
      BY <2>1, <2>2, <2>3, <3>1
  <2>4. CASE k # 0
    BY <2>1, <2>4
  <2> QED
    BY <2>3, <2>4
<1>7. r \in [0 .. F + G -> States]
  <2> SUFFICES ASSUME NEW k \in 0 .. F + G PROVE r[k] \in States
    OBVIOUS
  <2>1. CASE k <= F
    <3>1. k \in 0 .. F
      BY <1>1, <2>1
    <3> HIDE DEF r
    <3> QED
      BY <1>5, <3>1
  <2>2. CASE ~(k <= F)
    <3>1. k - F \in 0 .. G /\ F + (k - F) = k
      BY <1>1, <2>2
    <3>2. r[F + (k - F)] = b[k - F]
      BY <1>6, <3>1
    <3> HIDE DEF r
    <3> QED
      BY <3>1, <3>2
  <2> QED
    BY <2>1, <2>2
<1> HIDE DEF r
<1>8. ASSUME NEW k \in 1 .. F + G
      PROVE  Allowed(r[k - 1], (p \o q)[k]) /\ r[k] = After(r[k - 1], (p \o q)[k])
  <2>1. CASE k <= F
    <3>1. k \in 1 .. F /\ k \in 0 .. F /\ k - 1 \in 0 .. F
      BY <1>1, <2>1
    <3>2. Allowed(a[k - 1], p[k]) /\ a[k] = After(a[k - 1], p[k])
      BY <1>2, <3>1 DEF Walk, F
    <3> QED
      BY <1>4, <1>5, <3>1, <3>2
  <2>2. CASE ~(k <= F)
    <3> DEFINE j == k - F
    <3>1. j \in 1 .. G /\ j \in 0 .. G /\ j - 1 \in 0 .. G /\ F + j = k /\ F + (j - 1) = k - 1
      BY <1>1, <2>2
    <3> HIDE DEF j
    <3>2. Allowed(b[j - 1], q[j]) /\ b[j] = After(b[j - 1], q[j])
      BY <1>3, <3>1 DEF Walk, G
    <3>3. r[k] = b[j] /\ r[k - 1] = b[j - 1] /\ (p \o q)[k] = q[j]
      BY <1>4, <1>6, <3>1
    <3> QED
      BY <3>2, <3>3
  <2> QED
    BY <2>1, <2>2
<1>9. r[0] = s /\ r[F + G] = u
  <2>1. 0 \in 0 .. F /\ G \in 0 .. G
    BY <1>1
  <2> QED
    BY <1>2, <1>3, <1>5, <1>6, <2>1 DEF Walk, F, G
<1>10. Walk(r, p \o q, s, u)
  BY <1>4, <1>8, <1>9 DEF Walk
<1> QED
  BY <1>4, <1>7, <1>10 DEF Runs

\* The first of some steps.
LEMMA RunsHead ==
  ASSUME NEW p \in Seq(StepSet), p # <<>>, NEW s \in States, NEW t \in States, Runs(p, s, t)
  PROVE  Allowed(s, Head(p)) /\ Runs(Tail(p), After(s, Head(p)), t)
<1> DEFINE F == Len(p)
<1>1. PICK r \in [0 .. F -> States] : Walk(r, p, s, t)
  BY DEF Runs
<1>2. /\ F \in Nat /\ F # 0 /\ Head(p) = p[1] /\ Tail(p) \in Seq(StepSet) /\ Len(Tail(p)) = F - 1
      /\ \A k \in 1 .. F - 1 : Tail(p)[k] = p[k + 1]
  BY HeadTailProperties, EmptySeq, LenProperties
<1> DEFINE r2 == [k \in 0 .. F - 1 |-> r[k + 1]]
<1> HIDE DEF F
<1>3. 1 \in 1 .. F /\ 0 \in 0 .. F - 1 /\ F - 1 \in 0 .. F - 1 /\ (F - 1) + 1 = F /\ 0 + 1 = 1 /\ 1 - 1 = 0
  BY <1>2
<1>4. Allowed(s, Head(p)) /\ r[1] = After(s, Head(p)) /\ r[F] = t
  <2>1. Allowed(r[1 - 1], p[1]) /\ r[1] = After(r[1 - 1], p[1]) /\ r[0] = s /\ r[F] = t
    BY <1>1, <1>3 DEF Walk, F
  <2> QED
    BY <1>2, <1>3, <2>1
<1>5. r2 \in [0 .. F - 1 -> States] /\ \A k \in 0 .. F - 1 : r2[k] = r[k + 1]
  <2>1. \A k \in 0 .. F - 1 : k + 1 \in 0 .. F
    BY <1>2
  <2> QED
    BY <1>1, <2>1 DEF F
<1> HIDE DEF r2
<1>6. ASSUME NEW k \in 1 .. F - 1
      PROVE  Allowed(r2[k - 1], Tail(p)[k]) /\ r2[k] = After(r2[k - 1], Tail(p)[k])
  <2>1. k + 1 \in 1 .. F /\ (k + 1) - 1 = k /\ k \in 0 .. F - 1 /\ k - 1 \in 0 .. F - 1 /\ (k - 1) + 1 = k
    BY <1>2
  <2>2. Allowed(r[(k + 1) - 1], p[k + 1]) /\ r[k + 1] = After(r[(k + 1) - 1], p[k + 1])
    BY <1>1, <2>1 DEF Walk, F
  <2>3. r2[k] = r[k + 1] /\ r2[k - 1] = r[k]
    BY <1>5, <2>1
  <2> QED
    BY <1>2, <2>1, <2>2, <2>3
<1>7. r2[0] = After(s, Head(p)) /\ r2[F - 1] = t
  BY <1>3, <1>4, <1>5
<1>8. Walk(r2, Tail(p), After(s, Head(p)), t)
  BY <1>2, <1>6, <1>7 DEF Walk
<1> QED
  BY <1>2, <1>4, <1>5, <1>8 DEF Runs

\* The stack of a message within a message: one more buffer, and nothing is returned
\* to the function outside.
Lift(s, x, c) ==
  [h |-> s.h + 1, data |-> [k \in Nat |-> IF k = 0 THEN x ELSE s.data[k - 1]], n |-> c]
Down(step) == [step EXCEPT !.depth = @ + 1]

\* A stack with a buffer beneath is a stack.
LEMMA LiftState ==
  ASSUME NEW s \in States, NEW x \in Seq(Byte), NEW c \in Nat
  PROVE  /\ Lift(s, x, c) \in States /\ Lift(s, x, c).h = s.h + 1 /\ Lift(s, x, c).n = c
         /\ Lift(s, x, c).data[0] = x
         /\ \A k \in Nat : Lift(s, x, c).data[k + 1] = s.data[k]
<1>1. s.h \in Nat /\ s.data \in [Nat -> Seq(Byte)]
  BY DEF States
<1> DEFINE g == s.data
           h == s.h
           f == [k \in Nat |-> IF k = 0 THEN x ELSE g[k - 1]]
<1> HIDE DEF g, h
<1>2. g \in [Nat -> Seq(Byte)] /\ h \in Nat
  BY <1>1 DEF g, h
<1>3. f \in [Nat -> Seq(Byte)]
  <2>1. \A k \in Nat : k = 0 \/ k - 1 \in Nat
    OBVIOUS
  <2> QED
    BY <1>2, <2>1
<1>4. f[0] = x /\ \A k \in Nat : f[k + 1] = g[k]
  <2>1. \A k \in Nat : k + 1 \in Nat /\ k + 1 # 0 /\ (k + 1) - 1 = k
    OBVIOUS
  <2> QED
    BY <2>1
<1>5. Lift(s, x, c) = [h |-> h + 1, data |-> f, n |-> c]
  BY DEF Lift, g, h
<1> HIDE DEF f
<1>6. h + 1 \in Nat
  BY <1>2
<1> QED
  BY <1>3, <1>4, <1>5, <1>6 DEF States, g, h

\* t is s on top of a message whose buffer holds x.
Lifted(t, s, x, c) ==
  /\ t \in States /\ t.h = s.h + 1 /\ t.n = c /\ t.data[0] = x
  /\ \A k \in Nat : t.data[k + 1] = s.data[k]

LEMMA LiftIs ==
  ASSUME NEW s \in States, NEW x \in Seq(Byte), NEW c \in Nat
  PROVE  Lifted(Lift(s, x, c), s, x, c)
<1> DEFINE t == Lift(s, x, c)
<1>1. /\ t \in States /\ t.h = s.h + 1 /\ t.n = c /\ t.data[0] = x
      /\ \A k \in Nat : t.data[k + 1] = s.data[k]
  BY LiftState
<1> HIDE DEF t
<1>2. Lifted(t, s, x, c)
  BY <1>1, Zenon DEF Lifted
<1> QED
  BY <1>2 DEF t

\* A step does to the stack of a message within a message what it does to that of the
\* message on its own.
LEMMA LiftedStep ==
  ASSUME NEW s \in States, NEW step \in StepSet, Allowed(s, step),
         NEW x \in Seq(Byte), NEW c \in Nat
  PROVE  /\ Down(step) \in StepSet /\ Allowed(Lift(s, x, c), Down(step)) /\ Returned(Down(step)) = 0
         /\ After(Lift(s, x, c), Down(step)) = Lift(After(s, step), x, c)
<1> DEFINE u == Lift(s, x, c)
           e == Down(step)
           d == step.depth
           z == New(s, step)
           a == At(step)
           h == s.h
           g == s.data
           t == After(s, step)
<1>1. /\ h \in Nat /\ g \in [Nat -> Seq(Byte)] /\ d \in Nat /\ step.do \in {"append", "open", "join"}
      /\ d < h /\ Len(z) < U32
      /\ step.do = "append" => step.len = Len(step.bytes)
      /\ step.do = "open" => d + 1 = h
      /\ step.do = "join" => d + 2 = h /\ step.len = Len(g[d + 1])
  BY DEF States, StepSet, Allowed
<1>2. /\ e.do = step.do /\ e.depth = d + 1 /\ e.bytes = step.bytes /\ e.len = step.len
      /\ (d + 1 \in Nat => e \in StepSet)
  BY DEF StepSet, Down
<1>3. u.h = h + 1 /\ u.n = c /\ u \in States /\ u.data[0] = x /\ \A k \in Nat : u.data[k + 1] = g[k]
  BY LiftState
<1>4. t \in States /\ z \in Seq(Byte) /\ a \in Nat
  BY AfterState
<1>5. t = [h |-> Height(s, step), data |-> [g EXCEPT ![a] = z], n |-> s.n + Returned(step)]
  BY DEF After
<1>6. At(e) = a + 1
  <2>1. CASE step.do = "open"
    <3>1. a = d + 1 /\ At(e) = (d + 1) + 1
      BY <1>2, <2>1 DEF At
    <3> QED
      BY <3>1
  <2>2. CASE step.do # "open"
    <3>1. a = d + 0 /\ At(e) = (d + 1) + 0
      BY <1>2, <2>2 DEF At
    <3> HIDE DEF a, d
    <3> QED
      BY <1>1, <3>1
  <2> QED
    BY <2>1, <2>2
<1>7. New(u, e) = z
  <2>1. u.data[d + 1] = g[d] /\ u.data[(d + 1) + 1] = g[d + 1]
    <3> HIDE DEF u, e, d, g, h, z, a
    <3>1. d + 1 \in Nat
      BY <1>1
    <3> QED
      BY <1>1, <1>3, <3>1
  <2>2. CASE step.do = "append"
    BY <1>2, <2>1, <2>2 DEF New
  <2>3. CASE step.do = "open"
    BY <1>2, <2>3 DEF New
  <2>4. CASE step.do = "join"
    BY <1>2, <2>1, <2>4 DEF New
  <2> QED
    BY <1>1, <2>2, <2>3, <2>4
<1>8. Height(u, e) = Height(s, step) + 1
  <2> HIDE DEF u, e
  <2>1. CASE step.do = "append"
    BY <1>2, <1>3, <2>1 DEF Height
  <2>2. CASE step.do = "open"
    BY <1>2, <1>3, <2>2 DEF Height
  <2>3. CASE step.do = "join"
    <3>1. Height(u, e) = (h + 1) - 1 /\ Height(s, step) = h - 1
      BY <1>2, <1>3, <2>3 DEF Height
    <3> HIDE DEF h
    <3> QED
      BY <1>1, <3>1
  <2> QED
    BY <1>1, <2>1, <2>2, <2>3
<1> HIDE DEF u, e, z, a, t, d, g, h
<1>9. Returned(e) = 0 /\ d + 1 \in Nat
  <2>1. d + 1 # 0 /\ d + 1 \in Nat
    BY <1>1
  <2> QED
    BY <1>2, <2>1 DEF Returned
<1>10. Allowed(u, e)
  <2>1. d + 1 < h + 1 /\ (d + 1 = h => (d + 1) + 1 = h + 1) /\ (d + 2 = h => (d + 1) + 2 = h + 1)
        /\ d + 1 \in Nat
    BY <1>1
  <2>2. u.data[(d + 1) + 1] = g[d + 1]
    BY <1>3, <2>1
  <2> QED
    BY <1>1, <1>2, <1>3, <1>7, <2>1, <2>2 DEF Allowed
<1>11. Lift(t, x, c) = [h |-> t.h + 1, data |-> [k \in Nat |-> IF k = 0 THEN x ELSE t.data[k - 1]], n |-> c]
  BY DEF Lift
<1>12. t.h = Height(s, step) /\ t.data = [g EXCEPT ![a] = z]
  BY <1>5
<1>13. After(u, e) = [h |-> Height(s, step) + 1, data |-> [u.data EXCEPT ![a + 1] = z], n |-> u.n + Returned(e)]
  BY <1>6, <1>7, <1>8 DEF After
<1>14. u.n + Returned(e) = c
  BY <1>3, <1>9
<1> DEFINE w == [u.data EXCEPT ![a + 1] = z]
           v == [k \in Nat |-> IF k = 0 THEN x ELSE t.data[k - 1]]
<1>15. w = v
  <2>1. u.data \in [Nat -> Seq(Byte)]
    BY <1>3 DEF States
  <2>2. a + 1 \in Nat /\ a + 1 # 0
    BY <1>4
  <2>3. w \in [Nat -> Seq(Byte)] /\ w[a + 1] = z /\ \A k \in Nat : k # a + 1 => w[k] = u.data[k]
    BY <1>4, <2>1, <2>2
  <2>4. ASSUME NEW k \in Nat PROVE w[k] = v[k]
    <3>1. CASE k = 0
      BY <1>3, <2>2, <2>3, <3>1
    <3>2. CASE k # 0
      <4> DEFINE j == k - 1
      <4>1. j \in Nat /\ j + 1 = k /\ (k = a + 1 <=> j = a)
        BY <1>4, <3>2
      <4>2. v[k] = t.data[j]
        BY <3>2
      <4> HIDE DEF j, w, v
      <4>3. u.data[j + 1] = g[j]
        BY <1>3, <4>1
      <4>4. t.data[j] = IF j = a THEN z ELSE g[j]
        BY <1>1, <1>12, <4>1
      <4> QED
        BY <2>3, <4>1, <4>2, <4>3, <4>4
    <3> QED
      BY <3>1, <3>2
  <2>5. DOMAIN w = Nat /\ DOMAIN v = Nat /\ w = [k \in Nat |-> w[k]] /\ v = [k \in Nat |-> v[k]]
    BY <2>3
  <2> HIDE DEF w, v
  <2> QED
    BY <2>4, <2>5
<1>16. After(u, e) = Lift(t, x, c)
  BY <1>11, <1>12, <1>13, <1>14, <1>15
<1> QED
  BY <1>2, <1>9, <1>10, <1>16 DEF u, e, t

\* So do several.
LEMMA RunsLifted ==
  ASSUME NEW p \in Seq(StepSet), NEW s \in States, NEW t \in States, Runs(p, s, t),
         NEW x \in Seq(Byte), NEW c \in Nat
  PROVE  /\ Deeper(p) \in Seq(StepSet) /\ Len(Deeper(p)) = Len(p)
         /\ \A k \in 1 .. Len(p) : Returned(Deeper(p)[k]) = 0
         /\ Runs(Deeper(p), Lift(s, x, c), Lift(t, x, c))
<1> DEFINE F == Len(p)
           q == Deeper(p)
<1>1. F \in Nat /\ DOMAIN p = 1 .. F /\ \A k \in 1 .. F : p[k] \in StepSet
  BY LenProperties, ElementOfSeq
<1>2. PICK r \in [0 .. F -> States] : Walk(r, p, s, t)
  BY DEF Runs
<1> DEFINE r2 == [k \in 0 .. F |-> Lift(r[k], x, c)]
<1>3. q = [k \in 1 .. F |-> Down(p[k])]
  BY <1>1 DEF Deeper, Down
<1>4. ASSUME NEW k \in 1 .. F
      PROVE  /\ q[k] \in StepSet /\ Allowed(r2[k - 1], q[k]) /\ Returned(q[k]) = 0
             /\ r2[k] = After(r2[k - 1], q[k])
  <2>1. k \in 0 .. F /\ k - 1 \in 0 .. F
    <3> HIDE DEF F
    <3> QED
      BY <1>1
  <2>2. Allowed(r[k - 1], p[k]) /\ r[k] = After(r[k - 1], p[k]) /\ r[k - 1] \in States /\ p[k] \in StepSet
    BY <1>1, <1>2, <2>1 DEF Walk
  <2>3. /\ Down(p[k]) \in StepSet /\ Allowed(Lift(r[k - 1], x, c), Down(p[k])) /\ Returned(Down(p[k])) = 0
        /\ After(Lift(r[k - 1], x, c), Down(p[k])) = Lift(After(r[k - 1], p[k]), x, c)
    BY <2>2, LiftedStep
  <2>4. q[k] = Down(p[k]) /\ r2[k] = Lift(r[k], x, c) /\ r2[k - 1] = Lift(r[k - 1], x, c)
    BY <1>3, <2>1
  <2> HIDE DEF q, r2, F
  <2> QED
    BY <2>2, <2>3, <2>4
<1>5. q \in [1 .. F -> StepSet]
  BY <1>3, <1>4
<1>6. r2 \in [0 .. F -> States]
  <2> SUFFICES ASSUME NEW k \in 0 .. F PROVE Lift(r[k], x, c) \in States
    OBVIOUS
  <2>1. r[k] \in States
    BY <1>2
  <2> QED
    BY <2>1, LiftState
<1>7. r2[0] = Lift(s, x, c) /\ r2[F] = Lift(t, x, c)
  <2>1. 0 \in 0 .. F /\ F \in 0 .. F
    <3> HIDE DEF F
    <3> QED
      BY <1>1
  <2>2. r[0] = s /\ r[F] = t
    BY <1>2 DEF Walk
  <2> QED
    BY <2>1, <2>2
<1> HIDE DEF r2, q, F
<1>8. q \in Seq(StepSet) /\ Len(q) = F
  BY <1>1, <1>5, FunctionIsSeq
<1>9. Walk(r2, q, Lift(s, x, c), Lift(t, x, c))
  BY <1>4, <1>7, <1>8 DEF Walk
<1>10. Runs(q, Lift(s, x, c), Lift(t, x, c))
  BY <1>6, <1>8, <1>9 DEF Runs
<1> QED
  BY <1>4, <1>8, <1>10 DEF q, F
-----------------------------------------------------------------------------
(* Steps that append bytes to a buffer.                                    *)

\* What the steps return to the function that does them.
Sublen(p) == SumOf([k \in DOMAIN p |-> Returned(p[k])])

\* One buffer, holding a, for which n was returned.
Holding(s, a, n) == s \in States /\ s.h = 1 /\ s.data[0] = a /\ s.n = n

\* The steps append b to any buffer with room for it in a length, and return its length.
Does(p, b) ==
  /\ p \in Seq(StepSet) /\ b \in Seq(Byte) /\ Sublen(p) = Len(b)
  /\ \A s \in States : s.h = 1 /\ Len(s.data[0]) + Len(b) < U32 =>
       \E t \in States : Runs(p, s, t) /\ Holding(t, s.data[0] \o b, s.n + Len(b))

\* No steps append nothing.
LEMMA DoesNothing == Does(<<>>, <<>>)
<1>1. <<>> \in Seq(StepSet) /\ <<>> \in Seq(Byte) /\ Len(<<>>) = 0
  BY EmptySeq
<1>2. Sublen(<<>>) = 0
  <2>1. [k \in DOMAIN <<>> |-> Returned(<<>>[k])] = <<>>
    OBVIOUS
  <2> QED
    BY <2>1, SumEmpty DEF Sublen
<1>3. ASSUME NEW s \in States, s.h = 1
      PROVE  Runs(<<>>, s, s) /\ Holding(s, s.data[0] \o <<>>, s.n + 0)
  <2>1. s.data[0] \in Seq(Byte) /\ s.n \in Nat
    BY DEF States
  <2>2. s.data[0] \o <<>> = s.data[0] /\ s.n + 0 = s.n
    BY <2>1, ConcatEmptySeq
  <2> QED
    BY <1>3, <2>2, RunsNone DEF Holding
<1> QED
  BY <1>1, <1>2, <1>3 DEF Does

\* What steps and then others return.
LEMMA SublenBoth ==
  ASSUME NEW p \in Seq(StepSet), NEW q \in Seq(StepSet)
  PROVE  /\ Sublen(p \o q) = Sublen(p) + Sublen(q)
         /\ Sublen(p) \in Nat /\ Sublen(q) \in Nat
<1> DEFINE F == Len(p)
           G == Len(q)
           R(x) == [k \in DOMAIN x |-> Returned(x[k])]
<1>1. \A x \in StepSet : Returned(x) \in Nat
  BY DEF Returned, StepSet
<1>2. /\ F \in Nat /\ DOMAIN p = 1 .. F /\ \A k \in 1 .. F : p[k] \in StepSet
      /\ G \in Nat /\ DOMAIN q = 1 .. G /\ \A k \in 1 .. G : q[k] \in StepSet
  BY LenProperties, ElementOfSeq
<1> DEFINE b == p \o q
<1>3. /\ b \in Seq(StepSet) /\ Len(b) = F + G
      /\ \A k \in 1 .. F + G : b[k] = IF k <= F THEN p[k] ELSE q[k - F]
  BY ConcatProperties
<1> HIDE DEF F, G, b
<1>4. DOMAIN b = 1 .. F + G /\ \A k \in 1 .. F + G : b[k] \in StepSet
  BY <1>3, LenProperties, ElementOfSeq
<1>5. R(p) \in [1 .. F -> Nat] /\ R(q) \in [1 .. G -> Nat] /\ R(b) \in [1 .. F + G -> Nat]
  BY <1>1, <1>2, <1>4
<1>6. \A k \in 1 .. F : R(b)[k] = R(p)[k]
  <2> TAKE k \in 1 .. F
  <2>1. k \in 1 .. F + G /\ k <= F
    BY <1>2
  <2>2. b[k] = p[k]
    BY <1>3, <2>1
  <2> QED
    BY <1>2, <1>4, <2>1, <2>2
<1>7. \A k \in 1 .. G : R(b)[F + k] = R(q)[k]
  <2> TAKE k \in 1 .. G
  <2>1. F + k \in 1 .. F + G /\ ~(F + k <= F) /\ (F + k) - F = k
    BY <1>2
  <2>2. b[F + k] = q[k]
    BY <1>3, <2>1
  <2> QED
    BY <1>2, <1>4, <2>1, <2>2
<1>8. Sublen(b) = SumOf(R(b)) /\ Sublen(p) = SumOf(R(p)) /\ Sublen(q) = SumOf(R(q))
  BY DEF Sublen
<1> DEFINE rp == R(p)
           rq == R(q)
           rb == R(b)
<1> HIDE DEF rp, rq, rb
<1>9. Joined(rb, rp, rq) /\ rp \in Seq(Nat) /\ rq \in Seq(Nat)
  <2>1. rp \in [1 .. F -> Nat] /\ rq \in [1 .. G -> Nat] /\ rb \in [1 .. F + G -> Nat]
    BY <1>5 DEF rp, rq, rb
  <2>2. (\A k \in 1 .. F : rb[k] = rp[k]) /\ \A k \in 1 .. G : rb[F + k] = rq[k]
    BY <1>6, <1>7 DEF rp, rq, rb
  <2>3. Joined(rb, rp, rq)
    BY <1>2, <2>1, <2>2, BothAsOne
  <2> QED
    BY <1>2, <2>1, <2>3, FunctionIsSeq
<1>10. SumOf(rb) = SumOf(rp) + SumOf(rq)
  BY <1>9, SumBoth DEF Joined
<1>11. SumOf(rp) \in Nat /\ SumOf(rq) \in Nat
  BY <1>9, SumNat
<1> QED
  BY <1>8, <1>10, <1>11 DEF rp, rq, rb, b

\* Steps and then others.
LEMMA DoesBoth ==
  ASSUME NEW p, NEW q, NEW a, NEW b, Does(p, a), Does(q, b)
  PROVE  Does(p \o q, a \o b)
<1>1. p \in Seq(StepSet) /\ q \in Seq(StepSet) /\ a \in Seq(Byte) /\ b \in Seq(Byte)
  BY DEF Does
<1>2. p \o q \in Seq(StepSet) /\ a \o b \in Seq(Byte) /\ Len(a \o b) = Len(a) + Len(b)
  BY <1>1, ConcatProperties
<1>3. Len(a) \in Nat /\ Len(b) \in Nat /\ U32 \in Nat
  BY <1>1, LenProperties, PowerFacts
<1>4. Sublen(p \o q) = Len(a \o b)
  BY <1>1, <1>2, SublenBoth DEF Does
<1>5. ASSUME NEW s \in States, s.h = 1, Len(s.data[0]) + Len(a \o b) < U32
      PROVE  \E t \in States : Runs(p \o q, s, t) /\ Holding(t, s.data[0] \o (a \o b), s.n + Len(a \o b))
  <2> DEFINE x == s.data[0]
             n == s.n
             la == Len(a)
             lb == Len(b)
             lx == Len(x)
  <2>1. x \in Seq(Byte) /\ n \in Nat
    BY DEF States
  <2>2. lx \in Nat
    BY <2>1, LenProperties
  <2>3. lx + la < U32
    <3>1. lx + (la + lb) < U32
      BY <1>2, <1>5
    <3> HIDE DEF lx, la, lb
    <3>2. la \in Nat /\ lb \in Nat
      BY <1>3 DEF la, lb
    <3> QED
      BY <1>3, <2>2, <3>1, <3>2
  <2>4. PICK t \in States : Runs(p, s, t) /\ Holding(t, x \o a, n + la)
    BY <1>5, <2>3 DEF Does
  <2>5. t.h = 1 /\ t.data[0] = x \o a /\ t.n = n + la
    BY <2>4 DEF Holding
  <2>6. Len(x \o a) = lx + la
    BY <1>1, <2>1, ConcatProperties
  <2>7. Len(t.data[0]) + lb < U32
    <3>1. lx + (la + lb) < U32
      BY <1>2, <1>5
    <3>2. Len(t.data[0]) = lx + la
      BY <2>5, <2>6
    <3> HIDE DEF lx, la, lb
    <3>3. la \in Nat /\ lb \in Nat
      BY <1>3 DEF la, lb
    <3> QED
      BY <1>3, <2>2, <3>1, <3>2, <3>3
  <2>8. PICK u \in States : Runs(q, t, u) /\ Holding(u, t.data[0] \o b, t.n + lb)
    BY <2>5, <2>7 DEF Does
  <2>9. Runs(p \o q, s, u)
    BY <1>1, <2>4, <2>8, RunsBoth
  <2>10. (x \o a) \o b = x \o (a \o b)
    <3> HIDE DEF x
    <3> QED
      BY SMTT(60), <1>1, <2>1, ConcatAssociative
  <2>11. (n + la) + lb = n + Len(a \o b)
    <3>1. Len(a \o b) = la + lb
      BY <1>2
    <3> HIDE DEF la, lb, n
    <3>2. la \in Nat /\ lb \in Nat /\ n \in Nat
      BY <1>3, <2>1 DEF la, lb, n
    <3> QED
      BY <3>1, <3>2
  <2>12. t.data[0] \o b = x \o (a \o b) /\ t.n + lb = n + Len(a \o b)
    BY <2>5, <2>10, <2>11
  <2>13. Holding(u, x \o (a \o b), n + Len(a \o b))
    BY <2>8, <2>12
  <2> QED
    BY <2>9, <2>13
<1> QED
  BY <1>1, <1>2, <1>4, <1>5 DEF Does

\* One append.
LEMMA DoesAppend ==
  ASSUME NEW bytes \in Seq(Byte)
  PROVE  Does(<<Appending(bytes)>>, bytes) /\ Appending(bytes) \in StepSet
<1> DEFINE x == Appending(bytes)
           l == Len(bytes)
<1>1. l \in Nat /\ U32 \in Nat
  BY LenProperties, PowerFacts
<1>2. x.do = "append" /\ x.depth = 0 /\ x.bytes = bytes /\ x.len = l /\ x \in StepSet
  BY <1>1 DEF Appending, StepSet
<1>3. Returned(x) = l /\ At(x) = 0
  BY <1>2 DEF Returned, At
<1> HIDE DEF x
<1>4. <<x>> \in Seq(StepSet) /\ DOMAIN <<x>> = 1 .. 1 /\ <<x>>[1] = x
  BY <1>2
<1>5. Sublen(<<x>>) = l
  <2>1. [k \in DOMAIN <<x>> |-> Returned(<<x>>[k])] = Append(<<>>, l)
    BY <1>3, <1>4
  <2>2. <<>> \in Seq(Nat) /\ SumOf(Append(<<>>, l)) = SumOf(<<>>) + l /\ SumOf(<<>>) = 0
    BY <1>1, EmptySeq, SumAppend, SumEmpty
  <2>3. 0 + l = l
    BY <1>1
  <2> QED
    BY <2>1, <2>2, <2>3 DEF Sublen
<1>6. ASSUME NEW s \in States, s.h = 1, Len(s.data[0]) + l < U32
      PROVE  \E t \in States : Runs(<<x>>, s, t) /\ Holding(t, s.data[0] \o bytes, s.n + l)
  <2>1. s.data \in [Nat -> Seq(Byte)] /\ s.data[0] \in Seq(Byte)
    BY DEF States
  <2>2. New(s, x) = s.data[0] \o bytes
    BY <1>2 DEF New
  <2>3. Len(New(s, x)) = Len(s.data[0]) + l
    BY <2>1, <2>2, ConcatProperties
  <2>4. Allowed(s, x)
    <3>1. x.do # "open" /\ x.do # "join" /\ 0 < s.h
      BY <1>2, <1>6
    <3>2. Len(New(s, x)) < U32
      BY <1>6, <2>3
    <3> QED
      BY <1>2, <3>1, <3>2 DEF Allowed
  <2> DEFINE t == After(s, x)
  <2>5. t \in States /\ Runs(<<x>>, s, t)
    BY <1>2, <2>4, AfterState, RunsOne
  <2>6. t.h = 1 /\ t.n = s.n + l /\ t.data = [s.data EXCEPT ![0] = s.data[0] \o bytes]
    BY <1>2, <1>3, <1>6, <2>2 DEF After, Height
  <2>7. t.data[0] = s.data[0] \o bytes
    BY <2>1, <2>6
  <2> HIDE DEF t
  <2>8. Holding(t, s.data[0] \o bytes, s.n + l)
    BY <2>5, <2>6, <2>7 DEF Holding
  <2> QED
    BY <2>5, <2>8
<1> QED
  BY <1>2, <1>4, <1>5, <1>6 DEF Does, x

\* Several runs of steps, for as many pieces.
LEMMA DoesAll ==
  ASSUME NEW n \in Nat, NEW ps, NEW bs, \A k \in 1 .. n : Does(ps[k], bs[k])
  PROVE  Does(Concat([k \in 1 .. n |-> ps[k]]), Concat([k \in 1 .. n |-> bs[k]]))
<1> DEFINE P(j) == [k \in 1 .. j |-> ps[k]]
           Q(j) == [k \in 1 .. j |-> bs[k]]
           Bad == {j \in 0 .. n : ~Does(Concat(P(j)), Concat(Q(j)))}
<1>1. \A k \in 1 .. n : ps[k] \in Seq(StepSet) /\ bs[k] \in Seq(Byte)
  BY DEF Does
<1>2. ASSUME NEW j \in 0 .. n
      PROVE  P(j) \in [1 .. j -> Seq(StepSet)] /\ Q(j) \in [1 .. j -> Seq(Byte)]
  BY <1>1
<1>3. Does(Concat(P(0)), Concat(Q(0)))
  <2>1. P(0) = <<>> /\ Q(0) = <<>>
    OBVIOUS
  <2>2. Concat(<<>>) = <<>>
    BY FlattenEmpty DEF Concat
  <2> HIDE DEF P, Q
  <2> QED
    BY <2>1, <2>2, DoesNothing
<1>4. ASSUME NEW j \in 0 .. n, j + 1 <= n, Does(Concat(P(j)), Concat(Q(j)))
      PROVE  Does(Concat(P(j + 1)), Concat(Q(j + 1)))
  <2>1. j + 1 \in 0 .. n /\ j + 1 \in 1 .. j + 1 /\ j + 1 \in 1 .. n /\ j \in Nat
    BY <1>4
  <2> DEFINE p == P(j)
             q == Q(j)
             p1 == P(j + 1)
             q1 == Q(j + 1)
  <2>2. /\ p \in [1 .. j -> Seq(StepSet)] /\ q \in [1 .. j -> Seq(Byte)]
        /\ p1 \in [1 .. j + 1 -> Seq(StepSet)] /\ q1 \in [1 .. j + 1 -> Seq(Byte)]
    <3> HIDE DEF P, Q
    <3> QED
      BY <1>2, <2>1
  <2>3. \A k \in 1 .. j : p1[k] = p[k] /\ q1[k] = q[k]
    <3>1. \A k \in 1 .. j : k \in 1 .. j + 1
      BY <2>1
    <3> QED
      BY <3>1
  <2>4. p1[j + 1] = ps[j + 1] /\ q1[j + 1] = bs[j + 1]
    BY <2>1
  <2> HIDE DEF p, q, p1, q1
  <2>5. p1 = Append(p, p1[j + 1])
    BY <2>1, <2>2, <2>3, OneMore
  <2>6. q1 = Append(q, q1[j + 1])
    BY <2>1, <2>2, <2>3, OneMore
  <2>7. p \in Seq(Seq(StepSet)) /\ q \in Seq(Seq(Byte))
    BY <2>1, <2>2, FunctionIsSeq
  <2>8. Concat(p1) = Concat(p) \o ps[j + 1]
    <3>1. ps[j + 1] \in Seq(StepSet)
      BY <1>1, <2>1
    <3> QED
      BY <2>4, <2>5, <2>7, <3>1, FlattenAppend DEF Concat
  <2>9. Concat(q1) = Concat(q) \o bs[j + 1]
    <3>1. bs[j + 1] \in Seq(Byte)
      BY <1>1, <2>1
    <3> QED
      BY <2>4, <2>6, <2>7, <3>1, FlattenAppend DEF Concat
  <2>10. Does(Concat(p), Concat(q)) /\ Does(ps[j + 1], bs[j + 1])
    BY <1>4, <2>1 DEF p, q
  <2>11. Does(Concat(p) \o ps[j + 1], Concat(q) \o bs[j + 1])
    BY <2>10, DoesBoth
  <2> QED
    BY <2>8, <2>9, <2>11 DEF p1, q1
<1>5. Bad \in SUBSET Nat
  OBVIOUS
<1>6. ASSUME NEW j \in Bad, \A y \in Bad : j <= y PROVE FALSE
  <2> HIDE DEF P, Q
  <2>1. j \in 0 .. n /\ j # 0
    BY <1>3
  <2>2. j - 1 \in 0 .. n /\ (j - 1) + 1 = j /\ ~(j <= j - 1)
    BY <2>1
  <2>3. Does(Concat(P(j - 1)), Concat(Q(j - 1)))
    BY <1>6, <2>2
  <2>4. (j - 1) + 1 <= n
    BY <2>1
  <2>5. Does(Concat(P((j - 1) + 1)), Concat(Q((j - 1) + 1)))
    BY <1>4, <2>2, <2>3, <2>4
  <2>6. Does(Concat(P(j)), Concat(Q(j)))
    BY <2>2, <2>5
  <2> QED
    BY <2>6
<1>7. Bad = {}
  <2> HIDE DEF Bad
  <2> QED
    BY <1>5, <1>6, SmallestExists
<1>8. n \in 0 .. n
  OBVIOUS
<1>9. Does(Concat(P(n)), Concat(Q(n)))
  <2> HIDE DEF P, Q
  <2> QED
    BY <1>7, <1>8
<1> QED
  BY <1>9

\* One append for each piece.
LEMMA DoesEach ==
  ASSUME NEW n \in Nat, NEW bs, \A k \in 1 .. n : bs[k] \in Seq(Byte)
  PROVE  Does([k \in 1 .. n |-> Appending(bs[k])], Concat([k \in 1 .. n |-> bs[k]]))
<1> DEFINE P(j) == [k \in 1 .. j |-> Appending(bs[k])]
           Q(j) == [k \in 1 .. j |-> bs[k]]
           Bad == {j \in 0 .. n : ~Does(P(j), Concat(Q(j)))}
<1>2. ASSUME NEW j \in 0 .. n
      PROVE  P(j) \in [1 .. j -> StepSet] /\ Q(j) \in [1 .. j -> Seq(Byte)]
  <2>1. ASSUME NEW k \in 1 .. j PROVE bs[k] \in Seq(Byte) /\ Appending(bs[k]) \in StepSet
    <3>1. bs[k] \in Seq(Byte)
      OBVIOUS
    <3> QED
      BY <3>1, DoesAppend
  <2> QED
    BY <2>1
<1>3. Does(P(0), Concat(Q(0)))
  <2>1. P(0) = <<>> /\ Q(0) = <<>>
    OBVIOUS
  <2>2. Concat(<<>>) = <<>>
    BY FlattenEmpty DEF Concat
  <2> HIDE DEF P, Q
  <2> QED
    BY <2>1, <2>2, DoesNothing
<1>4. ASSUME NEW j \in 0 .. n, j + 1 <= n, Does(P(j), Concat(Q(j)))
      PROVE  Does(P(j + 1), Concat(Q(j + 1)))
  <2>1. j + 1 \in 0 .. n /\ j + 1 \in 1 .. j + 1 /\ j + 1 \in 1 .. n /\ j \in Nat
    BY <1>4
  <2> DEFINE p == P(j)
             q == Q(j)
             p1 == P(j + 1)
             q1 == Q(j + 1)
             x == Appending(bs[j + 1])
  <2>2. /\ p \in [1 .. j -> StepSet] /\ q \in [1 .. j -> Seq(Byte)]
        /\ p1 \in [1 .. j + 1 -> StepSet] /\ q1 \in [1 .. j + 1 -> Seq(Byte)]
    <3> HIDE DEF P, Q
    <3> QED
      BY <1>2, <2>1
  <2>3. \A k \in 1 .. j : p1[k] = p[k] /\ q1[k] = q[k]
    <3>1. \A k \in 1 .. j : k \in 1 .. j + 1
      BY <2>1
    <3> QED
      BY <3>1
  <2>4. p1[j + 1] = x /\ q1[j + 1] = bs[j + 1]
    BY <2>1
  <2>5. bs[j + 1] \in Seq(Byte) /\ x \in StepSet /\ Does(<<x>>, bs[j + 1])
    BY <2>1, DoesAppend
  <2> HIDE DEF p, q, p1, q1, x
  <2>6. p1 = Append(p, x)
    BY <2>1, <2>2, <2>3, <2>4, OneMore
  <2>7. q1 = Append(q, bs[j + 1])
    BY <2>1, <2>2, <2>3, <2>4, OneMore
  <2>8. p \in Seq(StepSet) /\ q \in Seq(Seq(Byte))
    BY <2>1, <2>2, FunctionIsSeq
  <2>9. Concat(q1) = Concat(q) \o bs[j + 1]
    BY <2>5, <2>7, <2>8, FlattenAppend DEF Concat
  <2>10. p1 = p \o <<x>>
    BY <2>5, <2>6, <2>8, AppendIsConcat
  <2>11. Does(p, Concat(q))
    BY <1>4 DEF p, q
  <2>12. Does(p \o <<x>>, Concat(q) \o bs[j + 1])
    BY <2>5, <2>11, DoesBoth
  <2> QED
    BY <2>9, <2>10, <2>12 DEF p1, q1
<1>5. Bad \in SUBSET Nat
  OBVIOUS
<1>6. ASSUME NEW j \in Bad, \A y \in Bad : j <= y PROVE FALSE
  <2> HIDE DEF P, Q
  <2>1. j \in 0 .. n /\ j # 0
    BY <1>3
  <2>2. j - 1 \in 0 .. n /\ (j - 1) + 1 = j /\ ~(j <= j - 1)
    BY <2>1
  <2>3. Does(P(j - 1), Concat(Q(j - 1)))
    BY <1>6, <2>2
  <2>4. (j - 1) + 1 <= n
    BY <2>1
  <2>5. Does(P((j - 1) + 1), Concat(Q((j - 1) + 1)))
    BY <1>4, <2>2, <2>3, <2>4
  <2>6. Does(P(j), Concat(Q(j)))
    BY <2>2, <2>5
  <2> QED
    BY <2>6
<1>7. Bad = {}
  <2> HIDE DEF Bad
  <2> QED
    BY <1>5, <1>6, SmallestExists
<1>8. n \in 0 .. n
  OBVIOUS
<1>9. Does(P(n), Concat(Q(n)))
  <2> HIDE DEF P, Q
  <2> QED
    BY <1>7, <1>8
<1> QED
  BY <1>9

\* What a step leaves.
LEMMA OneStep ==
  ASSUME NEW s \in States, NEW step \in StepSet, Allowed(s, step), NEW t, t = After(s, step)
  PROVE  /\ t \in States /\ Runs(<<step>>, s, t) /\ t.h = Height(s, step) /\ t.n = s.n + Returned(step)
         /\ \A k \in Nat : t.data[k] = IF k = At(step) THEN New(s, step) ELSE s.data[k]
<1>1. t \in States /\ Runs(<<step>>, s, t) /\ At(step) \in Nat
  BY AfterState, RunsOne
<1>2. t.h = Height(s, step) /\ t.n = s.n + Returned(step)
      /\ t.data = [s.data EXCEPT ![At(step)] = New(s, step)]
  BY DEF After
<1>3. s.data \in [Nat -> Seq(Byte)]
  BY DEF States
<1> QED
  BY <1>1, <1>2, <1>3

\* What a step returns.
LEMMA SublenOne ==
  ASSUME NEW step \in StepSet
  PROVE  Sublen(<<step>>) = Returned(step) /\ <<step>> \in Seq(StepSet) /\ Returned(step) \in Nat
<1>1. Returned(step) \in Nat
  BY DEF Returned, StepSet
<1> DEFINE n == Returned(step)
<1> HIDE DEF n
<1>2. n \in Nat
  BY <1>1 DEF n
<1>3. [k \in DOMAIN <<step>> |-> Returned(<<step>>[k])] = Append(<<>>, n)
  BY DEF n
<1>4. <<>> \in Seq(Nat) /\ SumOf(Append(<<>>, n)) = SumOf(<<>>) + n /\ SumOf(<<>>) = 0
  BY <1>2, EmptySeq, SumAppend, SumEmpty
<1>5. 0 + n = n
  BY <1>2
<1> QED
  BY <1>1, <1>3, <1>4, <1>5 DEF Sublen, n

\* Steps that return nothing.
LEMMA SublenZero ==
  ASSUME NEW p \in Seq(StepSet), \A k \in 1 .. Len(p) : Returned(p[k]) = 0
  PROVE  Sublen(p) = 0
<1> DEFINE F == Len(p)
           r == [k \in DOMAIN p |-> Returned(p[k])]
<1>1. F \in Nat /\ DOMAIN p = 1 .. F
  BY LenProperties
<1> HIDE DEF F
<1>2. r \in [1 .. F -> Nat] /\ \A k \in 1 .. F : r[k] = 0
  BY <1>1 DEF F
<1> HIDE DEF r
<1>3. r \in Seq(Nat) /\ Len(r) = F
  BY <1>1, <1>2, FunctionIsSeq
<1>4. 0 * Len(r) <= SumOf(r) /\ SumOf(r) <= 0 * Len(r)
  <2>1. \A k \in 1 .. Len(r) : 0 <= r[k] /\ r[k] <= 0
    BY <1>2, <1>3
  <2> QED
    BY <1>3, <2>1, SumBounds
<1>5. SumOf(r) \in Nat
  BY <1>3, SumNat
<1>6. 0 * Len(r) = 0
  BY <1>1, <1>3
<1>7. SumOf(r) = 0
  BY <1>4, <1>5, <1>6
<1> QED
  BY <1>7 DEF Sublen, r

\* A stack with more than one buffer is that of a message within a message.
LEMMA LiftOf ==
  ASSUME NEW u \in States, NEW h \in Nat, u.h = h + 1
  PROVE  \E s \in States : /\ s.h = h /\ u = Lift(s, u.data[0], u.n)
                           /\ \A k \in Nat : s.data[k] = u.data[k + 1]
<1> DEFINE g == u.data
           c == u.n
           f == [k \in Nat |-> g[k + 1]]
           s == [h |-> h, data |-> f, n |-> 0]
           v == [k \in Nat |-> IF k = 0 THEN g[0] ELSE f[k - 1]]
<1>1. g \in [Nat -> Seq(Byte)] /\ c \in Nat /\ u = [h |-> h + 1, data |-> g, n |-> c]
  BY DEF States
<1> HIDE DEF g, c
<1>2. f \in [Nat -> Seq(Byte)]
  <2>1. \A k \in Nat : k + 1 \in Nat
    OBVIOUS
  <2> QED
    BY <1>1, <2>1
<1>3. s \in States
  BY <1>2 DEF States
<1>4. v = g
  <2>1. ASSUME NEW k \in Nat PROVE v[k] = g[k]
    <3>1. CASE k = 0
      BY <3>1
    <3>2. CASE k # 0
      <4>1. k - 1 \in Nat /\ (k - 1) + 1 = k
        BY <3>2
      <4> QED
        BY <3>2, <4>1
    <3> QED
      BY <3>1, <3>2
  <2>2. v = [k \in Nat |-> v[k]] /\ g = [k \in Nat |-> g[k]]
    BY <1>1
  <2> HIDE DEF v
  <2> QED
    BY <2>1, <2>2
<1>5. Lift(s, g[0], c) = [h |-> h + 1, data |-> v, n |-> c]
  BY DEF Lift
<1>6. u = Lift(s, g[0], c)
  BY <1>1, <1>4, <1>5
<1> QED
  BY <1>3, <1>6 DEF g, c

\* Steps one message down return nothing to the function outside.
LEMMA DeeperSteps ==
  ASSUME NEW p \in Seq(StepSet)
  PROVE  Deeper(p) \in Seq(StepSet) /\ Sublen(Deeper(p)) = 0
<1> DEFINE F == Len(p)
           q == Deeper(p)
<1>1. F \in Nat /\ DOMAIN p = 1 .. F /\ \A k \in 1 .. F : p[k] \in StepSet
  BY LenProperties, ElementOfSeq
<1>2. q = [k \in 1 .. F |-> Down(p[k])]
  BY <1>1 DEF Deeper, Down
<1>3. ASSUME NEW step \in StepSet PROVE Down(step) \in StepSet /\ Returned(Down(step)) = 0
  <2>1. step.depth \in Nat
    BY DEF StepSet
  <2>2. step.depth + 1 \in Nat /\ step.depth + 1 # 0
    BY <2>1
  <2>3. Down(step).depth = step.depth + 1 /\ Down(step) \in StepSet
    BY <2>2 DEF Down, StepSet
  <2> QED
    BY <2>2, <2>3 DEF Returned
<1>4. q \in [1 .. F -> StepSet] /\ \A k \in 1 .. F : Returned(q[k]) = 0
  BY <1>1, <1>2, <1>3
<1> HIDE DEF q, F
<1>5. q \in Seq(StepSet) /\ Len(q) = F
  BY <1>1, <1>4, FunctionIsSeq
<1>6. Sublen(q) = 0
  BY <1>4, <1>5, SublenZero
<1> QED
  BY <1>5, <1>6 DEF q

\* A message in a message: its steps fill a buffer of their own, which is then joined
\* to the one around it, with a tag and a length in front.
LEMMA NestedDoes ==
  ASSUME NEW f, IsField(f), NEW steps, NEW body, Does(steps, body), Len(body) < U32
  PROVE  Does(MessageAppends(f, steps), (Tag(f.id, 2) \o uint32_pack(Len(body))) \o body)
<1> DEFINE l == Len(body)
           tl == Tag(f.id, 2) \o uint32_pack(l)
           A == Appending(tl)
           J == Joining(l)
           D == Deeper(steps)
           L == Len(tl)
<1>1. steps \in Seq(StepSet) /\ body \in Seq(Byte) /\ Sublen(steps) = l
  BY DEF Does
<1>2. l \in Nat /\ U32 \in Nat
  BY <1>1, LenProperties, PowerFacts
<1>3. tl \in Seq(Byte)
  <2>1. uint32_pack(l) \in Seq(Byte)
    <3> HIDE DEF l
    <3>1. Writes(Byte, l)
      BY DEF Writes, l
    <3> QED
      BY <1>2, <3>1, LengthBytes
  <2>2. Tag(f.id, 2) \in Seq(Byte)
    BY FieldTag
  <2> QED
    BY <2>1, <2>2, ConcatProperties
<1>4. MessageAppends(f, steps) = (<<Opening>> \o D) \o <<A, J>>
  BY <1>1 DEF MessageAppends, Sublen
<1>5. L \in Nat
  BY <1>3, LenProperties
<1>6. /\ Opening \in StepSet /\ Opening.do = "open" /\ Opening.depth = 0 /\ Opening.len = 0
      /\ J \in StepSet /\ J.do = "join" /\ J.depth = 0 /\ J.len = l
  BY <1>2, EmptySeq DEF Opening, Joining, StepSet
<1>7. A \in StepSet /\ A.do = "append" /\ A.depth = 0 /\ A.len = L /\ A.bytes = tl
  BY <1>3, DoesAppend DEF Appending
<1>8. /\ Returned(Opening) = 0 /\ At(Opening) = 1
      /\ Returned(J) = l /\ At(J) = 0 /\ Returned(A) = L /\ At(A) = 0
  BY <1>6, <1>7 DEF Returned, At
<1>9. <<A, J>> = <<A>> \o <<J>>
  OBVIOUS
<1> HIDE DEF l, tl, A, J, D, L
<1>10. ASSUME NEW s \in States, s.h = 1, Len(s.data[0]) + (L + l) < U32
       PROVE  \E t \in States : /\ Runs((<<Opening>> \o D) \o (<<A>> \o <<J>>), s, t)
                                /\ Holding(t, (s.data[0] \o tl) \o body, (s.n + L) + l)
  <2> DEFINE x == s.data[0]
             n == s.n
             s1 == After(s, Opening)
  <2>1. x \in Seq(Byte) /\ n \in Nat /\ Len(x) \in Nat
    <3>1. x \in Seq(Byte) /\ n \in Nat
      BY DEF States
    <3> QED
      BY <3>1, LenProperties
  <2>2. Allowed(s, Opening)
    <3>1. New(s, Opening) = <<>> /\ Len(<<>>) = 0
      BY <1>6 DEF New
    <3>2. 0 < U32
      BY PowerFacts
    <3> QED
      BY <1>6, <1>10, <3>1, <3>2 DEF Allowed
  <2>3. /\ s1 \in States /\ Runs(<<Opening>>, s, s1) /\ s1.h = 2 /\ s1.n = n
        /\ s1.data[0] = x /\ s1.data[1] = <<>>
    <3>1. /\ s1 \in States /\ Runs(<<Opening>>, s, s1) /\ s1.h = Height(s, Opening)
          /\ s1.n = n + Returned(Opening)
          /\ \A k \in Nat : s1.data[k] = IF k = 1 THEN New(s, Opening) ELSE s.data[k]
      BY <1>6, <1>8, <2>2, OneStep
    <3>2. New(s, Opening) = <<>> /\ Height(s, Opening) = 2
      BY <1>6, <1>10 DEF New, Height
    <3> HIDE DEF s1, n
    <3> QED
      BY <1>8, <2>1, <3>1, <3>2
  <2> HIDE DEF s1
  <2>4. PICK s0 \in States : s0.h = 1 /\ s1 = Lift(s0, x, n) /\ \A k \in Nat : s0.data[k] = s1.data[k + 1]
    <3>1. s1.h = 1 + 1
      BY <2>3
    <3> QED
      BY <2>3, <3>1, LiftOf
  <2>5. PICK t0 \in States : Runs(steps, s0, t0) /\ Holding(t0, s0.data[0] \o body, s0.n + l)
    <3>1. s0.data[0] = <<>>
      <4>1. 0 + 1 = 1
        OBVIOUS
      <4> QED
        BY <2>3, <2>4, <4>1
    <3>2. Len(s0.data[0]) + l < U32
      BY <1>2, <3>1 DEF l
    <3> QED
      BY <2>4, <3>2 DEF Does, l
  <2>6. t0.h = 1 /\ t0.data[0] = body
    <3>1. s0.data[0] = <<>>
      <4>1. 0 + 1 = 1
        OBVIOUS
      <4> QED
        BY <2>3, <2>4, <4>1
    <3>2. <<>> \o body = body
      BY <1>1, ConcatEmptySeq
    <3> QED
      BY <2>5, <3>1, <3>2 DEF Holding
  <2> DEFINE s2 == Lift(t0, x, n)
  <2>7. D \in Seq(StepSet) /\ Runs(D, s1, s2)
    BY <1>1, <2>1, <2>4, <2>5, RunsLifted DEF D
  <2>8. s2 \in States /\ s2.h = 2 /\ s2.n = n /\ s2.data[0] = x /\ s2.data[1] = body
    <3>1. /\ s2 \in States /\ s2.h = t0.h + 1 /\ s2.n = n /\ s2.data[0] = x
          /\ \A k \in Nat : s2.data[k + 1] = t0.data[k]
      <4> DEFINE a == x
                 c == n
      <4>1. a \in Seq(Byte) /\ c \in Nat /\ t0 \in States
        BY <2>1, <2>5
      <4> HIDE DEF a, c
      <4>2. Lifted(Lift(t0, a, c), t0, a, c)
        BY <4>1, LiftIs, Zenon
      <4>3. Lifted(s2, t0, x, n)
        BY <4>2 DEF a, c
      <4> HIDE DEF s2
      <4> QED
        BY <4>3 DEF Lifted
    <3>2. 0 + 1 = 1 /\ s2.data[0 + 1] = t0.data[0]
      BY <3>1
    <3> QED
      BY <2>6, <3>1, <3>2
  <2> HIDE DEF s2, x
  <2> DEFINE s3 == After(s2, A)
  <2>9. x \o tl \in Seq(Byte) /\ Len(x \o tl) = Len(x) + L
    BY <1>3, <2>1, ConcatProperties DEF L
  <2>10. /\ s3 \in States /\ Runs(<<A>>, s2, s3) /\ s3.h = 2 /\ s3.n = n + L
         /\ s3.data[0] = x \o tl /\ s3.data[1] = body
    <3>1. New(s2, A) = x \o tl /\ Height(s2, A) = 2
      BY <1>7, <2>8 DEF New, Height
    <3>2. Len(x) + L < U32
      <4> DEFINE a == Len(x)
      <4>1. a + (L + l) < U32 /\ a \in Nat
        BY <1>10, <2>1 DEF x
      <4> HIDE DEF a
      <4>2. a + L < U32
        BY <1>2, <1>5, <4>1
      <4> QED
        BY <4>2 DEF a
    <3>3. Allowed(s2, A)
      <4>1. A.do # "open" /\ A.do # "join"
        BY <1>7
      <4> QED
        BY <1>7, <2>8, <2>9, <3>1, <3>2, <4>1 DEF Allowed, L
    <3>4. /\ s3 \in States /\ Runs(<<A>>, s2, s3) /\ s3.h = Height(s2, A) /\ s3.n = s2.n + Returned(A)
          /\ \A k \in Nat : s3.data[k] = IF k = 0 THEN New(s2, A) ELSE s2.data[k]
      BY <1>7, <1>8, <2>8, <3>3, OneStep
    <3> HIDE DEF s3, n
    <3>5. s3.data[0] = x \o tl
      BY <3>1, <3>4
    <3>6. s3.data[1] = body
      <4>1. 1 \in Nat /\ 1 # 0
        OBVIOUS
      <4>2. s3.data[1] = s2.data[1]
        BY <3>4, <4>1
      <4> QED
        BY <2>8, <4>2
    <3> QED
      BY <1>8, <2>8, <3>1, <3>4, <3>5, <3>6
  <2> HIDE DEF s3
  <2> DEFINE s4 == After(s3, J)
  <2>11. /\ s4 \in States /\ Runs(<<J>>, s3, s4)
         /\ Holding(s4, (x \o tl) \o body, (n + L) + l)
    <3>1. New(s3, J) = (x \o tl) \o body /\ Height(s3, J) = 1
      <4>1. 0 + 1 = 1 /\ 2 - 1 = 1
        OBVIOUS
      <4> QED
        BY <1>6, <2>10, <4>1 DEF New, Height
    <3>2. Len((x \o tl) \o body) < U32
      <4>1. Len((x \o tl) \o body) = (Len(x) + L) + l
        BY <1>1, <2>9, ConcatProperties DEF l
      <4>2. Len(x) + (L + l) < U32
        BY <1>10 DEF x
      <4> QED
        BY <1>2, <1>5, <2>1, <4>1, <4>2
    <3>3. Allowed(s3, J)
      <4>1. J.do # "open" /\ J.do # "append" /\ 0 + 1 = 1 /\ 0 + 2 = 2
        BY <1>6
      <4> QED
        BY <1>6, <2>10, <3>1, <3>2, <4>1 DEF Allowed, l
    <3>4. /\ s4 \in States /\ Runs(<<J>>, s3, s4) /\ s4.h = Height(s3, J) /\ s4.n = s3.n + Returned(J)
          /\ \A k \in Nat : s4.data[k] = IF k = 0 THEN New(s3, J) ELSE s3.data[k]
      BY <1>6, <1>8, <2>10, <3>3, OneStep
    <3> HIDE DEF s4
    <3> QED
      BY <1>8, <2>10, <3>1, <3>4 DEF Holding
  <2> HIDE DEF s4
  <2>12. <<Opening>> \in Seq(StepSet) /\ <<A>> \in Seq(StepSet) /\ <<J>> \in Seq(StepSet)
    BY <1>6, <1>7, SublenOne
  <2>13. Runs(<<Opening>> \o D, s, s2) /\ <<Opening>> \o D \in Seq(StepSet)
    <3>1. <<Opening>> \o D \in Seq(StepSet)
      BY <2>7, <2>12, ConcatProperties
    <3>2. Runs(<<Opening>> \o D, s, s2)
      BY <2>3, <2>7, <2>8, <2>12, RunsBoth
    <3> QED
      BY <3>1, <3>2
  <2>14. Runs(<<A>> \o <<J>>, s2, s4) /\ <<A>> \o <<J>> \in Seq(StepSet)
    <3>1. <<A>> \o <<J>> \in Seq(StepSet)
      BY <2>12, ConcatProperties
    <3>2. Runs(<<A>> \o <<J>>, s2, s4)
      BY <2>8, <2>10, <2>11, <2>12, RunsBoth
    <3> QED
      BY <3>1, <3>2
  <2>15. Runs((<<Opening>> \o D) \o (<<A>> \o <<J>>), s, s4)
    BY <2>8, <2>11, <2>13, <2>14, RunsBoth
  <2> QED
    BY <2>7, <2>11, <2>15 DEF x
<1>11. D \in Seq(StepSet) /\ Sublen(D) = 0
  BY <1>1, DeeperSteps DEF D
<1> DEFINE M == (<<Opening>> \o D) \o (<<A>> \o <<J>>)
           b == tl \o body
<1>12. b \in Seq(Byte) /\ Len(b) = L + l
  BY <1>1, <1>3, ConcatProperties DEF L, l
<1>13. M \in Seq(StepSet) /\ Sublen(M) = L + l
  <2>1. /\ <<Opening>> \in Seq(StepSet) /\ <<A>> \in Seq(StepSet) /\ <<J>> \in Seq(StepSet)
        /\ Sublen(<<Opening>>) = 0 /\ Sublen(<<A>>) = L /\ Sublen(<<J>>) = l
    BY <1>6, <1>7, <1>8, SublenOne
  <2> DEFINE u == <<Opening>> \o D
             v == <<A>> \o <<J>>
  <2>2. u \in Seq(StepSet) /\ v \in Seq(StepSet)
    BY <1>11, <2>1, ConcatProperties
  <2>3. Sublen(u) = 0 + 0
    BY <1>11, <2>1, SublenBoth
  <2>4. Sublen(v) = L + l
    BY <2>1, SublenBoth
  <2> HIDE DEF u, v
  <2>5. u \o v \in Seq(StepSet) /\ Sublen(u \o v) = Sublen(u) + Sublen(v)
    BY <2>2, SublenBoth, ConcatProperties
  <2>6. Sublen(u \o v) = L + l
    BY <1>2, <1>5, <2>3, <2>4, <2>5
  <2> QED
    BY <2>5, <2>6 DEF u, v
<1>14. ASSUME NEW s \in States, s.h = 1, Len(s.data[0]) + Len(b) < U32
       PROVE  \E t \in States : Runs(M, s, t) /\ Holding(t, s.data[0] \o b, s.n + Len(b))
  <2>1. PICK t \in States : Runs(M, s, t) /\ Holding(t, (s.data[0] \o tl) \o body, (s.n + L) + l)
    BY <1>10, <1>12, <1>14
  <2> DEFINE x == s.data[0]
             n == s.n
  <2>2. x \in Seq(Byte) /\ n \in Nat
    BY DEF States
  <2> HIDE DEF x, n
  <2>3. (x \o tl) \o body = x \o (tl \o body)
    BY SMTT(60), <1>1, <1>3, <2>2, ConcatAssociative
  <2>4. (n + L) + l = n + (L + l)
    BY <1>2, <1>5, <2>2
  <2>5. Holding(t, x \o b, n + Len(b))
    BY <1>12, <2>1, <2>3, <2>4 DEF x, n
  <2> QED
    BY <2>1, <2>5 DEF x, n
<1> HIDE DEF M, b
<1>15. Does(M, b)
  BY <1>12, <1>13, <1>14 DEF Does
<1> QED
  BY <1>4, <1>9, <1>15 DEF M, b, tl, l
-----------------------------------------------------------------------------
(* The steps of a field, and of a message.                                 *)

\* Two steps.
LEMMA TwoSteps ==
  ASSUME NEW a \in StepSet, NEW b \in StepSet
  PROVE  <<a, b>> = <<a>> \o <<b>>
<1>1. <<a>> \in Seq(StepSet)
  OBVIOUS
<1>2. Append(<<a>>, b) = <<a>> \o <<b>>
  BY <1>1, AppendIsConcat
<1>3. <<a, b>> = Append(<<a>>, b)
  OBVIOUS
<1> QED
  BY <1>2, <1>3

\* A number, a string or bytes: the tag goes in front.
LEMMA ValueDoes ==
  ASSUME NEW f, IsField(f), f.type # "message", NEW v \in ToSet(f.values), NEW N, NEW P,
         get_tag_size(f.id) + ValueSize(f.type, v, N) < U32
  PROVE  Does(ValueAppends(f, v), required_field_pack(f, v, P))
<1> DEFINE tag == Tag(f.id, WireType(f.type))
           g == get_tag_size(f.id)
<1>1. tag \in Seq(Byte) /\ g \in Nat /\ IsValue(f.type, v) /\ f.type \in Types /\ U32 \in Nat
  BY FieldTag, ValuesSeq, PowerFacts DEF IsField
<1> HIDE DEF tag, g
<1>2. CASE f.type \in Blobs
  <2>1. v \in Seq(Byte)
    BY <1>1, <1>2 DEF IsValue, Byte, Blobs
  <2> DEFINE l == Len(v)
             pre == uint32_pack(l)
  <2>2. l \in Nat
    BY <2>1, LenProperties
  <2>3. g + (uint32_size(l) + l) < U32
    BY <1>2 DEF ValueSize, g
  <2> HIDE DEF l
  <2>4. uint32_size(l) \in Nat
    BY <2>2, Uint32Pack
  <2>5. l < U32
    <3> DEFINE x == uint32_size(l)
    <3>1. x \in Nat /\ g + (x + l) < U32
      BY <2>3, <2>4
    <3> HIDE DEF x
    <3> QED
      BY <1>1, <2>2, <3>1
  <2>6. pre \in Seq(Byte)
    BY <2>2, <2>5, Uint32Pack
  <2> HIDE DEF pre
  <2>7. tag \o pre \in Seq(Byte) /\ (tag \o pre) \o v = tag \o (pre \o v)
    <3>1. tag \o pre \in Seq(Byte)
      BY <1>1, <2>6, ConcatProperties
    <3>2. (tag \o pre) \o v = tag \o (pre \o v)
      BY SMTT(60), <1>1, <2>1, <2>6, ConcatAssociative
    <3> QED
      BY <3>1, <3>2
  <2> DEFINE A == Appending(tag \o pre)
             V == Appending(v)
  <2>8. Does(<<A>>, tag \o pre) /\ Does(<<V>>, v) /\ A \in StepSet /\ V \in StepSet
    BY <2>1, <2>7, DoesAppend
  <2> HIDE DEF A, V
  <2>9. Does(<<A>> \o <<V>>, (tag \o pre) \o v)
    BY <2>8, DoesBoth
  <2>10. <<A>> \o <<V>> = <<A, V>>
    BY <2>8, TwoSteps
  <2>11. ValueAppends(f, v) = <<A, V>>
    BY <1>2 DEF ValueAppends, tag, A, V, pre, l
  <2>12. required_field_pack(f, v, P) = tag \o (pre \o v)
    BY <1>2 DEF required_field_pack, ValuePack, tag, pre, l
  <2> QED
    BY <2>7, <2>9, <2>10, <2>11, <2>12
<1>3. CASE f.type \notin Blobs
  <2>1. f.type \in NumberTypes
    BY <1>1, <1>3 DEF Types
  <2> DEFINE b == NumberPack(f.type, v)
  <2>2. b \in Seq(Byte)
    BY <1>1, <2>1, NumberBytes
  <2>3. ValueAppends(f, v) = <<Appending(tag \o b)>>
    BY <1>3 DEF ValueAppends, tag
  <2>4. required_field_pack(f, v, P) = tag \o b
    BY <1>3 DEF required_field_pack, ValuePack, tag
  <2> HIDE DEF b
  <2>5. tag \o b \in Seq(Byte)
    BY <1>1, <2>2, ConcatProperties
  <2>6. Does(<<Appending(tag \o b)>>, tag \o b)
    BY <2>5, DoesAppend
  <2> QED
    BY <2>3, <2>4, <2>6
<1> QED
  BY <1>2, <1>3

\* The steps K packs a nested message with append its bytes.
Nests(type, v, K, P) == type = "message" => Does(K[v], P[v])

\* One value of a field.
LEMMA RequiredDoes ==
  ASSUME NEW f, IsField(f), NEW v \in ToSet(f.values), NEW N, NEW P, NEW K,
         Fits(Byte, f.type, v, N, P), Nests(f.type, v, K, P),
         get_tag_size(f.id) + ValueSize(f.type, v, N) < U32
  PROVE  Does(RequiredAppends(f, v, K), required_field_pack(f, v, P))
<1>1. CASE f.type # "message"
  <2>1. Does(ValueAppends(f, v), required_field_pack(f, v, P))
    BY <1>1, ValueDoes
  <2> QED
    BY <1>1, <2>1 DEF RequiredAppends
<1>2. CASE f.type = "message"
  <2> DEFINE body == P[v]
             l == Len(body)
             pre == uint32_pack(l)
             g == get_tag_size(f.id)
             tag == Tag(f.id, 2)
  <2>1. body \in Seq(Byte) /\ N[v] = l /\ Does(K[v], body) /\ U32 \in Nat /\ g \in Nat /\ tag \in Seq(Byte)
    BY <1>2, FieldTag, PowerFacts DEF Fits, Nests
  <2>2. l \in Nat
    BY <2>1, LenProperties
  <2>3. g + (uint32_size(l) + l) < U32
    <3>1. ValueSize(f.type, v, N) = uint32_size(N[v]) + N[v]
      BY <1>2 DEF ValueSize, Blobs
    <3> QED
      BY <2>1, <3>1
  <2> HIDE DEF g, tag, l
  <2>4. uint32_size(l) \in Nat
    BY <2>2, Uint32Pack
  <2>5. l < U32
    <3> DEFINE x == uint32_size(l)
    <3>1. x \in Nat /\ g + (x + l) < U32
      BY <2>3, <2>4
    <3> HIDE DEF x
    <3> QED
      BY <2>1, <2>2, <3>1
  <2>6. pre \in Seq(Byte) /\ Writes(Byte, Len(body))
    BY <2>2, <2>5, Uint32Pack DEF Writes, l
  <2>7. prefixed_message_pack(body) = pre \o body
    BY <2>1, <2>6, PrefixedBytes DEF l
  <2>8. Does(MessageAppends(f, K[v]), (tag \o pre) \o body)
    <3> DEFINE steps == K[v]
    <3>1. Does(steps, body) /\ Len(body) < U32
      BY <2>1, <2>5 DEF l
    <3> HIDE DEF steps, body
    <3>2. Does(MessageAppends(f, steps), (Tag(f.id, 2) \o uint32_pack(Len(body))) \o body)
      BY <3>1, NestedDoes
    <3> QED
      BY <3>2 DEF steps, body, tag, l
  <2> HIDE DEF pre, body
  <2>9. (tag \o pre) \o body = tag \o (pre \o body)
    BY SMTT(60), <2>1, <2>6, ConcatAssociative
  <2>10. required_field_pack(f, v, P) = tag \o (pre \o body)
    <3>1. WireType(f.type) = 2
      BY <1>2 DEF WireType, Fixed32, Fixed64, Blobs
    <3>2. ValuePack(f.type, v, P) = prefixed_message_pack(P[v])
      BY <1>2 DEF ValuePack, Blobs
    <3> QED
      BY <2>7, <3>1, <3>2 DEF required_field_pack, tag, body
  <2>11. RequiredAppends(f, v, K) = MessageAppends(f, K[v])
    BY <1>2 DEF RequiredAppends
  <2> QED
    BY <2>8, <2>9, <2>10, <2>11
<1> QED
  BY <1>1, <1>2

\* Numbers that are packed together.
LEMMA PackedDoes ==
  ASSUME NEW f, IsField(f), f.label = "repeated", f.packed, Len(Payload(f)) < U32
  PROVE  Does(PackedAppends(f), PackedPack(f))
<1> DEFINE p == Payload(f)
           c == Len(f.values)
           bs == [k \in 1 .. c |-> NumberPack(f.type, f.values[k])]
           l == Len(p)
           a == Tag(f.id, 2) \o uint32_pack(l)
<1>1. f.type \in NumberTypes
  BY DEF IsField
<1>2. p \in Seq(Byte) /\ l \in Nat /\ get_packed_payload_length(f) = l
  BY <1>1, PayloadBytes
<1>3. c \in Nat /\ DOMAIN f.values = 1 .. c
  BY ValuesSeq
<1>4. \A k \in 1 .. c : bs[k] \in Seq(Byte)
  <2> TAKE k \in 1 .. c
  <2>1. IsValue(f.type, f.values[k])
    BY ValuesSeq
  <2> QED
    BY <1>1, <2>1, NumberBytes
<1>5. p = Concat([k \in 1 .. c |-> bs[k]])
  <2>1. [k \in 1 .. c |-> bs[k]] = [k \in DOMAIN f.values |-> NumberPack(f.type, f.values[k])]
    BY <1>3
  <2> QED
    BY <2>1 DEF Payload
<1>6. Does(pack_buffer_packed_payload(f), p)
  <2>1. CASE f.type \in Fixed32 \cup Fixed64
    <3>1. Does(<<Appending(p)>>, p)
      <4> HIDE DEF p
      <4> QED
        BY <1>2, DoesAppend
    <3> QED
      BY <2>1, <3>1 DEF pack_buffer_packed_payload
  <2>2. CASE f.type \notin Fixed32 \cup Fixed64
    <3>1. pack_buffer_packed_payload(f) = [k \in 1 .. c |-> Appending(bs[k])]
      BY <1>3, <2>2 DEF pack_buffer_packed_payload
    <3>2. Does([k \in 1 .. c |-> Appending(bs[k])], Concat([k \in 1 .. c |-> bs[k]]))
      <4> HIDE DEF bs, c
      <4> QED
        BY <1>3, <1>4, DoesEach
    <3> QED
      BY <1>5, <3>1, <3>2
  <2> QED
    BY <2>1, <2>2
<1>7. a \in Seq(Byte)
  <2>1. uint32_pack(l) \in Seq(Byte)
    <3> HIDE DEF l
    <3>1. l < U32
      BY DEF l
    <3> QED
      BY <1>2, <3>1, Uint32Pack
  <2>2. Tag(f.id, 2) \in Seq(Byte)
    BY FieldTag
  <2> QED
    BY <2>1, <2>2, ConcatProperties
<1>8. PackedPack(f) = a \o p
  <2>1. Writes(Byte, Len(Payload(f)))
    BY DEF Writes
  <2> QED
    BY <2>1, PackedBytes
<1>9. PackedAppends(f) = <<Appending(a)>> \o pack_buffer_packed_payload(f)
  BY <1>2 DEF PackedAppends
<1> HIDE DEF a, p
<1>10. Does(<<Appending(a)>>, a)
  BY <1>7, DoesAppend
<1> QED
  BY <1>6, <1>8, <1>9, <1>10, DoesBoth

\* The steps of every value of a field append its bytes.
NestsAll(f, K, P) == \A v \in ToSet(f.values) : Nests(f.type, v, K, P)

\* A repeated field, packed or not.
LEMMA RepeatedDoes ==
  ASSUME NEW f, IsField(f), f.label = "repeated", NEW N, NEW P, NEW K,
         FitsAll(Nat, f, N, P), FitsAll(Byte, f, N, P), NestsAll(f, K, P),
         repeated_field_get_packed_size(f, N) < U32
  PROVE  Does(FieldAppends(f, K), repeated_field_pack(f, P))
<1> DEFINE n == repeated_field_get_packed_size(f, N)
           c == Len(f.values)
           g == get_tag_size(f.id)
<1>1. c \in Nat /\ DOMAIN f.values = 1 .. c /\ g \in Nat /\ U32 \in Nat
  BY ValuesSeq, FieldTag, PowerFacts
<1>2. n \in Nat /\ Len(repeated_field_pack(f, P)) = n
  <2>1. Writes(Byte, n)
    BY DEF Writes
  <2>2. n \in Nat /\ Written(Byte, n, repeated_field_pack(f, P))
    BY <2>1, RepeatedBytes
  <2> QED
    BY <2>2 DEF Written
<1>3. n < U32
  OBVIOUS
<1> HIDE DEF n
<1>4. CASE f.packed /\ f.values = <<>>
  <2>1. FieldAppends(f, K) = <<>> /\ repeated_field_pack(f, P) = <<>>
    BY <1>4 DEF FieldAppends, repeated_field_pack
  <2> QED
    BY <2>1, DoesNothing
<1>5. CASE f.packed /\ f.values # <<>>
  <2>1. FieldAppends(f, K) = PackedAppends(f) /\ repeated_field_pack(f, P) = PackedPack(f)
    BY <1>5 DEF FieldAppends, repeated_field_pack
  <2> DEFINE l == Len(Payload(f))
             x == uint32_size(l)
  <2>2. f.type \in NumberTypes
    BY <1>5 DEF IsField
  <2>3. l \in Nat
    BY <2>2, PayloadBytes
  <2>4. x \in Nat
    <3> HIDE DEF l
    <3> QED
      BY <2>3, Uint32Pack
  <2>5. Len(PackedPack(f)) = (g + x) + l
    <3>1. Writes(Nat, Len(Payload(f)))
      BY DEF Writes
    <3> QED
      BY <1>5, <3>1, PackedBytes
  <2>6. l < U32
    <3>1. (g + x) + l < U32
      BY <1>2, <1>3, <2>1, <2>5
    <3> HIDE DEF g, x, l
    <3> QED
      BY <1>1, <2>3, <2>4, <3>1
  <2>7. Does(PackedAppends(f), PackedPack(f))
    BY <1>5, <2>6, PackedDoes
  <2> QED
    BY <2>1, <2>7
<1>6. CASE ~f.packed
  <2> DEFINE ss == [k \in 1 .. c |-> RequiredAppends(f, f.values[k], K)]
             ps == [k \in 1 .. c |-> required_field_pack(f, f.values[k], P)]
             ns == [k \in 1 .. c |-> g + ValueSize(f.type, f.values[k], N)]
  <2>1. FieldAppends(f, K) = Concat(ss) /\ repeated_field_pack(f, P) = Concat(ps)
    BY <1>1, <1>6 DEF FieldAppends, repeated_field_pack
  <2>2. ASSUME NEW k \in 1 .. c
        PROVE  ns[k] \in Nat /\ ps[k] \in Seq(Nat) /\ Len(ps[k]) = ns[k]
    <3> DEFINE v == f.values[k]
    <3>1. v \in ToSet(f.values)
      BY ValuesSeq
    <3> HIDE DEF v
    <3>2. Fits(Nat, f.type, v, N, P)
      BY <3>1 DEF FitsAll
    <3>3. Writes(Nat, get_tag_size(f.id) + ValueSize(f.type, v, N))
      BY DEF Writes
    <3>4. /\ get_tag_size(f.id) + ValueSize(f.type, v, N) \in Nat
          /\ Written(Nat, get_tag_size(f.id) + ValueSize(f.type, v, N), required_field_pack(f, v, P))
      BY <3>1, <3>2, <3>3, RequiredBytes
    <3> QED
      BY <3>4 DEF Written, v
  <2>3. ps \in [1 .. c -> Seq(Nat)] /\ ns \in [1 .. c -> Nat]
    BY <2>2
  <2>4. \A k \in 1 .. c : ns[k] < U32
    <3> HIDE DEF ps, ns, c
    <3>1. Len(Concat(ps)) = SumOf(ns)
      <4>1. \A k \in 1 .. c : Len(ps[k]) = ns[k]
        BY <2>2
      <4>2. c \in Nat
        BY <1>1 DEF c
      <4> QED
        BY <2>3, <4>1, <4>2, PiecesBytes
    <3>2. SumOf(ns) < U32
      BY <1>2, <1>3, <2>1, <3>1
    <3>3. \A k \in 1 .. c : SumOf(ns) \in Nat /\ ns[k] <= SumOf(ns) /\ ns[k] \in Nat
      BY <1>1, <2>3, SumPart
    <3> QED
      BY <1>1, <3>2, <3>3
  <2>5. ASSUME NEW k \in 1 .. c PROVE Does(ss[k], ps[k])
    <3> DEFINE v == f.values[k]
    <3>1. v \in ToSet(f.values)
      BY ValuesSeq
    <3>2. get_tag_size(f.id) + ValueSize(f.type, v, N) < U32
      BY <2>4
    <3> HIDE DEF v
    <3>3. Fits(Byte, f.type, v, N, P) /\ Nests(f.type, v, K, P)
      BY <3>1 DEF FitsAll, NestsAll
    <3>4. Does(RequiredAppends(f, v, K), required_field_pack(f, v, P))
      BY <3>1, <3>2, <3>3, RequiredDoes
    <3> QED
      BY <3>4 DEF v
  <2>6. ss = [k \in 1 .. c |-> ss[k]] /\ ps = [k \in 1 .. c |-> ps[k]]
    OBVIOUS
  <2> HIDE DEF ss, ps, c
  <2>7. Does(Concat([k \in 1 .. c |-> ss[k]]), Concat([k \in 1 .. c |-> ps[k]]))
    BY <1>1, <2>5, DoesAll
  <2>8. Does(Concat(ss), Concat(ps))
    BY <2>6, <2>7
  <2> QED
    BY <2>1, <2>8
<1> QED
  BY <1>4, <1>5, <1>6

\* A field, with any label.
LEMMA FieldDoes ==
  ASSUME NEW f, IsField(f), NEW N, NEW P, NEW K,
         FitsAll(Nat, f, N, P), FitsAll(Byte, f, N, P), NestsAll(f, K, P), FieldSize(f, N) < U32
  PROVE  Does(FieldAppends(f, K), FieldPack(f, P))
<1>1. f.label \in {"required", "optional", "repeated"} /\ (f.label = "repeated" \/ Len(f.values) = 1)
  BY DEF IsField, Labels
<1>2. ASSUME f.label # "repeated", required_field_get_packed_size(f, N) < U32
      PROVE  Does(RequiredAppends(f, f.values[1], K), required_field_pack(f, f.values[1], P))
  <2> DEFINE v == f.values[1]
  <2>1. v \in ToSet(f.values)
    <3>1. Len(f.values) = 1
      BY <1>1, <1>2
    <3>2. 1 \in 1 .. 1
      OBVIOUS
    <3> QED
      BY <3>1, <3>2, ValuesSeq
  <2>2. get_tag_size(f.id) + ValueSize(f.type, v, N) < U32
    BY <1>2 DEF required_field_get_packed_size
  <2> HIDE DEF v
  <2>3. Fits(Byte, f.type, v, N, P) /\ Nests(f.type, v, K, P)
    BY <2>1 DEF FitsAll, NestsAll
  <2>4. Does(RequiredAppends(f, v, K), required_field_pack(f, v, P))
    BY <2>1, <2>2, <2>3, RequiredDoes
  <2> QED
    BY <2>4 DEF v
<1>3. CASE f.label = "required"
  <2>1. required_field_get_packed_size(f, N) < U32
    BY <1>3 DEF FieldSize
  <2>2. /\ FieldAppends(f, K) = RequiredAppends(f, f.values[1], K)
        /\ FieldPack(f, P) = required_field_pack(f, f.values[1], P)
    BY <1>3 DEF FieldAppends, FieldPack
  <2> QED
    BY <1>2, <1>3, <2>1, <2>2
<1>4. CASE f.label = "optional" /\ IsSet(f)
  <2>1. required_field_get_packed_size(f, N) < U32
    BY <1>4 DEF FieldSize
  <2>2. /\ FieldAppends(f, K) = RequiredAppends(f, f.values[1], K)
        /\ FieldPack(f, P) = required_field_pack(f, f.values[1], P)
    BY <1>4 DEF FieldAppends, FieldPack
  <2> QED
    BY <1>2, <1>4, <2>1, <2>2
<1>5. CASE f.label = "optional" /\ ~IsSet(f)
  <2>1. FieldAppends(f, K) = <<>> /\ FieldPack(f, P) = <<>>
    BY <1>5 DEF FieldAppends, FieldPack
  <2> QED
    BY <2>1, DoesNothing
<1>6. CASE f.label = "repeated"
  <2>1. repeated_field_get_packed_size(f, N) < U32
    BY <1>6 DEF FieldSize
  <2>2. Does(FieldAppends(f, K), repeated_field_pack(f, P))
    BY <1>6, <2>1, RepeatedDoes
  <2>3. FieldPack(f, P) = repeated_field_pack(f, P)
    BY <1>6 DEF FieldPack
  <2> QED
    BY <2>2, <2>3
<1> QED
  BY <1>1, <1>3, <1>4, <1>5, <1>6

\* An unknown field.
LEMMA UnknownDoes ==
  ASSUME NEW u, IsUnknown(u)
  PROVE  Does(UnknownAppends(u), unknown_field_pack(u))
<1> DEFINE t == Tag(u.tag, u.wire_type)
           A == Appending(t)
           D == Appending(u.data)
<1>1. t \in Seq(Byte) /\ u.data \in Seq(Byte)
  <2>1. u.tag \in 1 .. U32 - 1 /\ u.wire_type \in 0 .. 7 /\ u.data \in Seq(Byte)
    BY DEF IsUnknown, Byte
  <2> QED
    BY <2>1, TagBytes
<1>2. UnknownAppends(u) = <<A, D>> /\ unknown_field_pack(u) = t \o u.data
  BY DEF UnknownAppends, unknown_field_pack
<1> HIDE DEF t
<1>3. Does(<<A>>, t) /\ Does(<<D>>, u.data) /\ A \in StepSet /\ D \in StepSet
  BY <1>1, DoesAppend
<1> HIDE DEF A, D
<1>4. Does(<<A>> \o <<D>>, t \o u.data)
  BY <1>3, DoesBoth
<1> QED
  BY <1>2, <1>3, <1>4, TwoSteps

\* The steps of every message in a message append its bytes.
NestsMessage(m, K, P) == \A f \in ToSet(m.fields) : NestsAll(f, K, P)

\* A message: its fields, then its unknown fields.
LEMMA MessageDoes ==
  ASSUME NEW m, IsMessage(m), NEW N, NEW P, NEW K,
         FitsMessage(Nat, m, N, P), FitsMessage(Byte, m, N, P), NestsMessage(m, K, P),
         MessageSize(m, N) < U32
  PROVE  /\ \A k \in 1 .. Len(m.fields) : Does(FieldAppends(m.fields[k], K), FieldPack(m.fields[k], P))
         /\ \A k \in 1 .. Len(m.unknown) :
              Does(UnknownAppends(m.unknown[k]), unknown_field_pack(m.unknown[k]))
         /\ Does(MessageSteps(m, K), MessagePack(m, P))
<1> DEFINE F == Len(m.fields)
           G == Len(m.unknown)
           fs == [k \in 1 .. F |-> FieldAppends(m.fields[k], K)]
           fp == [k \in 1 .. F |-> FieldPack(m.fields[k], P)]
           us == [k \in 1 .. G |-> UnknownAppends(m.unknown[k])]
           up == [k \in 1 .. G |-> unknown_field_pack(m.unknown[k])]
<1>1. /\ F \in Nat /\ DOMAIN m.fields = 1 .. F
      /\ G \in Nat /\ DOMAIN m.unknown = 1 .. G
  BY MessageParts
<1>2. ASSUME NEW k \in 1 .. F PROVE Does(fs[k], fp[k])
  <2> DEFINE f == m.fields[k]
  <2>1. f \in ToSet(m.fields) /\ IsField(f)
    BY MessageParts
  <2>2. FieldSize(f, N) < U32
    <3>1. FieldSize(f, N) \in Nat /\ FieldSize(f, N) <= MessageSize(m, N) /\ MessageSize(m, N) \in Nat
      BY MessageBytes
    <3> DEFINE x == FieldSize(f, N)
               y == MessageSize(m, N)
    <3>2. x \in Nat /\ x <= y /\ y \in Nat /\ y < U32 /\ U32 \in Nat
      BY <3>1, PowerFacts
    <3> HIDE DEF x, y
    <3>3. x < U32
      BY <3>2
    <3> QED
      BY <3>3 DEF x
  <2> HIDE DEF f
  <2>3. FitsAll(Nat, f, N, P) /\ FitsAll(Byte, f, N, P) /\ NestsAll(f, K, P)
    BY <2>1 DEF FitsMessage, NestsMessage
  <2>4. Does(FieldAppends(f, K), FieldPack(f, P))
    BY <2>1, <2>2, <2>3, FieldDoes
  <2> QED
    BY <2>4 DEF f
<1>3. ASSUME NEW k \in 1 .. G PROVE Does(us[k], up[k])
  <2>1. IsUnknown(m.unknown[k])
    BY MessageParts
  <2> QED
    BY <2>1, UnknownDoes
<1>4. MessageSteps(m, K) = Concat(fs) \o Concat(us) /\ MessagePack(m, P) = Concat(fp) \o Concat(up)
  BY <1>1 DEF MessageSteps, MessagePack
<1>5. /\ fs = [k \in 1 .. F |-> fs[k]] /\ fp = [k \in 1 .. F |-> fp[k]]
      /\ us = [k \in 1 .. G |-> us[k]] /\ up = [k \in 1 .. G |-> up[k]]
  OBVIOUS
<1>8. /\ \A k \in 1 .. F : Does(FieldAppends(m.fields[k], K), FieldPack(m.fields[k], P))
      /\ \A k \in 1 .. G : Does(UnknownAppends(m.unknown[k]), unknown_field_pack(m.unknown[k]))
  BY <1>2, <1>3
<1> HIDE DEF fs, fp, us, up, F, G
<1>6. Does(Concat(fs), Concat(fp)) /\ Does(Concat(us), Concat(up))
  <2>1. /\ Does(Concat([k \in 1 .. F |-> fs[k]]), Concat([k \in 1 .. F |-> fp[k]]))
        /\ Does(Concat([k \in 1 .. G |-> us[k]]), Concat([k \in 1 .. G |-> up[k]]))
    BY <1>1, <1>2, <1>3, DoesAll
  <2> QED
    BY <1>5, <2>1
<1>7. Does(Concat(fs) \o Concat(us), Concat(fp) \o Concat(up))
  BY <1>6, DoesBoth
<1> QED
  BY <1>4, <1>7, <1>8 DEF F, G

\* The steps of a message so many messages down append its bytes, once the functions
\* may go as deep as messages are below it.
LEMMA StepsDo ==
  \A d \in 0 .. MaxDepth : \A e \in d .. MaxDepth : \A m \in AtDepth[MaxDepth - d] :
    Does(StepsOf[e][m], message_pack[m])
<1> DEFINE D == MaxDepth
           Right(d) == \A e \in d .. D : \A m \in AtDepth[D - d] : Does(StepsOf[e][m], message_pack[m])
           Bad == {d \in 0 .. D : ~Right(d)}
<1>1. D \in Nat /\ AtDepth[D - 0] = {}
  <2>1. D \in Nat
    BY PackAssumption
  <2>2. D - 0 = D
    BY <2>1
  <2> QED
    BY <2>1, <2>2, PackAssumption
<1>2. Right(0)
  BY <1>1
<1>3. ASSUME NEW d \in 1 .. D, Right(d - 1) PROVE Right(d)
  <2> SUFFICES ASSUME NEW e \in d .. D, NEW m \in AtDepth[D - d]
               PROVE  Does(StepsOf[e][m], message_pack[m])
    OBVIOUS
  <2>1. /\ e \in 1 .. D /\ D - d \in 0 .. D /\ (D - d) + 1 = D - (d - 1)
        /\ e - 1 \in d - 1 .. D
    BY <1>1
  <2>2. m \in Known /\ Submessages(m) \subseteq AtDepth[D - (d - 1)]
    <3>1. m \in Known
      BY <2>1, KnownFacts
    <3>2. Submessages(m) \subseteq AtDepth[(D - d) + 1]
      BY <2>1, KnownFacts
    <3> QED
      BY <2>1, <3>1, <3>2
  <2> DEFINE K == StepsOf[e - 1]
  <2>3. StepsOf[e][m] = MessageSteps(m, K)
    <3>1. StepsOf[e] = [y \in Known |-> MessageSteps(y, StepsOf[e - 1])]
      BY <2>1, StepsOfSteps
    <3> QED
      BY <2>2, <3>1
  <2>4. \A s \in Submessages(m) : Does(K[s], message_pack[s])
    BY <1>3, <2>1, <2>2
  <2> HIDE DEF K
  <2>5. NestsMessage(m, K, message_pack)
    <3>1. ASSUME NEW f \in ToSet(m.fields), NEW v \in ToSet(f.values), f.type = "message"
          PROVE  Does(K[v], message_pack[v])
      <4>1. v \in Submessages(m)
        BY <3>1, NestedValues
      <4> QED
        BY <2>4, <4>1
    <3> QED
      BY <3>1 DEF NestsMessage, NestsAll, Nests
  <2>6. /\ message_pack[m] = MessagePack(m, message_pack)
        /\ FitsMessage(Nat, m, message_get_packed_size, message_pack)
        /\ FitsMessage(Byte, m, message_get_packed_size, message_pack)
        /\ MessageSize(m, message_get_packed_size) < U32
    <3>1. message_get_packed_size[m] < U32
      BY <2>2, KnownFacts
    <3> QED
      BY <2>2, <3>1, SizeFixpoint
  <2>7. IsMessage(m)
    BY <2>2, KnownFacts
  <2>8. Does(MessageSteps(m, K), MessagePack(m, message_pack))
    BY <2>5, <2>6, <2>7, MessageDoes
  <2> QED
    BY <2>3, <2>6, <2>8
<1>4. Bad \in SUBSET Nat
  OBVIOUS
<1>5. ASSUME NEW d \in Bad, \A x \in Bad : d <= x PROVE FALSE
  <2> HIDE DEF Right
  <2>1. d \in 0 .. D /\ d # 0
    BY <1>2
  <2>2. d \in 1 .. D /\ d - 1 \in 0 .. D /\ ~(d <= d - 1)
    BY <1>1, <2>1
  <2>3. Right(d - 1)
    BY <1>5, <2>2
  <2> QED
    BY <1>3, <2>2, <2>3
<1>6. Bad = {}
  <2> HIDE DEF Bad
  <2> QED
    BY <1>4, <1>5, SmallestExists
<1> QED
  BY <1>6

\* The steps of any message that is packed append its bytes.
LEMMA MessagesDo ==
  ASSUME NEW m \in Known
  PROVE  Does(message_pack_to_buffer[m], message_pack[m])
<1> DEFINE D == MaxDepth
<1>1. PICK x \in 0 .. D : m \in AtDepth[x]
  BY DEF Known
<1>2. D \in Nat
  BY PackAssumption
<1> HIDE DEF D
<1>3. D - x \in 0 .. D /\ D \in D - x .. D /\ D - (D - x) = x
  BY <1>2
<1>4. m \in AtDepth[D - (D - x)]
  BY <1>1, <1>3
<1>5. Does(StepsOf[D][m], message_pack[m])
  BY <1>3, <1>4, StepsDo DEF D
<1> QED
  BY <1>5 DEF message_pack_to_buffer, D

\* What the loop of protobuf_c_message_pack_to_buffer does in turn k.
ItemSteps(m, k) ==
  IF k <= Len(m.fields) THEN FieldAppends(m.fields[k], message_pack_to_buffer)
  ELSE UnknownAppends(m.unknown[k - Len(m.fields)])

\* It appends the bytes of that turn.
LEMMA ItemDoes ==
  ASSUME NEW m \in Known, NEW k \in 1 .. TotalOf(m)
  PROVE  Does(ItemSteps(m, k), ItemPack(m, k))
<1> DEFINE F == Len(m.fields)
           G == Len(m.unknown)
           K == message_pack_to_buffer
<1>1. IsMessage(m) /\ Submessages(m) \subseteq Known
  BY KnownFacts
<1>2. F \in Nat /\ G \in Nat
  BY <1>1, MessageParts
<1>3. NestsMessage(m, K, message_pack)
  <2>1. ASSUME NEW f \in ToSet(m.fields), NEW v \in ToSet(f.values), f.type = "message"
        PROVE  Does(K[v], message_pack[v])
    <3>1. v \in Submessages(m)
      BY <2>1, NestedValues
    <3>2. v \in Known
      BY <1>1, <3>1
    <3> QED
      BY <3>2, MessagesDo
  <2> QED
    BY <2>1 DEF NestsMessage, NestsAll, Nests
<1>4. /\ FitsMessage(Nat, m, message_get_packed_size, message_pack)
      /\ FitsMessage(Byte, m, message_get_packed_size, message_pack)
      /\ MessageSize(m, message_get_packed_size) < U32
  <2>1. message_get_packed_size[m] < U32
    BY KnownFacts
  <2> QED
    BY <2>1, SizeFixpoint
<1> HIDE DEF K
<1>5. /\ \A j \in 1 .. F : Does(FieldAppends(m.fields[j], K), FieldPack(m.fields[j], message_pack))
      /\ \A j \in 1 .. G : Does(UnknownAppends(m.unknown[j]), unknown_field_pack(m.unknown[j]))
  BY <1>1, <1>3, <1>4, MessageDoes
<1>6. k \in 1 .. F + G
  BY DEF TotalOf
<1> HIDE DEF F, G
<1>7. CASE k <= F
  <2>1. k \in 1 .. F
    BY <1>2, <1>6, <1>7
  <2>2. ItemSteps(m, k) = FieldAppends(m.fields[k], K) /\ ItemPack(m, k) = FieldPack(m.fields[k], message_pack)
    BY <1>7 DEF ItemSteps, ItemPack, F, K
  <2> QED
    BY <1>5, <2>1, <2>2
<1>8. CASE ~(k <= F)
  <2>1. k - F \in 1 .. G
    BY <1>2, <1>6, <1>8
  <2>2. /\ ItemSteps(m, k) = UnknownAppends(m.unknown[k - F])
        /\ ItemPack(m, k) = unknown_field_pack(m.unknown[k - F])
    BY <1>8 DEF ItemSteps, ItemPack, F
  <2> QED
    BY <1>5, <2>1, <2>2
<1> QED
  BY <1>7, <1>8
-----------------------------------------------------------------------------
(* The simple buffers.                                                     *)

\* A simple buffer that holds no more than was allocated for it.
Simple ==
  {b \in [data : Seq(Byte), alloced : Nat \ {0}, must_free_data : BOOLEAN] : Len(b.data) <= b.alloced}

\* The buffers hold what the stack does, or no more than that when something was dropped.
Like(s, bs, n, d) ==
  /\ s.h = Len(bs) /\ s.n = n
  /\ \A k \in 1 .. Len(bs) :
       Len(bs[k].data) <= Len(s.data[k - 1]) /\ (~d => bs[k].data = s.data[k - 1])

\* The buffers that own a block on the heap.
Allocated(bs) == {k \in 1 .. Len(bs) : bs[k].must_free_data}

\* From the buffers bs, steps p lead to one buffer of these bytes, and to this length.
Follows(p, bs, n, d, bytes, len) ==
  \E s, t \in States : Like(s, bs, n, d) /\ Runs(p, s, t) /\ Holding(t, bytes, len)

\* Without steps nothing changes.
LEMMA RunsNothing ==
  ASSUME NEW s, NEW t, Runs(<<>>, s, t)
  PROVE  s = t
<1>1. Len(<<>>) = 0
  BY EmptySeq
<1> QED
  BY <1>1 DEF Runs, Walk

\* A simple buffer with nothing in it.
LEMMA SimpleEmpty ==
  ASSUME NEW n \in Nat \ {0}
  PROVE  SimpleInit(n) \in Simple /\ SimpleInit(n).data = <<>> /\ SimpleInit(n).must_free_data = FALSE
<1>1. <<>> \in Seq(Byte) /\ Len(<<>>) = 0 /\ 0 <= n
  BY EmptySeq
<1> QED
  BY <1>1 DEF SimpleInit, Simple

\* Doubling reaches every length.
LEMMA NewAllocedEnough ==
  ASSUME NEW alloced \in Nat \ {0}, NEW len \in Nat, len < U32
  PROVE  NewAlloced(alloced, len) \in Nat \ {0} /\ len <= NewAlloced(alloced, len)
<1> DEFINE powers == {k \in 1 .. H : alloced * Pow2[k] >= len}
           least == CHOOSE k \in powers : \A l \in powers : k <= l
<1>1. H \in 1 .. H /\ U32 = Pow2[H] /\ H \in Nat /\ \A k \in 1 .. H : Pow2[k] \in Nat /\ Pow2[k] >= 1
  <2>1. H \in Nat /\ H >= W /\ W >= 3 /\ W \in Nat /\ H <= MaxBits /\ MaxBits \in Nat
    <3>1. /\ H \in Nat /\ H >= W /\ W >= 3 /\ W \in Nat /\ MaxBits \in Nat
          /\ 2 * H <= Len64 * W /\ MaxBits = Len64 * W + W /\ Len64 * W \in Nat
      BY WidthFacts
    <3> DEFINE x == Len64 * W
    <3>2. x \in Nat /\ 2 * H <= x /\ MaxBits = x + W
      BY <3>1
    <3> HIDE DEF x
    <3> QED
      BY <3>1, <3>2
  <2>2. H \in 1 .. H /\ 1 .. H \subseteq 0 .. MaxBits
    BY <2>1
  <2> QED
    BY <2>1, <2>2, Pow2Type DEF U32
<1>2. H \in powers
  <2> DEFINE x == Pow2[H]
  <2>1. x \in Nat /\ len < x
    BY <1>1
  <2> HIDE DEF x
  <2>2. alloced * x >= x
    BY <2>1
  <2>3. alloced * x >= len
    BY <2>1, <2>2
  <2> QED
    BY <1>1, <2>3 DEF x
<1>3. least \in powers
  <2>1. powers \in SUBSET Nat
    OBVIOUS
  <2> HIDE DEF powers
  <2>2. \E k \in powers : \A l \in powers : k <= l
    BY <1>2, <2>1, SmallestExists
  <2> QED
    BY <2>2
<1>4. NewAlloced(alloced, len) = alloced * Pow2[least]
  BY DEF NewAlloced
<1> HIDE DEF least
<1>5. least \in 1 .. H /\ alloced * Pow2[least] >= len
  BY <1>3
<1> DEFINE x == Pow2[least]
<1>6. x \in Nat /\ x >= 1
  BY <1>1, <1>5
<1> HIDE DEF x
<1>7. alloced * x \in Nat /\ alloced * x >= 1
  BY <1>6
<1> QED
  BY <1>4, <1>5, <1>7 DEF x

\* What protobuf_c_buffer_simple_append leaves, with memory and without.
LEMMA AppendSimple ==
  ASSUME NEW b \in Simple, NEW bytes \in Seq(Byte), NEW found \in BOOLEAN,
         Len(b.data) + Len(bytes) < U32
  PROVE  /\ append(b, bytes, found) \in Simple
         /\ Len(append(b, bytes, found).data) <= Len(b.data) + Len(bytes)
         /\ found => append(b, bytes, found).data = b.data \o bytes
<1>1. /\ b \in [data : Seq(Byte), alloced : Nat \ {0}, must_free_data : BOOLEAN]
      /\ Len(b.data) <= b.alloced
  BY DEF Simple
<1> DEFINE x == b.data
           a == b.alloced
           lx == Len(x)
           ly == Len(bytes)
           z == x \o bytes
<1>2. x \in Seq(Byte) /\ a \in Nat \ {0} /\ lx <= a /\ lx \in Nat /\ ly \in Nat
  BY <1>1, LenProperties
<1>3. z \in Seq(Byte) /\ Len(z) = lx + ly
  <2> HIDE DEF x
  <2> QED
    BY <1>2, ConcatProperties
<1>4. lx + ly \in Nat /\ lx <= lx + ly /\ lx + ly < U32
  <2>1. lx + ly < U32
    OBVIOUS
  <2> HIDE DEF lx, ly
  <2> QED
    BY <1>2, <2>1
<1>5. CASE ~found
  BY <1>4, <1>5 DEF append
<1>6. CASE found /\ MustGrow(b, Len(bytes))
  <2> DEFINE c == NewAlloced(a, lx + ly)
  <2>1. append(b, bytes, found) = [data |-> z, alloced |-> c, must_free_data |-> TRUE]
    BY <1>6 DEF append, simple_append
  <2>2. c \in Nat \ {0} /\ lx + ly <= c
    <3> HIDE DEF a, lx, ly
    <3> QED
      BY <1>2, <1>4, NewAllocedEnough
  <2> HIDE DEF c, z
  <2>3. [data |-> z, alloced |-> c, must_free_data |-> TRUE] \in Simple
    BY <1>3, <2>2 DEF Simple
  <2>4. lx + ly <= lx + ly
    <3> HIDE DEF lx, ly
    <3> QED
      BY <1>4
  <2> QED
    BY <1>3, <2>1, <2>3, <2>4 DEF z
<1>7. CASE found /\ ~MustGrow(b, Len(bytes))
  <2> DEFINE b2 == [b EXCEPT !.data = z]
  <2>1. append(b, bytes, found) = b2
    BY <1>7 DEF append, simple_append
  <2>2. lx + ly <= a
    <3>1. ~(lx + ly > a)
      BY <1>7 DEF MustGrow
    <3> HIDE DEF lx, ly, a
    <3> QED
      BY <1>2, <1>4, <3>1
  <2> HIDE DEF z
  <2>3. /\ b2 \in [data : Seq(Byte), alloced : Nat \ {0}, must_free_data : BOOLEAN]
        /\ b2.data = z /\ b2.alloced = a
    BY <1>1, <1>3
  <2> HIDE DEF b2
  <2>4. Len(b2.data) <= b2.alloced
    BY <1>3, <2>2, <2>3
  <2>5. lx + ly <= lx + ly
    <3> HIDE DEF lx, ly
    <3> QED
      BY <1>4
  <2> QED
    BY <1>3, <2>1, <2>3, <2>4, <2>5 DEF Simple, z
<1> QED
  BY <1>5, <1>6, <1>7

\* There are no more blocks than buffers.
LEMMA AllocatedFinite ==
  ASSUME NEW bs \in Seq(Simple)
  PROVE  IsFiniteSet(Allocated(bs)) /\ Cardinality(Allocated(bs)) \in 0 .. Len(bs)
<1> DEFINE n == Len(bs)
           A == Allocated(bs)
<1>1. n \in Nat /\ A \subseteq 1 .. n
  BY LenProperties DEF Allocated
<1> HIDE DEF n, A
<1>2. IsFiniteSet(1 .. n) /\ Cardinality(1 .. n) = n
  BY <1>1, FS_Interval
<1>3. IsFiniteSet(A) /\ Cardinality(A) <= n
  BY <1>1, <1>2, FS_Subset
<1>4. Cardinality(A) \in Nat
  BY <1>3, FS_CardinalityType
<1> QED
  BY <1>1, <1>3, <1>4 DEF A, n

\* A buffer gives way to another one.
LEMMA AllocatedSwap ==
  ASSUME NEW bs \in Seq(Simple), NEW j \in 1 .. Len(bs), NEW b \in Simple
  PROVE  LET bs2 == [bs EXCEPT ![j] = b]
         IN  /\ bs2 \in Seq(Simple) /\ Len(bs2) = Len(bs)
             /\ Cardinality(Allocated(bs2)) = Cardinality(Allocated(bs)) + BlocksOf(bs[j], b)
<1> DEFINE n == Len(bs)
           A == Allocated(bs)
           bs2 == [bs EXCEPT ![j] = b]
           A2 == Allocated(bs2)
<1>1. n \in Nat /\ DOMAIN bs = 1 .. n /\ \A k \in 1 .. n : bs[k] \in Simple
  BY LenProperties, ElementOfSeq
<1> HIDE DEF n
<1>2. bs2 \in [1 .. n -> Simple] /\ \A k \in 1 .. n : bs2[k] = IF k = j THEN b ELSE bs[k]
  BY <1>1
<1> HIDE DEF bs2
<1>3. bs2 \in Seq(Simple) /\ Len(bs2) = n
  BY <1>1, <1>2, FunctionIsSeq
<1>4. /\ A = {k \in 1 .. n : bs[k].must_free_data}
      /\ A2 = {k \in 1 .. n : bs2[k].must_free_data}
  BY <1>3 DEF Allocated, n
<1>5. IsFiniteSet(A) /\ Cardinality(A) \in Int
  BY <1>1, AllocatedFinite DEF n
<1>6. bs[j].must_free_data \in BOOLEAN /\ b.must_free_data \in BOOLEAN /\ j \in 1 .. n
  BY <1>1 DEF Simple, n
<1> HIDE DEF A, A2
<1>7. CASE bs[j].must_free_data = b.must_free_data
  <2>1. A2 = A
    BY <1>2, <1>4, <1>7
  <2>2. BlocksOf(bs[j], b) = 0
    BY <1>7 DEF BlocksOf
  <2> QED
    BY <1>3, <1>5, <2>1, <2>2 DEF A, A2, n, bs2
<1>8. CASE ~bs[j].must_free_data /\ b.must_free_data
  <2>1. A2 = A \cup {j} /\ j \notin A
    BY <1>2, <1>4, <1>6, <1>8
  <2>2. Cardinality(A2) = Cardinality(A) + 1
    BY <1>5, <2>1, FS_AddElement
  <2>3. BlocksOf(bs[j], b) = 1
    BY <1>8 DEF BlocksOf
  <2> QED
    BY <1>3, <2>2, <2>3 DEF A, A2, n, bs2
<1>9. CASE bs[j].must_free_data /\ ~b.must_free_data
  <2>1. A2 = A \ {j} /\ j \in A
    BY <1>2, <1>4, <1>6, <1>9
  <2>2. Cardinality(A2) = Cardinality(A) - 1
    BY <1>5, <2>1, FS_RemoveElement
  <2>3. BlocksOf(bs[j], b) = -1
    BY <1>9 DEF BlocksOf
  <2>4. Cardinality(A) - 1 = Cardinality(A) + (-1)
    BY <1>5
  <2> QED
    BY <1>3, <2>2, <2>3, <2>4 DEF A, A2, n, bs2
<1> QED
  BY <1>6, <1>7, <1>8, <1>9

\* One buffer more, without a block of its own.
LEMMA AllocatedMore ==
  ASSUME NEW bs \in Seq(Simple), NEW b \in Simple, ~b.must_free_data
  PROVE  Allocated(Append(bs, b)) = Allocated(bs)
<1> DEFINE n == Len(bs)
           bs2 == Append(bs, b)
<1>1. n \in Nat /\ Len(bs2) = n + 1 /\ bs2[n + 1] = b /\ \A k \in 1 .. n : bs2[k] = bs[k]
  BY AppendProperties, LenProperties
<1> HIDE DEF n, bs2
<1>2. \A k : k \in 1 .. n + 1 <=> k \in 1 .. n \/ k = n + 1
  BY <1>1
<1> QED
  BY <1>1, <1>2 DEF Allocated, bs2, n

\* Without the last buffer.
LEMMA AllocatedFront ==
  ASSUME NEW bs \in Seq(Simple), Len(bs) # 0, NEW bs2 \in Seq(Simple), Len(bs2) = Len(bs) - 1,
         \A k \in 1 .. Len(bs) - 1 : bs2[k] = bs[k]
  PROVE  Cardinality(Allocated(bs2)) = Cardinality(Allocated(bs)) - freed(bs[Len(bs)])
<1> DEFINE n == Len(bs)
           A == Allocated(bs)
           A2 == Allocated(bs2)
<1>1. n \in Nat
  BY LenProperties
<1>2. IsFiniteSet(A) /\ Cardinality(A) \in Int
  BY <1>1, AllocatedFinite
<1>3. n # 0 /\ Len(bs2) = n - 1 /\ \A k \in 1 .. n - 1 : bs2[k] = bs[k]
  OBVIOUS
<1> HIDE DEF n
<1>4. \A k : k \in 1 .. n <=> k \in 1 .. n - 1 \/ k = n
  BY <1>1, <1>3
<1>5. n \notin 1 .. n - 1
  BY <1>1
<1>6. A2 = A \ {n}
  BY <1>3, <1>4, <1>5 DEF Allocated, n
<1>7. n \in A <=> bs[n].must_free_data
  BY <1>4 DEF Allocated, n
<1> HIDE DEF A, A2
<1>8. Cardinality(A2) = IF n \in A THEN Cardinality(A) - 1 ELSE Cardinality(A)
  BY <1>2, <1>6, FS_RemoveElement
<1> QED
  BY <1>2, <1>7, <1>8 DEF freed, A, A2, n

\* The stack after a step, at every depth.
LEMMA AfterFacts ==
  ASSUME NEW s \in States, NEW step \in StepSet, Allowed(s, step)
  PROVE  /\ After(s, step) \in States /\ After(s, step).h = Height(s, step)
         /\ After(s, step).n = s.n + Returned(step)
         /\ \A k \in Nat : After(s, step).data[k] = IF k = At(step) THEN New(s, step) ELSE s.data[k]
<1> DEFINE t == After(s, step)
<1>1. t \in States /\ At(step) \in Nat
  BY AfterState, RunsOne
<1>2. t.h = Height(s, step) /\ t.n = s.n + Returned(step)
      /\ t.data = [s.data EXCEPT ![At(step)] = New(s, step)]
  BY DEF After
<1>3. s.data \in [Nat -> Seq(Byte)]
  BY DEF States
<1> HIDE DEF t
<1>4. \A k \in Nat : t.data[k] = IF k = At(step) THEN New(s, step) ELSE s.data[k]
  BY <1>1, <1>2, <1>3
<1> QED
  BY <1>1, <1>2, <1>4 DEF t

\* What an append to one of the buffers leaves of them.
Extended(bs, step, found) == append(bs[step.depth + 1], step.bytes, found)
AppendTo(bs, step, found) == [bs EXCEPT ![step.depth + 1] = Extended(bs, step, found)]
MoreBlocks(bs, step, found) ==
    Cardinality(Allocated(AppendTo(bs, step, found)))
      = Cardinality(Allocated(bs)) + BlocksOf(bs[step.depth + 1], Extended(bs, step, found))

\* An append to one of the buffers.
LEMMA LikeAppend ==
  ASSUME NEW s \in States, NEW bs \in Seq(Simple), NEW n, NEW d \in BOOLEAN, NEW found \in BOOLEAN,
         NEW step \in StepSet, step.do = "append", Allowed(s, step), Like(s, bs, n, d)
  PROVE  /\ AppendTo(bs, step, found) \in Seq(Simple)
         /\ Like(After(s, step), AppendTo(bs, step, found), n + Returned(step), d \/ ~found)
         /\ MoreBlocks(bs, step, found)
<1> DEFINE c == step.depth
           j == c + 1
           y == step.bytes
           b == append(bs[j], y, found)
           bs2 == [bs EXCEPT ![j] = b]
           F == Len(bs)
           u == After(s, step)
           x == s.data[c]
           w == x \o y
<1>1. /\ c \in Nat /\ F \in Nat /\ s.h = F /\ c < F /\ s.n = n /\ y \in Seq(Byte)
      /\ At(step) = c /\ New(s, step) = w /\ Height(s, step) = F /\ Len(w) < U32
  <2>1. At(step) = step.depth + 0
    BY DEF At
  <2>2. step.depth \in Nat /\ step.depth + 0 = step.depth /\ y \in Seq(Byte)
    BY DEF StepSet
  <2>3. New(s, step) = w /\ Height(s, step) = s.h
    BY DEF New, Height
  <2> QED
    BY <2>1, <2>2, <2>3, LenProperties DEF Like, Allowed
<1>2. /\ u \in States /\ u.h = F /\ u.n = n + Returned(step)
      /\ \A k \in Nat : u.data[k] = IF k = c THEN w ELSE s.data[k]
  <2>1. /\ u \in States /\ u.h = Height(s, step) /\ u.n = s.n + Returned(step)
        /\ \A k \in Nat : u.data[k] = IF k = At(step) THEN New(s, step) ELSE s.data[k]
    BY AfterFacts
  <2> HIDE DEF u, w, c, F
  <2> QED
    BY <1>1, <2>1
<1>3. x \in Seq(Byte)
  BY <1>1 DEF States
<1> HIDE DEF c, F, u, x, y
<1>4. j \in 1 .. F /\ j - 1 = c
  BY <1>1
<1> HIDE DEF j
<1>5. bs[j] \in Simple
  BY <1>4, ElementOfSeq DEF F
<1> DEFINE a == bs[j].data
           la == Len(a)
           ly == Len(y)
           lx == Len(x)
<1>6. la <= lx /\ (~d => a = x)
  BY <1>4 DEF Like, F, x
<1>7. a \in Seq(Byte) /\ la \in Nat /\ ly \in Nat /\ lx \in Nat
  <2>1. a \in Seq(Byte)
    BY <1>5 DEF Simple
  <2> QED
    BY <1>1, <1>3, <2>1, LenProperties
<1>8. Len(w) = lx + ly
  BY <1>1, <1>3, ConcatProperties
<1> HIDE DEF a, la, ly, lx
<1>9. la + ly <= lx + ly /\ la + ly < U32
  <2>1. lx + ly < U32 /\ U32 \in Nat
    BY <1>1, <1>8, PowerFacts
  <2> QED
    BY <1>6, <1>7, <2>1
<1>10. b \in Simple /\ Len(b.data) <= la + ly /\ (found => b.data = a \o y)
  <2>1. Len(bs[j].data) + Len(y) < U32
    BY <1>9 DEF la, ly, a
  <2> QED
    BY <1>1, <1>5, <2>1, AppendSimple DEF la, ly, a
<1> HIDE DEF b
<1>11. /\ bs2 \in Seq(Simple) /\ Len(bs2) = F
       /\ Cardinality(Allocated(bs2)) = Cardinality(Allocated(bs)) + BlocksOf(bs[j], b)
  BY <1>4, <1>10, AllocatedSwap DEF F
<1>12. \A k \in 1 .. F : bs2[k] = IF k = j THEN b ELSE bs[k]
  <2>1. DOMAIN bs = 1 .. F
    BY LenProperties DEF F
  <2> QED
    BY <2>1
<1> HIDE DEF bs2, w
<1>13. ASSUME NEW k \in 1 .. F
       PROVE  /\ Len(bs2[k].data) <= Len(u.data[k - 1])
              /\ ~(d \/ ~found) => bs2[k].data = u.data[k - 1]
  <2>1. CASE k = j
    <3>1. bs2[k] = b /\ u.data[k - 1] = w
      BY <1>1, <1>2, <1>4, <1>12, <2>1
    <3>2. Len(b.data) <= Len(w)
      <4> DEFINE l == Len(b.data)
      <4>1. l \in Nat
        <5>1. b.data \in Seq(Byte)
          BY <1>10 DEF Simple
        <5> QED
          BY <5>1, LenProperties
      <4> HIDE DEF l
      <4>2. l <= la + ly
        BY <1>10 DEF l
      <4>3. l <= lx + ly
        BY <1>7, <1>9, <4>1, <4>2
      <4> QED
        BY <1>8, <4>3 DEF l
    <3>3. ~(d \/ ~found) => b.data = w
      BY <1>6, <1>10 DEF w
    <3> QED
      BY <3>1, <3>2, <3>3
  <2>2. CASE k # j
    <3>1. k - 1 \in Nat /\ k - 1 # c
      BY <1>1, <1>4, <2>2
    <3>2. bs2[k] = bs[k] /\ u.data[k - 1] = s.data[k - 1]
      BY <1>2, <1>12, <2>2, <3>1
    <3>3. Len(bs[k].data) <= Len(s.data[k - 1]) /\ (~d => bs[k].data = s.data[k - 1])
      BY DEF Like, F
    <3> QED
      BY <3>2, <3>3
  <2> QED
    BY <2>1, <2>2
<1>14. Like(u, bs2, n + Returned(step), d \/ ~found)
  BY <1>2, <1>11, <1>13 DEF Like
<1>15. Extended(bs, step, found) = b /\ AppendTo(bs, step, found) = bs2
  BY DEF Extended, AppendTo, bs2, b, j, c, y
<1>16. MoreBlocks(bs, step, found)
  BY <1>11, <1>15 DEF MoreBlocks, j, c
<1> QED
  BY <1>11, <1>14, <1>15, <1>16 DEF u

\* A buffer for a nested message.
LEMMA LikeOpen ==
  ASSUME NEW s \in States, NEW bs \in Seq(Simple), NEW n, NEW d \in BOOLEAN,
         NEW step \in StepSet, step.do = "open", Allowed(s, step), Like(s, bs, n, d)
  PROVE  LET bs2 == Append(bs, SimpleInit(InnerScratch))
         IN  /\ bs2 \in Seq(Simple)
             /\ Like(After(s, step), bs2, n + Returned(step), d)
             /\ Cardinality(Allocated(bs2)) = Cardinality(Allocated(bs))
<1> DEFINE b == SimpleInit(InnerScratch)
           bs2 == Append(bs, b)
           F == Len(bs)
           u == After(s, step)
<1>1. /\ F \in Nat /\ s.h = F /\ s.n = n /\ At(step) = F
      /\ New(s, step) = <<>> /\ Height(s, step) = F + 1
  <2>1. At(step) = step.depth + 1 /\ step.depth + 1 = s.h
    BY DEF At, Allowed
  <2>2. New(s, step) = <<>> /\ Height(s, step) = s.h + 1
    BY DEF New, Height
  <2> QED
    BY <2>1, <2>2, LenProperties DEF Like
<1>2. /\ u \in States /\ u.h = F + 1 /\ u.n = n + Returned(step)
      /\ \A k \in Nat : u.data[k] = IF k = F THEN <<>> ELSE s.data[k]
  BY <1>1, AfterFacts
<1>3. b \in Simple /\ b.data = <<>> /\ ~b.must_free_data
  BY PackAssumption, SimpleEmpty
<1> HIDE DEF b, u
<1>4. /\ bs2 \in Seq(Simple) /\ Len(bs2) = F + 1 /\ bs2[F + 1] = b
      /\ \A k \in 1 .. F : bs2[k] = bs[k]
  BY <1>3, AppendProperties
<1>5. Allocated(bs2) = Allocated(bs)
  BY <1>3, AllocatedMore
<1> HIDE DEF bs2, F
<1>6. ASSUME NEW k \in 1 .. F + 1
      PROVE  Len(bs2[k].data) <= Len(u.data[k - 1]) /\ (~d => bs2[k].data = u.data[k - 1])
  <2>1. CASE k = F + 1
    <3>1. k - 1 = F
      BY <1>1, <2>1
    <3>2. bs2[k].data = <<>> /\ u.data[k - 1] = <<>>
      BY <1>1, <1>2, <1>3, <1>4, <2>1, <3>1
    <3>3. Len(<<>>) = 0
      BY EmptySeq
    <3> QED
      BY <3>2, <3>3
  <2>2. CASE k # F + 1
    <3>1. k \in 1 .. F /\ k - 1 \in Nat /\ k - 1 # F
      BY <1>1, <2>2
    <3>2. bs2[k] = bs[k] /\ u.data[k - 1] = s.data[k - 1]
      BY <1>2, <1>4, <3>1
    <3>3. Len(bs[k].data) <= Len(s.data[k - 1]) /\ (~d => bs[k].data = s.data[k - 1])
      BY <3>1 DEF Like, F
    <3> QED
      BY <3>2, <3>3
  <2> QED
    BY <2>1, <2>2
<1>7. Like(u, bs2, n + Returned(step), d)
  BY <1>2, <1>4, <1>6 DEF Like
<1> QED
  BY <1>4, <1>5, <1>7 DEF bs2, b, u

\* Room as long as what is missing.
LEMMA RoomBytes ==
  ASSUME NEW n \in Nat
  PROVE  Room(n) \in Seq(Byte) /\ Len(Room(n)) = n /\ Room(0) = <<>>
<1>1. 0 \in Byte
  BY ByteFacts
<1>2. Room(n) \in [1 .. n -> Byte]
  BY <1>1 DEF Room
<1>3. Room(n) \in Seq(Byte) /\ Len(Room(n)) = n
  <2> HIDE DEF Room
  <2> QED
    BY <1>2, FunctionIsSeq
<1>4. Room(0) = <<>>
  BY DEF Room
<1> QED
  BY <1>3, <1>4

\* The buffer of a nested message joins the one around it.
LEMMA LikeJoin ==
  ASSUME NEW s \in States, NEW bs \in Seq(Simple), NEW n, NEW d \in BOOLEAN, NEW found \in BOOLEAN,
         NEW step \in StepSet, step.do = "join", Allowed(s, step), Like(s, bs, n, d)
  PROVE  LET inner == Last(bs)
             bytes == inner.data \o Room(step.len - Len(inner.data))
             b     == append(bs[step.depth + 1], bytes, found)
             bs2   == Append(SubSeq(bs, 1, Len(bs) - 2), b)
         IN  /\ bs2 \in Seq(Simple)
             /\ Like(After(s, step), bs2, n + Returned(step), d \/ ~found)
             /\ Cardinality(Allocated(bs2))
                  = Cardinality(Allocated(bs)) + BlocksOf(bs[step.depth + 1], b) - freed(inner)
<1> DEFINE F == Len(bs)
           c == step.depth
           j == c + 1
           inner == bs[F]
           v == s.data[c + 1]
           x == s.data[c]
           y == inner.data \o Room(step.len - Len(inner.data))
           b == append(bs[j], y, found)
           bs2 == Append(SubSeq(bs, 1, F - 2), b)
           u == After(s, step)
           w == x \o v
<1>1. /\ c \in Nat /\ F \in Nat /\ s.h = F /\ c + 2 = F /\ s.n = n /\ step.len = Len(v)
      /\ At(step) = c /\ New(s, step) = w /\ Height(s, step) = F - 1 /\ Len(w) < U32
  <2>1. At(step) = step.depth + 0
    BY DEF At
  <2>2. step.depth \in Nat /\ step.depth + 0 = step.depth
    BY DEF StepSet
  <2>3. New(s, step) = w /\ Height(s, step) = s.h - 1
    BY DEF New, Height
  <2>4. step.depth + 2 = s.h /\ step.len = Len(v) /\ Len(New(s, step)) < U32
    BY DEF Allowed
  <2> QED
    BY <2>1, <2>2, <2>3, <2>4, LenProperties DEF Like
<1>2. /\ u \in States /\ u.h = F - 1 /\ u.n = n + Returned(step)
      /\ \A k \in Nat : u.data[k] = IF k = c THEN w ELSE s.data[k]
  <2>1. /\ u \in States /\ u.h = Height(s, step) /\ u.n = s.n + Returned(step)
        /\ \A k \in Nat : u.data[k] = IF k = At(step) THEN New(s, step) ELSE s.data[k]
    BY AfterFacts
  <2> HIDE DEF u, w, c, F
  <2> QED
    BY <1>1, <2>1
<1>3. x \in Seq(Byte) /\ v \in Seq(Byte)
  <2>1. c \in Nat /\ s.data \in [Nat -> Seq(Byte)]
    BY <1>1 DEF States
  <2> DEFINE g == s.data
  <2> HIDE DEF g, c
  <2>2. c \in Nat /\ c + 1 \in Nat /\ g \in [Nat -> Seq(Byte)]
    BY <2>1 DEF g
  <2>3. g[c] \in Seq(Byte) /\ g[c + 1] \in Seq(Byte)
    BY <2>2
  <2> QED
    BY <2>3 DEF g
<1>4. /\ F \in 1 .. F /\ F - 1 = c + 1 /\ j \in 1 .. F /\ j - 1 = c /\ j = F - 1 /\ F # j
      /\ F - 2 = c /\ c <= F /\ F # 0
  <2> HIDE DEF F, c
  <2> QED
    BY <1>1
<1>5. inner \in Simple /\ bs[j] \in Simple /\ Last(bs) = inner
  BY <1>4, ElementOfSeq DEF Last
<1>6. /\ Len(inner.data) <= Len(v) /\ (~d => inner.data = v)
      /\ Len(bs[j].data) <= Len(x) /\ (~d => bs[j].data = x)
  <2>1. \A k \in 1 .. F : Len(bs[k].data) <= Len(s.data[k - 1]) /\ (~d => bs[k].data = s.data[k - 1])
    BY DEF Like
  <2> HIDE DEF F, c, j
  <2>2. s.data[F - 1] = v /\ s.data[j - 1] = x
    BY <1>4
  <2> QED
    BY <1>4, <2>1, <2>2 DEF inner
<1>7. inner.data \in Seq(Byte) /\ bs[j].data \in Seq(Byte)
  BY <1>5 DEF Simple
<1> DEFINE z == inner.data
           a == bs[j].data
           lz == Len(z)
           la == Len(a)
           lv == Len(v)
           lx == Len(x)
           r == Room(lv - lz)
<1>8. z \in Seq(Byte) /\ a \in Seq(Byte) /\ lz \in Nat /\ la \in Nat /\ lv \in Nat /\ lx \in Nat
  BY <1>3, <1>7, LenProperties
<1>9. lz <= lv /\ la <= lx /\ (~d => z = v /\ a = x)
  BY <1>6
<1>10. y = z \o r
  BY <1>1
<1> HIDE DEF F, c, j, inner, x, v, u, y, z, a, lz, la, lv, lx
<1>11. lv - lz \in Nat
  BY <1>8, <1>9
<1>12. r \in Seq(Byte) /\ Len(r) = lv - lz
  BY <1>11, RoomBytes
<1>13. y \in Seq(Byte) /\ Len(y) = lv /\ (~d => y = v)
  <2>1. z \o r \in Seq(Byte) /\ Len(z \o r) = lz + (lv - lz)
    <3> HIDE DEF r
    <3> QED
      BY <1>8, <1>12, ConcatProperties DEF lz
  <2>2. lz + (lv - lz) = lv
    BY <1>8
  <2>3. ASSUME ~d PROVE z \o r = v
    <3>1. z = v /\ lv - lz = 0
      <4>1. z = v
        BY <1>9, <2>3
      <4>2. lz = lv
        BY <4>1 DEF lz, lv
      <4> QED
        BY <1>8, <4>1, <4>2
    <3>2. r = <<>>
      BY <1>11, <3>1, RoomBytes
    <3>3. z \o <<>> = z
      BY <1>8, ConcatEmptySeq
    <3> HIDE DEF r
    <3> QED
      BY <3>1, <3>2, <3>3
  <2> QED
    BY <1>10, <2>1, <2>2, <2>3
<1> HIDE DEF r
<1>14. Len(w) = lx + lv
  <2>1. Len(x \o v) = Len(x) + Len(v)
    BY <1>3, ConcatProperties
  <2> QED
    BY <2>1 DEF lx, lv
<1>15. la + lv <= lx + lv /\ la + lv < U32
  <2>1. lx + lv < U32 /\ U32 \in Nat
    BY <1>1, <1>14, PowerFacts
  <2> QED
    BY <1>8, <1>9, <2>1
<1>16. b \in Simple /\ Len(b.data) <= la + lv /\ (found => b.data = a \o y)
  <2>1. Len(bs[j].data) + Len(y) < U32
    BY <1>13, <1>15 DEF la, a
  <2> QED
    BY <1>5, <1>13, <2>1, AppendSimple DEF la, a
<1> HIDE DEF b, w
<1> DEFINE bs1 == [bs EXCEPT ![j] = b]
<1>17. /\ bs1 \in Seq(Simple) /\ Len(bs1) = F
       /\ Cardinality(Allocated(bs1)) = Cardinality(Allocated(bs)) + BlocksOf(bs[j], b)
  <2>1. j \in 1 .. Len(bs)
    BY <1>4 DEF F
  <2> QED
    BY <1>16, <2>1, AllocatedSwap DEF F
<1>18. \A k \in 1 .. F : bs1[k] = IF k = j THEN b ELSE bs[k]
  <2>1. DOMAIN bs = 1 .. F
    BY LenProperties DEF F
  <2> QED
    BY <2>1
<1> HIDE DEF bs1
<1> DEFINE q == SubSeq(bs, 1, F - 2)
<1>19. q \in Seq(Simple) /\ Len(q) = F - 2 /\ \A k \in 1 .. F - 2 : q[k] = bs[k]
  <2> DEFINE e == F - 2
  <2>1. e = c /\ e \in Nat /\ e <= F
    BY <1>1, <1>4
  <2>2. \A k \in 1 .. e : k \in 1 .. F
    BY <1>1, <2>1
  <2> HIDE DEF e
  <2>3. SubSeq(bs, 1, e) \in Seq(Simple) /\ Len(SubSeq(bs, 1, e)) = e /\ \A k \in 1 .. e : SubSeq(bs, 1, e)[k] = bs[k]
    <3>1. \A k \in 1 .. e : bs[k] \in Simple
      BY <2>2, ElementOfSeq DEF F
    <3>2. SubSeq(bs, 1, e) = [k \in 1 .. e |-> bs[k]]
      BY <2>1
    <3>3. [k \in 1 .. e |-> bs[k]] \in [1 .. e -> Simple]
      BY <3>1
    <3> QED
      BY <2>1, <3>2, <3>3, FunctionIsSeq
  <2> QED
    BY <2>3 DEF e
<1> HIDE DEF q
<1>20. /\ bs2 \in Seq(Simple) /\ Len(bs2) = F - 1 /\ bs2[j] = b
       /\ \A k \in 1 .. F - 2 : bs2[k] = bs[k]
  <2>1. /\ Append(q, b) \in Seq(Simple) /\ Len(Append(q, b)) = Len(q) + 1
        /\ Append(q, b)[Len(q) + 1] = b /\ \A k \in 1 .. Len(q) : Append(q, b)[k] = q[k]
    BY <1>16, <1>19, AppendProperties
  <2>2. (F - 2) + 1 = F - 1 /\ F - 1 = j
    BY <1>1, <1>4
  <2> DEFINE p == Append(q, b)
  <2>3. p = bs2
    BY DEF q
  <2> HIDE DEF p, bs2
  <2>4. p \in Seq(Simple) /\ Len(p) = F - 1 /\ p[j] = b /\ \A k \in 1 .. F - 2 : p[k] = bs[k]
    BY <1>19, <2>1, <2>2 DEF p
  <2> QED
    BY <2>3, <2>4
<1> HIDE DEF bs2
<1>21. \A k \in 1 .. F - 1 : bs2[k] = IF k = j THEN b ELSE bs[k]
  <2> TAKE k \in 1 .. F - 1
  <2>1. k = j \/ k \in 1 .. F - 2
    BY <1>1, <1>4
  <2>2. k \in 1 .. F - 2 => k # j
    BY <1>1, <1>4
  <2> QED
    BY <1>20, <2>1, <2>2
<1>22. Cardinality(Allocated(bs2)) = Cardinality(Allocated(bs1)) - freed(inner)
  <2>1. \A k \in 1 .. F - 1 : bs2[k] = bs1[k]
    <3>1. \A k \in 1 .. F - 1 : k \in 1 .. F
      BY <1>1
    <3> QED
      BY <1>18, <1>21, <3>1
  <2>2. bs1[F] = inner
    BY <1>4, <1>18 DEF inner
  <2> QED
    BY <1>4, <1>17, <1>20, <2>1, <2>2, AllocatedFront
<1>23. ASSUME NEW k \in 1 .. F - 1
       PROVE  /\ Len(bs2[k].data) <= Len(u.data[k - 1])
              /\ ~(d \/ ~found) => bs2[k].data = u.data[k - 1]
  <2>1. CASE k = j
    <3>1. bs2[k] = b /\ u.data[k - 1] = w
      BY <1>1, <1>2, <1>4, <1>21, <2>1
    <3>2. Len(b.data) <= Len(w)
      <4> DEFINE l == Len(b.data)
      <4>1. l \in Nat
        <5>1. b.data \in Seq(Byte)
          BY <1>16 DEF Simple
        <5> QED
          BY <5>1, LenProperties
      <4> HIDE DEF l
      <4>2. l <= la + lv
        BY <1>16 DEF l
      <4>3. l <= lx + lv
        BY <1>8, <1>15, <4>1, <4>2
      <4> QED
        BY <1>14, <4>3 DEF l
    <3>3. ~(d \/ ~found) => b.data = w
      BY <1>9, <1>13, <1>16 DEF w
    <3> QED
      BY <3>1, <3>2, <3>3
  <2>2. CASE k # j
    <3>1. k - 1 \in Nat /\ k - 1 # c /\ k \in 1 .. F
      BY <1>1, <1>4, <2>2
    <3>2. bs2[k] = bs[k] /\ u.data[k - 1] = s.data[k - 1]
      BY <1>2, <1>21, <2>2, <3>1
    <3>3. Len(bs[k].data) <= Len(s.data[k - 1]) /\ (~d => bs[k].data = s.data[k - 1])
      BY <3>1 DEF Like, F
    <3> QED
      BY <3>2, <3>3
  <2> QED
    BY <2>1, <2>2
<1>24. Like(u, bs2, n + Returned(step), d \/ ~found)
  BY <1>2, <1>20, <1>23 DEF Like
<1>25. Cardinality(Allocated(bs2)) = Cardinality(Allocated(bs)) + BlocksOf(bs[j], b) - freed(inner)
  <2> DEFINE p == Cardinality(Allocated(bs1))
             p0 == Cardinality(Allocated(bs))
             p2 == Cardinality(Allocated(bs2))
             m == BlocksOf(bs[j], b)
             o == freed(inner)
  <2>1. p = p0 + m
    BY <1>17
  <2>2. p2 = p - o
    BY <1>22
  <2>4. p0 \in Int
    BY <1>1, AllocatedFinite
  <2>5. m \in Int /\ o \in Int
    BY DEF BlocksOf, freed
  <2> HIDE DEF p, p0, p2, m, o
  <2>3. p2 = p0 + m - o
    BY <2>1, <2>2, <2>4, <2>5
  <2> QED
    BY <2>3 DEF p0, p2, m, o
<1> QED
  BY <1>5, <1>20, <1>24, <1>25 DEF bs2, b, y, j, c, u, inner, F, q
-----------------------------------------------------------------------------
(* pack_to_buffer, step by step.                                           *)

\* The turns of the loop of pack_to_buffer whose steps were put together, and whether
\* the buffer was cleared.
Turns   == IF pc \in {"size", "pack"} THEN 0 ELSE IF pc = "buffer" THEN i - 1 ELSE TotalOf(msg)
Cleared == pc \in {"read", "malformed", "done"}

\* What is left to do leads to one buffer, with the bytes that pack wrote in as many
\* turns; every block belongs to a buffer until the program clears it.
BufferInv ==
  /\ LoopInv
  /\ todo \in Seq(StepSet) /\ (todo # <<>> => pc = "buffer")
  /\ dropped \in BOOLEAN /\ buffers \in Seq(Simple)
  /\ Follows(todo, buffers, rv, dropped, PackUpTo(msg, Turns), SizeUpTo(msg, Turns))
  /\ blocks = IF Cleared THEN 0 ELSE Cardinality(Allocated(buffers))

\* The program begins with an empty buffer of its own.
LEMMA BufferInit == Init => BufferInv
<1> SUFFICES ASSUME Init PROVE BufferInv
  OBVIOUS
<1> DEFINE b == SimpleInit(Scratch)
           s == [h |-> 1, data |-> [k \in Nat |-> <<>>], n |-> 0]
<1>1. /\ msg \in Messages /\ pc = "size" /\ todo = <<>> /\ rv = 0 /\ buffers = <<b>>
      /\ blocks = 0 /\ dropped = FALSE
  BY DEF Init
<1>2. LoopInv
  BY LoopInit
<1>3. b \in Simple /\ b.data = <<>> /\ b.must_free_data = FALSE
  BY PackAssumption, SimpleEmpty
<1>4. s \in States /\ s.h = 1 /\ s.n = 0 /\ \A k \in Nat : s.data[k] = <<>>
  BY EmptySeq DEF States
<1>5. Turns = 0 /\ ~Cleared
  BY <1>1 DEF Turns, Cleared
<1>6. PackUpTo(msg, 0) = <<>> /\ SizeUpTo(msg, 0) = 0
  <2>1. msg \in Known
    BY <1>1, KnownFacts
  <2>2. 0 \in 0 .. TotalOf(msg)
    BY <2>1, TotalNat
  <2> QED
    BY <2>1, <2>2, TurnsBytes
<1> HIDE DEF b, s
<1>7. buffers \in Seq(Simple) /\ Len(buffers) = 1 /\ buffers[1] = b
  BY <1>1, <1>3
<1>8. Like(s, buffers, rv, dropped)
  <2>1. \A k \in 1 .. 1 : k = 1 /\ k - 1 \in Nat
    OBVIOUS
  <2>2. Len(<<>>) <= Len(<<>>)
    BY EmptySeq
  <2> QED
    BY <1>1, <1>3, <1>4, <1>7, <2>1, <2>2 DEF Like
<1>9. Runs(todo, s, s)
  BY <1>1, <1>4, RunsNone
<1>10. Holding(s, PackUpTo(msg, Turns), SizeUpTo(msg, Turns))
  BY <1>4, <1>5, <1>6 DEF Holding
<1>11. Follows(todo, buffers, rv, dropped, PackUpTo(msg, Turns), SizeUpTo(msg, Turns))
  BY <1>4, <1>8, <1>9, <1>10 DEF Follows
<1>12. Cardinality(Allocated(buffers)) = 0
  <2>1. \A k \in 1 .. 1 : k = 1
    OBVIOUS
  <2>2. Allocated(buffers) = {}
    BY <1>3, <1>7, <2>1 DEF Allocated
  <2> QED
    BY <2>2, FS_EmptySet
<1> QED
  BY <1>1, <1>2, <1>5, <1>7, <1>11, <1>12, EmptySeq DEF BufferInv

\* After the first step the others follow.
LEMMA HeadFollows ==
  ASSUME NEW p \in Seq(StepSet), p # <<>>, NEW bs, NEW n, NEW d, NEW bytes, NEW len,
         Follows(p, bs, n, d, bytes, len)
  PROVE  /\ Head(p) \in StepSet /\ Tail(p) \in Seq(StepSet)
         /\ \E s \in States : /\ Like(s, bs, n, d) /\ Allowed(s, Head(p))
                              /\ \A bs2, n2, d2 : Like(After(s, Head(p)), bs2, n2, d2) =>
                                                    Follows(Tail(p), bs2, n2, d2, bytes, len)
<1>1. Head(p) \in StepSet /\ Tail(p) \in Seq(StepSet)
  BY HeadTailProperties
<1>2. PICK s, t \in States : Like(s, bs, n, d) /\ Runs(p, s, t) /\ Holding(t, bytes, len)
  BY DEF Follows
<1>3. Allowed(s, Head(p)) /\ Runs(Tail(p), After(s, Head(p)), t)
  BY <1>2, RunsHead
<1>4. After(s, Head(p)) \in States
  BY <1>1, <1>3, AfterState
<1>5. ASSUME NEW bs2, NEW n2, NEW d2, Like(After(s, Head(p)), bs2, n2, d2)
      PROVE  Follows(Tail(p), bs2, n2, d2, bytes, len)
  BY <1>2, <1>3, <1>4, <1>5 DEF Follows
<1> QED
  BY <1>1, <1>2, <1>3, <1>5

\* When nothing is left to do, the buffer holds the bytes.
LEMMA NothingFollows ==
  ASSUME NEW bs, NEW n, NEW d, NEW bytes, NEW len, Follows(<<>>, bs, n, d, bytes, len)
  PROVE  \E s \in States : Like(s, bs, n, d) /\ Holding(s, bytes, len)
<1>1. PICK s, t \in States : Like(s, bs, n, d) /\ Runs(<<>>, s, t) /\ Holding(t, bytes, len)
  BY DEF Follows
<1>2. s = t
  BY <1>1, RunsNothing
<1> QED
  BY <1>1, <1>2

\* The steps of the next turn.
LEMMA TurnFollows ==
  ASSUME NEW m \in Known, NEW j \in 1 .. TotalOf(m), NEW bs, NEW n, NEW d,
         Follows(<<>>, bs, n, d, PackUpTo(m, j - 1), SizeUpTo(m, j - 1))
  PROVE  /\ ItemSteps(m, j) \in Seq(StepSet)
         /\ Follows(ItemSteps(m, j), bs, n, d, PackUpTo(m, j), SizeUpTo(m, j))
<1> DEFINE T == TotalOf(m)
           p == ItemSteps(m, j)
           b == ItemPack(m, j)
           x == PackUpTo(m, j - 1)
           c == SizeUpTo(m, j - 1)
           e == ItemSize(m, j)
<1>1. T \in Nat
  BY TotalNat
<1>2. Does(p, b)
  BY ItemDoes
<1>3. j \in 1 .. T
  OBVIOUS
<1> HIDE DEF T
<1>4. j - 1 \in 0 .. T /\ j \in 0 .. T /\ (j - 1) + 1 = j /\ (j - 1) + 1 <= T /\ T \in 0 .. T
  BY <1>1, <1>3
<1>5. SizeUpTo(m, j) = c + e /\ PackUpTo(m, j) = x \o b
  <2>1. /\ SizeUpTo(m, (j - 1) + 1) = SizeUpTo(m, j - 1) + ItemSize(m, (j - 1) + 1)
        /\ PackUpTo(m, (j - 1) + 1) = PackUpTo(m, j - 1) \o ItemPack(m, (j - 1) + 1)
    BY <1>4, NextTurn DEF T
  <2> QED
    BY <1>4, <2>1
<1>6. x \in Seq(Byte) /\ Len(x) = c /\ Len(b) = e
  <2>1. Written(Byte, c, x)
    BY <1>4, TurnsBytes DEF T
  <2>2. Written(Byte, e, b)
    BY <1>3, ItemBytes DEF T
  <2> QED
    BY <2>1, <2>2 DEF Written
<1>7. c + e < U32
  <2> DEFINE all == SizeUpTo(m, T)
             now == SizeUpTo(m, j)
  <2>1. now <= all /\ now \in Nat /\ all \in Nat
    BY <1>4, TurnsGrow, TurnsBytes DEF T
  <2>2. all < U32 /\ U32 \in Nat
    BY WholeMessage, KnownFacts, PowerFacts DEF T
  <2> HIDE DEF all, now
  <2>3. now < U32
    BY <2>1, <2>2
  <2> QED
    BY <1>5, <2>3 DEF now
<1>8. PICK s \in States : Like(s, bs, n, d) /\ Holding(s, x, c)
  BY NothingFollows
<1> HIDE DEF p, b, x, c, e
<1>9. s.h = 1 /\ s.data[0] = x /\ s.n = c
  BY <1>8 DEF Holding
<1>10. Len(s.data[0]) + Len(b) < U32
  BY <1>6, <1>7, <1>9
<1>11. PICK t \in States : Runs(p, s, t) /\ Holding(t, s.data[0] \o b, s.n + Len(b))
  BY <1>2, <1>9, <1>10 DEF Does
<1>12. Holding(t, PackUpTo(m, j), SizeUpTo(m, j))
  BY <1>5, <1>6, <1>9, <1>11
<1>13. Follows(p, bs, n, d, PackUpTo(m, j), SizeUpTo(m, j))
  BY <1>8, <1>11, <1>12 DEF Follows
<1>14. p \in Seq(StepSet)
  BY <1>2 DEF Does
<1> QED
  BY <1>13, <1>14 DEF p

\* When nothing is left to do there is one buffer, and its block is the only one.
LEMMA LastBlock ==
  ASSUME NEW bs \in Seq(Simple), NEW n, NEW d, NEW bytes, NEW len, Follows(<<>>, bs, n, d, bytes, len)
  PROVE  Len(bs) = 1 /\ Cardinality(Allocated(bs)) - freed(bs[1]) = 0
<1>1. PICK s \in States : Like(s, bs, n, d) /\ Holding(s, bytes, len)
  BY NothingFollows
<1>2. Len(bs) = 1
  BY <1>1 DEF Like, Holding
<1>3. <<>> \in Seq(Simple) /\ Len(<<>>) = 0
  BY EmptySeq
<1>4. Cardinality(Allocated(<<>>)) = 0
  <2>1. Cardinality(Allocated(<<>>)) \in 0 .. 0
    BY <1>3, AllocatedFinite
  <2> QED
    BY <2>1
<1>5. Cardinality(Allocated(<<>>)) = Cardinality(Allocated(bs)) - freed(bs[1])
  <2>1. 1 # 0 /\ 1 - 1 = 0 /\ 1 .. 0 = {}
    OBVIOUS
  <2> QED
    BY <1>2, <1>3, <2>1, AllocatedFront
<1> QED
  BY <1>2, <1>4, <1>5

\* What keeps the buffers, and what is left to do, keeps the invariant.
LEMMA BuffersKept ==
  ASSUME BufferInv, LoopInv', UNCHANGED <<msg, todo, rv, buffers, blocks, dropped>>,
         Turns' = Turns, Cleared' = Cleared, todo = <<>> \/ pc' = "buffer"
  PROVE  BufferInv'
<1>1. /\ todo \in Seq(StepSet) /\ dropped \in BOOLEAN /\ buffers \in Seq(Simple)
      /\ Follows(todo, buffers, rv, dropped, PackUpTo(msg, Turns), SizeUpTo(msg, Turns))
      /\ blocks = IF Cleared THEN 0 ELSE Cardinality(Allocated(buffers))
  BY DEF BufferInv
<1>2. /\ todo' = todo /\ rv' = rv /\ buffers' = buffers /\ blocks' = blocks /\ dropped' = dropped
      /\ msg' = msg
  OBVIOUS
<1>3. Follows(todo', buffers', rv', dropped', PackUpTo(msg', Turns'), SizeUpTo(msg', Turns'))
  BY <1>1, <1>2
<1>4. blocks' = IF Cleared' THEN 0 ELSE Cardinality(Allocated(buffers'))
  BY <1>1, <1>2
<1>5. todo' # <<>> => pc' = "buffer"
  BY <1>2
<1> QED
  BY <1>1, <1>2, <1>3, <1>4, <1>5 DEF BufferInv

\* A step that leads on keeps the invariant.
LEMMA StepKept ==
  ASSUME BufferInv, LoopInv', todo # <<>>, todo' = Tail(todo), UNCHANGED <<msg, pc, i>>,
         buffers' \in Seq(Simple), dropped' \in BOOLEAN, todo' \in Seq(StepSet),
         Follows(todo', buffers', rv', dropped', PackUpTo(msg, Turns), SizeUpTo(msg, Turns)),
         blocks' = Cardinality(Allocated(buffers'))
  PROVE  BufferInv'
<1>1. pc = "buffer" /\ pc' = "buffer" /\ i' = i /\ msg' = msg
  BY DEF BufferInv
<1>2. Turns' = Turns /\ ~Cleared'
  BY <1>1 DEF Turns, Cleared
<1> QED
  BY <1>1, <1>2 DEF BufferInv

\* Every step of the program keeps the invariant.
LEMMA BufferStep ==
  ASSUME BufferInv, [Next]_vars
  PROVE  BufferInv'
<1> DEFINE T == TotalOf(msg)
<1>1. LoopInv /\ LoopInv'
  BY LoopStep DEF BufferInv
<1>2. /\ todo \in Seq(StepSet) /\ (todo # <<>> => pc = "buffer")
      /\ dropped \in BOOLEAN /\ buffers \in Seq(Simple)
      /\ Follows(todo, buffers, rv, dropped, PackUpTo(msg, Turns), SizeUpTo(msg, Turns))
      /\ blocks = IF Cleared THEN 0 ELSE Cardinality(Allocated(buffers))
  BY DEF BufferInv
<1>3. /\ msg \in Known /\ i \in Nat \ {0} /\ pc \in Pcs
      /\ pc \in {"size", "pack", "buffer"} => i <= T + 1
      /\ Total = T /\ T \in Nat
  <2>1. msg \in Known
    BY <1>1, KnownFacts DEF LoopInv
  <2>2. Total = T
    BY DEF Total, Fields, TotalOf
  <2>3. T \in Nat
    BY <2>1, TotalNat
  <2> QED
    BY <1>1, <2>1, <2>2, <2>3 DEF LoopInv
<1> HIDE DEF T
<1>4. ASSUME NEW do, Step(do)
      PROVE  /\ todo # <<>> /\ Head(todo).do = do /\ todo' = Tail(todo)
             /\ rv' = rv + Returned(Head(todo)) /\ UNCHANGED <<msg, pc, i>>
             /\ pc = "buffer" /\ blocks = Cardinality(Allocated(buffers))
  <2>1. todo # <<>> /\ Head(todo).do = do /\ todo' = Tail(todo)
        /\ rv' = rv + Returned(Head(todo)) /\ UNCHANGED <<msg, pc, i>>
    BY <1>4 DEF Step
  <2>2. pc = "buffer" /\ ~Cleared
    BY <1>2, <2>1 DEF Cleared
  <2> QED
    BY <1>2, <2>1, <2>2
<1>5. CASE Size \/ PackItem
  <2>1. UNCHANGED <<msg, pc, todo, rv, buffers, blocks, dropped>> /\ pc \in {"size", "pack"}
    BY <1>5 DEF Size, PackItem, bufferVars
  <2>2. Turns' = Turns /\ Cleared' = Cleared /\ todo = <<>>
    BY <1>2, <2>1 DEF Turns, Cleared
  <2> QED
    BY <1>1, <2>1, <2>2, BuffersKept
<1>6. CASE NextCall
  <2>1. /\ UNCHANGED <<msg, todo, rv, buffers, blocks, dropped>> /\ todo = <<>>
        /\ i > T /\ i' = 1
        /\ \/ pc = "size" /\ pc' = "pack"
           \/ pc = "pack" /\ pc' = "buffer"
           \/ pc = "buffer" /\ pc' = "buffered"
    BY <1>3, <1>6 DEF NextCall, bufferVars
  <2>2. pc \in {"size", "pack", "buffer"} /\ i - 1 = T /\ i' - 1 = 0
    BY <1>3, <2>1
  <2>3. Turns' = Turns
    BY <2>1, <2>2 DEF Turns, T
  <2>4. Cleared' = Cleared
    BY <2>1 DEF Cleared
  <2> QED
    BY <1>1, <2>1, <2>3, <2>4, BuffersKept
<1>7. CASE BufferItem
  <2>1. /\ pc = "buffer" /\ i <= T /\ todo = <<>> /\ i' = i + 1
        /\ UNCHANGED <<msg, pc, rv, buffers, blocks, dropped>>
        /\ todo' = IF AtField THEN FieldAppends(Field, message_pack_to_buffer)
                   ELSE UnknownAppends(Unknown)
    BY <1>3, <1>7 DEF BufferItem
  <2>2. todo' = ItemSteps(msg, i)
    <3>1. (IF AtField THEN FieldAppends(Field, message_pack_to_buffer)
           ELSE UnknownAppends(Unknown)) = ItemSteps(msg, i)
      BY DEF ItemSteps, AtField, Fields, Field, Unknown
    <3> QED
      BY <2>1, <3>1
  <2>3. i \in 1 .. TotalOf(msg)
    BY <1>3, <2>1 DEF T
  <2>4. Turns = i - 1 /\ Turns' = i /\ ~Cleared /\ ~Cleared'
    <3>1. (i + 1) - 1 = i
      BY <1>3
    <3> QED
      BY <2>1, <3>1 DEF Turns, Cleared
  <2>5. Follows(<<>>, buffers, rv, dropped, PackUpTo(msg, i - 1), SizeUpTo(msg, i - 1))
    BY <1>2, <2>1, <2>4
  <2>6. /\ ItemSteps(msg, i) \in Seq(StepSet)
        /\ Follows(ItemSteps(msg, i), buffers, rv, dropped, PackUpTo(msg, i), SizeUpTo(msg, i))
    BY <1>3, <2>3, <2>5, TurnFollows
  <2>7. Follows(todo', buffers', rv', dropped', PackUpTo(msg', Turns'), SizeUpTo(msg', Turns'))
    BY <2>1, <2>2, <2>4, <2>6
  <2>8. blocks' = IF Cleared' THEN 0 ELSE Cardinality(Allocated(buffers'))
    BY <1>2, <2>1, <2>4
  <2>9. todo' \in Seq(StepSet) /\ pc' = "buffer" /\ dropped' \in BOOLEAN /\ buffers' \in Seq(Simple)
    BY <1>2, <2>1, <2>2, <2>6
  <2> QED
    BY <1>1, <2>7, <2>8, <2>9 DEF BufferInv
<1>8. ASSUME NEW found \in BOOLEAN, DoAppend(found) PROVE BufferInv'
  <2> DEFINE step == Head(todo)
             j == step.depth + 1
             b == append(buffers[j], step.bytes, found)
  <2>1. /\ todo # <<>> /\ step.do = "append" /\ todo' = Tail(todo)
        /\ rv' = rv + Returned(step) /\ UNCHANGED <<msg, pc, i>>
        /\ pc = "buffer" /\ blocks = Cardinality(Allocated(buffers))
    <3>1. Step("append")
      BY <1>8 DEF DoAppend
    <3> QED
      BY <1>4, <3>1
  <2>2. /\ dropped' = (dropped \/ ~found) /\ buffers' = [buffers EXCEPT ![j] = b]
        /\ blocks' = blocks + BlocksOf(buffers[j], b)
    BY <1>8 DEF DoAppend, MayAppend, Target
  <2>3. /\ step \in StepSet /\ Tail(todo) \in Seq(StepSet)
        /\ \E s \in States :
             /\ Like(s, buffers, rv, dropped) /\ Allowed(s, step)
             /\ \A bs2, n2, d2 : Like(After(s, step), bs2, n2, d2) =>
                  Follows(Tail(todo), bs2, n2, d2, PackUpTo(msg, Turns), SizeUpTo(msg, Turns))
    BY <1>2, <2>1, HeadFollows
  <2>4. PICK s \in States :
             /\ Like(s, buffers, rv, dropped) /\ Allowed(s, step)
             /\ \A bs2, n2, d2 : Like(After(s, step), bs2, n2, d2) =>
                  Follows(Tail(todo), bs2, n2, d2, PackUpTo(msg, Turns), SizeUpTo(msg, Turns))
    BY <2>3
  <2>5. /\ buffers' \in Seq(Simple)
        /\ Like(After(s, step), buffers', rv', dropped')
        /\ Cardinality(Allocated(buffers')) = Cardinality(Allocated(buffers)) + BlocksOf(buffers[j], b)
    <3>1. /\ buffers \in Seq(Simple) /\ dropped \in BOOLEAN /\ step \in StepSet
          /\ step.do = "append" /\ Allowed(s, step) /\ Like(s, buffers, rv, dropped)
      BY <1>2, <2>1, <2>3, <2>4
    <3>2. buffers' = AppendTo(buffers, step, found) /\ b = Extended(buffers, step, found)
      BY <2>2 DEF AppendTo, Extended
    <3> HIDE DEF step, b
    <3>3. /\ AppendTo(buffers, step, found) \in Seq(Simple)
          /\ Like(After(s, step), AppendTo(buffers, step, found), rv + Returned(step), dropped \/ ~found)
          /\ MoreBlocks(buffers, step, found)
      BY <1>8, <3>1, LikeAppend
    <3>4. /\ buffers' \in Seq(Simple)
          /\ Like(After(s, step), buffers', rv + Returned(step), dropped \/ ~found)
      BY <3>2, <3>3
    <3>5. Like(After(s, step), buffers', rv', dropped')
      BY <2>1, <2>2, <3>4
    <3>6. Cardinality(Allocated(buffers'))
            = Cardinality(Allocated(buffers)) + BlocksOf(buffers[j], b)
      BY <3>2, <3>3 DEF MoreBlocks
    <3> QED
      BY <3>4, <3>5, <3>6
  <2>6. Follows(todo', buffers', rv', dropped', PackUpTo(msg, Turns), SizeUpTo(msg, Turns))
    BY <2>1, <2>4, <2>5
  <2>7. dropped' \in BOOLEAN /\ todo' \in Seq(StepSet)
    BY <1>2, <2>1, <2>2, <2>3
  <2>8. blocks' = Cardinality(Allocated(buffers'))
    BY <2>1, <2>2, <2>5
  <2> QED
    BY <1>1, <2>1, <2>5, <2>6, <2>7, <2>8, StepKept
<1>9. CASE OpenInner
  <2> DEFINE step == Head(todo)
             bs2 == Append(buffers, SimpleInit(InnerScratch))
  <2>1. /\ todo # <<>> /\ step.do = "open" /\ todo' = Tail(todo)
        /\ rv' = rv + Returned(step) /\ UNCHANGED <<msg, pc, i>>
        /\ pc = "buffer" /\ blocks = Cardinality(Allocated(buffers))
    <3>1. Step("open")
      BY <1>9 DEF OpenInner
    <3> QED
      BY <1>4, <3>1
  <2>2. dropped' = dropped /\ blocks' = blocks /\ buffers' = bs2
    BY <1>9 DEF OpenInner
  <2>3. /\ step \in StepSet /\ Tail(todo) \in Seq(StepSet)
        /\ \E s \in States :
             /\ Like(s, buffers, rv, dropped) /\ Allowed(s, step)
             /\ \A bs, n2, d2 : Like(After(s, step), bs, n2, d2) =>
                  Follows(Tail(todo), bs, n2, d2, PackUpTo(msg, Turns), SizeUpTo(msg, Turns))
    BY <1>2, <2>1, HeadFollows
  <2>4. PICK s \in States :
             /\ Like(s, buffers, rv, dropped) /\ Allowed(s, step)
             /\ \A bs, n2, d2 : Like(After(s, step), bs, n2, d2) =>
                  Follows(Tail(todo), bs, n2, d2, PackUpTo(msg, Turns), SizeUpTo(msg, Turns))
    BY <2>3
  <2>5. /\ buffers' \in Seq(Simple)
        /\ Like(After(s, step), buffers', rv', dropped')
        /\ Cardinality(Allocated(buffers')) = Cardinality(Allocated(buffers))
    <3>1. /\ bs2 \in Seq(Simple)
          /\ Like(After(s, step), bs2, rv + Returned(step), dropped)
          /\ Cardinality(Allocated(bs2)) = Cardinality(Allocated(buffers))
      <4> HIDE DEF step
      <4> QED
        BY <1>2, <2>1, <2>3, <2>4, LikeOpen
    <3> HIDE DEF step, bs2
    <3> QED
      BY <2>1, <2>2, <3>1
  <2>6. Follows(todo', buffers', rv', dropped', PackUpTo(msg, Turns), SizeUpTo(msg, Turns))
    BY <2>1, <2>4, <2>5
  <2>7. dropped' \in BOOLEAN /\ todo' \in Seq(StepSet)
    BY <1>2, <2>1, <2>2, <2>3
  <2>8. blocks' = Cardinality(Allocated(buffers'))
    BY <2>1, <2>2, <2>5
  <2> QED
    BY <1>1, <2>1, <2>5, <2>6, <2>7, <2>8, StepKept
<1>10. ASSUME NEW found \in BOOLEAN, JoinInner(found) PROVE BufferInv'
  <2> DEFINE step == Head(todo)
             j == step.depth + 1
             inner == Last(buffers)
             bytes == inner.data \o Room(step.len - Len(inner.data))
             b == append(buffers[j], bytes, found)
             bs2 == Append(SubSeq(buffers, 1, Len(buffers) - 2), b)
  <2>1. /\ todo # <<>> /\ step.do = "join" /\ todo' = Tail(todo)
        /\ rv' = rv + Returned(step) /\ UNCHANGED <<msg, pc, i>>
        /\ pc = "buffer" /\ blocks = Cardinality(Allocated(buffers))
    <3>1. Step("join")
      BY <1>10 DEF JoinInner
    <3> QED
      BY <1>4, <3>1
  <2>2. /\ dropped' = (dropped \/ ~found) /\ buffers' = bs2
        /\ blocks' = blocks + BlocksOf(buffers[j], b) - freed(inner)
    BY <1>10 DEF JoinInner, MayAppend, Target
  <2>3. /\ step \in StepSet /\ Tail(todo) \in Seq(StepSet)
        /\ \E s \in States :
             /\ Like(s, buffers, rv, dropped) /\ Allowed(s, step)
             /\ \A bs, n2, d2 : Like(After(s, step), bs, n2, d2) =>
                  Follows(Tail(todo), bs, n2, d2, PackUpTo(msg, Turns), SizeUpTo(msg, Turns))
    BY <1>2, <2>1, HeadFollows
  <2>4. PICK s \in States :
             /\ Like(s, buffers, rv, dropped) /\ Allowed(s, step)
             /\ \A bs, n2, d2 : Like(After(s, step), bs, n2, d2) =>
                  Follows(Tail(todo), bs, n2, d2, PackUpTo(msg, Turns), SizeUpTo(msg, Turns))
    BY <2>3
  <2>5. /\ buffers' \in Seq(Simple)
        /\ Like(After(s, step), buffers', rv', dropped')
        /\ Cardinality(Allocated(buffers'))
             = Cardinality(Allocated(buffers)) + BlocksOf(buffers[j], b) - freed(inner)
    <3>1. /\ bs2 \in Seq(Simple)
          /\ Like(After(s, step), bs2, rv + Returned(step), dropped \/ ~found)
          /\ Cardinality(Allocated(bs2))
               = Cardinality(Allocated(buffers)) + BlocksOf(buffers[j], b) - freed(inner)
      <4> HIDE DEF step
      <4> QED
        BY <1>2, <1>10, <2>1, <2>3, <2>4, LikeJoin
    <3> HIDE DEF step, b, bs2, inner
    <3> QED
      BY <2>1, <2>2, <3>1
  <2>6. Follows(todo', buffers', rv', dropped', PackUpTo(msg, Turns), SizeUpTo(msg, Turns))
    BY <2>1, <2>4, <2>5
  <2>7. dropped' \in BOOLEAN /\ todo' \in Seq(StepSet)
    BY <1>2, <2>1, <2>2, <2>3
  <2>8. blocks' = Cardinality(Allocated(buffers'))
    BY <2>1, <2>2, <2>5
  <2> QED
    BY <1>1, <2>1, <2>5, <2>6, <2>7, <2>8, StepKept
<1>11. CASE Clear
  <2>1. /\ pc = "buffered" /\ pc' = "read" /\ blocks' = blocks - freed(buffers[1])
        /\ UNCHANGED <<msg, todo, rv, buffers, dropped>>
    BY <1>11 DEF Clear
  <2>2. todo = <<>> /\ Turns' = Turns /\ Cleared' /\ ~Cleared
    BY <1>2, <2>1 DEF Turns, Cleared
  <2>3. Cardinality(Allocated(buffers)) - freed(buffers[1]) = 0
    BY <1>2, <2>2, LastBlock
  <2>4. blocks' = 0
    BY <1>2, <2>1, <2>2, <2>3
  <2>5. Follows(todo', buffers', rv', dropped', PackUpTo(msg', Turns'), SizeUpTo(msg', Turns'))
    BY <1>2, <2>1, <2>2
  <2>6. todo' \in Seq(StepSet) /\ todo' = <<>> /\ dropped' \in BOOLEAN /\ buffers' \in Seq(Simple)
    BY <1>2, <2>1, <2>2
  <2> QED
    BY <1>1, <2>2, <2>4, <2>5, <2>6 DEF BufferInv
<1>12. CASE ReadMember \/ EndOfInput
  <2>1. /\ UNCHANGED <<msg, todo, rv, buffers, blocks, dropped>>
        /\ pc = "read" /\ pc' \in {"read", "malformed", "done"}
    BY <1>12 DEF ReadMember, EndOfInput, bufferVars
  <2>2. todo = <<>> /\ Turns' = Turns /\ Cleared' = Cleared
    BY <1>2, <2>1 DEF Turns, Cleared
  <2> QED
    BY <1>1, <2>1, <2>2, BuffersKept
<1>13. CASE UNCHANGED vars
  <2>1. UNCHANGED <<msg, pc, i, todo, rv, buffers, blocks, dropped>>
    BY <1>13 DEF vars
  <2>2. Turns' = Turns /\ Cleared' = Cleared
    BY <2>1 DEF Turns, Cleared
  <2>3. todo = <<>> \/ pc' = "buffer"
    BY <1>2, <2>1
  <2> QED
    BY <1>1, <2>1, <2>2, <2>3, BuffersKept
<1> QED
  BY <1>5, <1>6, <1>7, <1>8, <1>9, <1>10, <1>11, <1>12, <1>13 DEF Next

\* The simple buffers hold what is left of pack_to_buffer, whatever memory there is.
THEOREM PackBuffers == Spec => []BufferInv
<1>1. BufferInv /\ [Next]_vars => BufferInv'
  BY BufferStep
<1> QED
  BY BufferInit, <1>1, PTL DEF Spec

\* At the end of pack_to_buffer there is one buffer, like what pack wrote.
LEMMA BufferedFacts ==
  ASSUME BufferInv
  PROVE  /\ pc = "buffered" => rv = size /\ (~dropped => buffers[1].data = out)
         /\ rv \in Nat /\ out \in Seq(Byte) /\ size \in Nat
<1> DEFINE T == TotalOf(msg)
<1>1. /\ msg \in Known /\ i \in Nat \ {0} /\ (pc \in {"size", "pack", "buffer"} => i <= T + 1)
      /\ size = SizeUpTo(msg, IF pc = "size" THEN i - 1 ELSE T)
      /\ out = PackUpTo(msg, IF pc = "size" THEN 0 ELSE IF pc = "pack" THEN i - 1 ELSE T)
  BY KnownFacts DEF BufferInv, LoopInv, Total, Fields, TotalOf
<1>2. T \in Nat
  BY <1>1, TotalNat
<1>3. \A j \in 0 .. T : SizeUpTo(msg, j) \in Nat /\ PackUpTo(msg, j) \in Seq(Byte)
  BY <1>1, TurnsBytes DEF Written
<1>4. /\ todo # <<>> => pc = "buffer"
      /\ Follows(todo, buffers, rv, dropped, PackUpTo(msg, Turns), SizeUpTo(msg, Turns))
  BY DEF BufferInv
<1> HIDE DEF T
<1>5. T \in 0 .. T /\ 0 \in 0 .. T /\ (pc \in {"size", "pack"} => i - 1 \in 0 .. T)
  BY <1>1, <1>2
<1>6. out \in Seq(Byte) /\ size \in Nat
  BY <1>1, <1>3, <1>5
<1>7. rv \in Nat
  BY <1>4 DEF Follows, Like, States
<1>8. ASSUME pc = "buffered" PROVE rv = size /\ (~dropped => buffers[1].data = out)
  <2>1. todo = <<>> /\ Turns = T /\ size = SizeUpTo(msg, T) /\ out = PackUpTo(msg, T)
    BY <1>1, <1>4, <1>8 DEF Turns, T
  <2>2. PICK s \in States : Like(s, buffers, rv, dropped) /\ Holding(s, out, size)
    BY <1>4, <2>1, NothingFollows
  <2>3. Len(buffers) = 1 /\ s.n = rv /\ s.n = size /\ s.data[0] = out
    BY <2>2 DEF Like, Holding
  <2>4. ~dropped => buffers[1].data = out
    <3>1. 1 \in 1 .. 1 /\ 1 - 1 = 0
      OBVIOUS
    <3> QED
      BY <2>2, <2>3, <3>1 DEF Like
  <2> QED
    BY <2>3, <2>4
<1> QED
  BY <1>6, <1>7, <1>8

\* protobuf_c_message_pack_to_buffer returns the packed size, and has appended the very
\* bytes that protobuf_c_message_pack writes, unless an append found no memory: for
\* messages of any fields, nested however deep.
THEOREM PackBufferAgrees == Spec => []BufferAgrees
<1>1. BufferInv => BufferAgrees
  BY BufferedFacts DEF BufferAgrees
<1> QED
  BY PackBuffers, <1>1, PTL

\* protobuf_c_buffer_simple_append never writes beyond what is allocated, those of the
\* nested messages included, and every block is freed in the end, after an append
\* without memory too.
THEOREM PackBufferSound == Spec => []BufferSound
<1>1. BufferInv => BufferSound
  <2> SUFFICES ASSUME BufferInv PROVE BufferSound
    OBVIOUS
  <2>1. rv \in Nat /\ out \in Seq(Byte) /\ size \in Nat
    BY BufferedFacts
  <2>2. msg \in Messages /\ pc \in Pcs /\ i \in Nat \ {0} /\ asserted = FALSE
    BY DEF BufferInv, LoopInv
  <2>3. /\ dropped \in BOOLEAN /\ buffers \in Seq(Simple)
        /\ blocks = IF Cleared THEN 0 ELSE Cardinality(Allocated(buffers))
    BY DEF BufferInv
  <2>4. ASSUME NEW b \in ToSet(buffers)
        PROVE  b.data \in Seq(Byte) /\ b.alloced \in Nat /\ Len(b.data) <= b.alloced
    <3>1. b \in Simple
      BY <2>3, ElementOfSeq, LenProperties DEF ToSet
    <3> QED
      BY <3>1 DEF Simple
  <2>5. blocks \in 0 .. Len(buffers)
    <3>1. Cardinality(Allocated(buffers)) \in 0 .. Len(buffers) /\ Len(buffers) \in Nat
      BY <2>3, AllocatedFinite, LenProperties
    <3> QED
      BY <2>3, <3>1
  <2>6. \A bytes \in Seq(Byte) : \A k \in DOMAIN bytes : bytes[k] \in 0 .. 2 * B - 1
    <3> SUFFICES ASSUME NEW bytes \in Seq(Byte), NEW k \in DOMAIN bytes PROVE bytes[k] \in Byte
      BY DEF Byte
    <3>1. k \in 1 .. Len(bytes)
      BY LenProperties
    <3> QED
      BY <3>1, ElementOfSeq
  <2>7. TypeOK
    BY <2>1, <2>2, <2>3, <2>4, <2>5, <2>6 DEF TypeOK, Pcs
  <2> QED
    BY <2>3, <2>4, <2>7 DEF BufferSound, Cleared
<1> QED
  BY PackBuffers, <1>1, PTL
=============================================================================
