-------------------------- MODULE DataBufferProofs --------------------------
(***************************************************************************)
(* DataBuffer for any bytes, any buffers and any sizes: the fragments are  *)
(* sound and size is exact, and every buffer is a queue of bytes.          *)
(***************************************************************************)
EXTENDS DataBuffer, RecursionLemmas

-----------------------------------------------------------------------------
(* Fragments and lists of them.                                            *)

\* A fragment with something to read that does not overflow.
SoundFragment ==
  {f \in Fragment : f.buf_start < Len(f.mem) /\ Len(f.mem) <= FRAGMENT_DATA_SIZE}

LEMMA FragmentFields ==
  ASSUME NEW f \in SoundFragment
  PROVE  /\ f.mem \in Seq(Bytes) /\ f.buf_start \in Nat /\ Len(f.mem) \in Nat
         /\ f.buf_start < Len(f.mem) /\ Len(f.mem) <= FRAGMENT_DATA_SIZE
         /\ buf_length(f) = Len(f.mem) - f.buf_start
         /\ buf_length(f) \in Nat /\ buf_length(f) > 0
BY DEF SoundFragment, Fragment, buf_length

LEMMA ValidIs ==
  ASSUME NEW f \in SoundFragment
  PROVE  Valid(f) \in Seq(Bytes) /\ Len(Valid(f)) = buf_length(f)
<1>1. \A i \in f.buf_start + 1 .. Len(f.mem) : f.mem[i] \in Bytes
  BY FragmentFields
<1> QED
  BY <1>1, FragmentFields, SubSeqProperties DEF Valid

\* The steps of Total.
TotalStep(fs) == [x \in Nat \X (1 .. Len(fs)) |-> x[1] + buf_length(fs[x[2]])]

LEMMA TotalSolves ==
  ASSUME NEW fs \in Seq(SoundFragment)
  PROVE  \E t \in [0 .. Len(fs) -> Nat] :
           Solves(t, Len(fs), 0, TotalStep(fs)) /\ Total(fs) = t[Len(fs)]
<1> DEFINE n == Len(fs)
           Rec(t) == t = [k \in 0 .. n |-> IF k = 0 THEN 0 ELSE t[k - 1] + buf_length(fs[k])]
<1>1. n \in Nat /\ \A k \in 1 .. n : buf_length(fs[k]) \in Nat
  BY FragmentFields
<1>2. TotalStep(fs) \in [Nat \X (1 .. n) -> Nat]
  BY <1>1 DEF TotalStep
<1>3. PICK t \in [0 .. n -> Nat] : Solves(t, n, 0, TotalStep(fs))
  BY <1>1, <1>2, RecursionExists
<1>4. \A k \in 1 .. n : t[k] = t[k - 1] + buf_length(fs[k])
  <2> SUFFICES ASSUME NEW k \in 1 .. n PROVE t[k] = t[k - 1] + buf_length(fs[k])
    OBVIOUS
  <2>1. t[k] = TotalStep(fs)[<<t[k - 1], k>>]
    BY <1>3 DEF Solves
  <2>2. k - 1 \in 0 .. n
    BY <1>1
  <2>3. t[k - 1] \in Nat
    BY <2>2
  <2> QED
    BY <2>1, <2>3 DEF TotalStep
<1>5. Rec(t)
  BY <1>1, <1>3, <1>4 DEF Solves
<1> DEFINE u == CHOOSE v : Rec(v)
<1>6. Total(fs) = u[n]
  BY DEF Total
<1>7. Rec(u)
  <2> HIDE DEF Rec
  <2> QED
    BY <1>5
<1>8. Solves(u, n, 0, TotalStep(fs)) /\ u \in [0 .. n -> Nat]
  <2> HIDE DEF u
  <2> DEFINE Bad == {m \in 0 .. n : u[m] # t[m]}
  <2>1. u[0] = 0 /\ \A k \in 1 .. n : u[k] = u[k - 1] + buf_length(fs[k])
    BY <1>1, <1>7
  <2>2. t[0] = 0
    BY <1>3 DEF Solves
  <2>3. ASSUME NEW m \in Bad, \A y \in Bad : m <= y
        PROVE  FALSE
    <3>1. m - 1 \in 0 .. n /\ m \in 1 .. n
      BY <2>1, <2>2
    <3>2. u[m - 1] = t[m - 1]
      BY <2>3, <3>1
    <3> QED
      BY <2>1, <1>4, <3>1, <3>2
  <2>4. Bad \in SUBSET Nat
    BY <1>1
  <2>5. Bad = {}
    <3> HIDE DEF Bad
    <3> QED
      BY <2>3, <2>4, SmallestExists
  <2>6. \A m \in 0 .. n : u[m] = t[m]
    BY <2>5
  <2>7. u = t
    BY <1>3, <1>7, <2>6
  <2> QED
    BY <1>3, <2>7
<1> QED
  BY <1>6, <1>8

LEMMA TotalEmpty == Total(<<>>) = 0
<1>1. <<>> \in Seq(SoundFragment) /\ Len(<<>>) = 0
  OBVIOUS
<1>2. PICK t \in [0 .. 0 -> Nat] : Solves(t, 0, 0, TotalStep(<<>>)) /\ Total(<<>>) = t[0]
  BY <1>1, TotalSolves
<1> QED
  BY <1>2 DEF Solves

LEMMA TotalAppend ==
  ASSUME NEW fs \in Seq(SoundFragment), NEW f \in SoundFragment
  PROVE  Total(Append(fs, f)) = Total(fs) + buf_length(f)
<1> DEFINE n == Len(fs)
           g == Append(fs, f)
<1>1. /\ n \in Nat /\ g \in Seq(SoundFragment) /\ Len(g) = n + 1 /\ g[n + 1] = f
      /\ \A i \in 1 .. n : g[i] = fs[i]
  OBVIOUS
<1> HIDE DEF g
<1>2. PICK t \in [0 .. n -> Nat] : Solves(t, n, 0, TotalStep(fs)) /\ Total(fs) = t[n]
  BY TotalSolves
<1>3. PICK u \in [0 .. n + 1 -> Nat] : Solves(u, n + 1, 0, TotalStep(g)) /\ Total(g) = u[n + 1]
  BY <1>1, TotalSolves
<1> HIDE DEF n
<1>4. ASSUME NEW k \in 1 .. n + 1 PROVE u[k] = u[k - 1] + buf_length(g[k])
  <2>1. u[k] = TotalStep(g)[<<u[k - 1], k>>]
    BY <1>3 DEF Solves
  <2>2. k - 1 \in 0 .. n + 1 /\ u[k - 1] \in Nat /\ k \in 1 .. Len(g)
    BY <1>1
  <2> QED
    BY <2>1, <2>2 DEF TotalStep
<1>5. Solves(u, n, 0, TotalStep(fs))
  <2>1. ASSUME NEW k \in 1 .. n PROVE u[k] = TotalStep(fs)[<<u[k - 1], k>>]
    <3>1. k \in 1 .. n + 1 /\ k - 1 \in 0 .. n + 1
      BY <1>1
    <3>2. u[k] = u[k - 1] + buf_length(fs[k])
      BY <1>1, <1>4, <3>1
    <3>3. u[k - 1] \in Nat /\ k \in 1 .. Len(fs)
      BY <3>1 DEF n
    <3> QED
      BY <3>2, <3>3 DEF TotalStep
  <2> QED
    BY <1>3, <2>1 DEF Solves
<1>6. u[n] = t[n]
  <2>1. n \in Nat
    BY <1>1
  <2>2. Solves(t, n, 0, TotalStep(fs))
    BY <1>2
  <2> QED
    BY <1>5, <2>1, <2>2, RecursionUnique
<1>7. u[n + 1] = u[n] + buf_length(f)
  BY <1>1, <1>4
<1> QED
  BY <1>2, <1>3, <1>6, <1>7 DEF g
-----------------------------------------------------------------------------
(* The bytes of a list of fragments.                                       *)

LEMMA ContentEmpty == Content(<<>>) = <<>>
<1>1. [i \in DOMAIN <<>> |-> Valid(<<>>[i])] = <<>>
  OBVIOUS
<1> QED
  BY <1>1, FlattenEmpty DEF Content

LEMMA ContentAppend ==
  ASSUME NEW fs \in Seq(SoundFragment), NEW f \in SoundFragment
  PROVE  /\ Content(fs) \in Seq(Bytes)
         /\ Content(Append(fs, f)) = Content(fs) \o Valid(f)
<1> DEFINE g  == Append(fs, f)
           ss == [i \in DOMAIN fs |-> Valid(fs[i])]
           gg == [i \in DOMAIN g |-> Valid(g[i])]
           n  == Len(fs)
<1>1. /\ n \in Nat /\ DOMAIN fs = 1 .. n /\ \A i \in 1 .. n : fs[i] \in SoundFragment
      /\ Len(g) = n + 1 /\ g[n + 1] = f /\ DOMAIN g = 1 .. n + 1
      /\ \A i \in 1 .. n : g[i] = fs[i]
  OBVIOUS
<1>2. Valid(f) \in Seq(Bytes)
  BY ValidIs
<1>3. ss \in Seq(Seq(Bytes)) /\ Len(ss) = n
  BY <1>1, ValidIs
<1>4. gg = Append(ss, Valid(f))
  <2>1. Append(ss, Valid(f)) = [i \in 1 .. n + 1 |-> IF i = n + 1 THEN Valid(f) ELSE ss[i]]
    BY <1>1, <1>2, <1>3
  <2>2. \A i \in 1 .. n + 1 : Valid(g[i]) = IF i = n + 1 THEN Valid(f) ELSE ss[i]
    BY <1>1
  <2> HIDE DEF g, ss
  <2> QED
    BY <1>1, <2>1, <2>2
<1>5. FlattenSeq(gg) = FlattenSeq(ss) \o Valid(f) /\ FlattenSeq(ss) \in Seq(Bytes)
  <2> HIDE DEF ss, gg
  <2> QED
    BY <1>2, <1>3, <1>4, FlattenAppend
<1> QED
  BY <1>5 DEF Content

\* A list that is not empty has a last element.
LEMMA SplitLast ==
  ASSUME NEW S, NEW s \in Seq(S), Len(s) # 0
  PROVE  \E h \in Seq(S), x \in S : s = Append(h, x) /\ Len(h) = Len(s) - 1
<1> DEFINE n == Len(s)
           h == [i \in 1 .. n - 1 |-> s[i]]
<1>1. n \in Nat /\ n - 1 \in Nat /\ n \in 1 .. n /\ \A i \in 1 .. n : s[i] \in S
  OBVIOUS
<1>2. h \in Seq(S) /\ Len(h) = n - 1
  BY <1>1
<1>3. s = Append(h, s[n])
  BY <1>1, <1>2
<1> QED
  BY <1>1, <1>2, <1>3

\* size can be Total: a number, that of the bytes.
Measured(fs) == Total(fs) \in Nat /\ Content(fs) \in Seq(Bytes) /\ Len(Content(fs)) = Total(fs)

LEMMA MeasuredAppend ==
  ASSUME NEW fs \in Seq(SoundFragment), NEW f \in SoundFragment, Measured(fs)
  PROVE  Measured(Append(fs, f))
<1>1. /\ Valid(f) \in Seq(Bytes) /\ Len(Valid(f)) = buf_length(f) /\ buf_length(f) \in Nat
      /\ Content(fs) \in Seq(Bytes) /\ Len(Content(fs)) = Total(fs) /\ Total(fs) \in Nat
  BY ValidIs, FragmentFields DEF Measured
<1>2. /\ Content(fs) \o Valid(f) \in Seq(Bytes)
      /\ Len(Content(fs) \o Valid(f)) = Len(Content(fs)) + Len(Valid(f))
  BY <1>1, ConcatProperties
<1>3. /\ Content(Append(fs, f)) = Content(fs) \o Valid(f)
      /\ Total(Append(fs, f)) = Total(fs) + buf_length(f)
  BY ContentAppend, TotalAppend
<1> QED
  BY <1>1, <1>2, <1>3 DEF Measured

LEMMA ListMeasured ==
  ASSUME NEW fs \in Seq(SoundFragment)
  PROVE  Measured(fs)
<1> DEFINE Bad == {n \in Nat : \E gs \in Seq(SoundFragment) : Len(gs) = n /\ ~Measured(gs)}
<1>1. ASSUME NEW n \in Bad, \A y \in Bad : n <= y
      PROVE  FALSE
  <2>1. PICK gs \in Seq(SoundFragment) : Len(gs) = n /\ ~Measured(gs)
    OBVIOUS
  <2>2. n # 0
    <3>1. Measured(<<>>)
      <4>1. <<>> \in Seq(Bytes) /\ Len(<<>>) = 0
        BY EmptySeq
      <4>2. Total(<<>>) \in Nat
        BY TotalEmpty
      <4> QED
        BY <4>1, <4>2, ContentEmpty, TotalEmpty, Zenon DEF Measured
    <3>2. ASSUME n = 0 PROVE gs = <<>>
      BY <2>1, <3>2, EmptySeq
    <3> QED
      BY <2>1, <3>1, <3>2
  <2>3. PICK h \in Seq(SoundFragment), x \in SoundFragment :
          gs = Append(h, x) /\ Len(h) = Len(gs) - 1
    <3>1. Len(gs) # 0
      BY <2>1, <2>2
    <3> QED
      BY <3>1, SplitLast
  <2>4. n \in Nat /\ n - 1 \in Nat /\ n - 1 < n /\ Len(h) = n - 1
    BY <2>1, <2>2, <2>3
  <2>5. n - 1 \notin Bad
    <3> HIDE DEF Bad
    <3> QED
      BY <1>1, <2>4
  <2>6. Measured(h)
    BY <2>3, <2>4, <2>5
  <2> QED
    BY <2>1, <2>3, <2>6, MeasuredAppend
<1>2. Bad \in SUBSET Nat
  OBVIOUS
<1>3. Bad = {}
  <2> HIDE DEF Bad
  <2> QED
    BY <1>1, <1>2, SmallestExists
<1>4. Len(fs) \in Nat
  OBVIOUS
<1> QED
  BY <1>3, <1>4

\* One list after another.
Joined(fs, gs) ==
  /\ Total(fs \o gs) = Total(fs) + Total(gs)
  /\ Content(fs \o gs) = Content(fs) \o Content(gs)

LEMMA JoinedAppend ==
  ASSUME NEW fs \in Seq(SoundFragment), NEW gs \in Seq(SoundFragment),
         NEW f \in SoundFragment, Joined(fs, gs)
  PROVE  Joined(fs, Append(gs, f))
<1> DEFINE all == fs \o gs
<1>1. all \in Seq(SoundFragment) /\ fs \o Append(gs, f) = Append(all, f)
  OBVIOUS
<1>2. /\ Total(fs) \in Nat /\ Total(gs) \in Nat /\ Content(fs) \in Seq(Bytes)
      /\ Content(gs) \in Seq(Bytes) /\ Valid(f) \in Seq(Bytes) /\ buf_length(f) \in Nat
  BY ListMeasured, ValidIs, FragmentFields DEF Measured
<1>3. Total(all) = Total(fs) + Total(gs) /\ Content(all) = Content(fs) \o Content(gs)
  BY DEF Joined
<1> HIDE DEF all
<1>4. /\ Content(Append(all, f)) = Content(all) \o Valid(f)
      /\ Content(Append(gs, f)) = Content(gs) \o Valid(f)
      /\ Total(Append(all, f)) = Total(all) + buf_length(f)
      /\ Total(Append(gs, f)) = Total(gs) + buf_length(f)
  BY <1>1, ContentAppend, TotalAppend
<1>5. (Content(fs) \o Content(gs)) \o Valid(f) = Content(fs) \o (Content(gs) \o Valid(f))
  <2>1. Content(fs) \in Seq(Bytes) /\ Content(gs) \in Seq(Bytes) /\ Valid(f) \in Seq(Bytes)
    BY <1>2
  <2> DEFINE a == Content(fs)
             b == Content(gs)
             c == Valid(f)
  <2> HIDE DEF a, b, c
  <2>2. a \in Seq(Bytes) /\ b \in Seq(Bytes) /\ c \in Seq(Bytes)
    BY <2>1 DEF a, b, c
  <2>3. (a \o b) \o c = a \o (b \o c)
    BY <2>2, ConcatAssociative
  <2> QED
    BY <2>3 DEF a, b, c
<1>6. Total(Append(all, f)) = Total(fs) + Total(Append(gs, f))
  BY <1>2, <1>3, <1>4
<1>7. Content(Append(all, f)) = Content(fs) \o Content(Append(gs, f))
  BY <1>3, <1>4, <1>5
<1> QED
  BY <1>1, <1>6, <1>7 DEF Joined

LEMMA ListsJoined ==
  ASSUME NEW fs \in Seq(SoundFragment), NEW hs \in Seq(SoundFragment)
  PROVE  Joined(fs, hs)
<1> DEFINE Bad == {n \in Nat : \E gs \in Seq(SoundFragment) : Len(gs) = n /\ ~Joined(fs, gs)}
<1>1. ASSUME NEW n \in Bad, \A y \in Bad : n <= y
      PROVE  FALSE
  <2>1. PICK gs \in Seq(SoundFragment) : Len(gs) = n /\ ~Joined(fs, gs)
    OBVIOUS
  <2>2. n # 0
    <3>1. Total(fs) \in Nat /\ Content(fs) \in Seq(Bytes)
      BY ListMeasured DEF Measured
    <3>2. Content(fs) \o <<>> = Content(fs) /\ fs \o <<>> = fs
      BY <3>1, ConcatEmptySeq
    <3>3. Joined(fs, <<>>)
      BY <3>1, <3>2, ContentEmpty, TotalEmpty DEF Joined
    <3>4. ASSUME n = 0 PROVE gs = <<>>
      BY <2>1, <3>4, EmptySeq
    <3> QED
      BY <2>1, <3>3, <3>4
  <2>3. PICK h \in Seq(SoundFragment), x \in SoundFragment :
          gs = Append(h, x) /\ Len(h) = Len(gs) - 1
    <3>1. Len(gs) # 0
      BY <2>1, <2>2
    <3> QED
      BY <3>1, SplitLast
  <2>4. n \in Nat /\ n - 1 \in Nat /\ n - 1 < n /\ Len(h) = n - 1
    BY <2>1, <2>2, <2>3
  <2>5. n - 1 \notin Bad
    <3> HIDE DEF Bad
    <3> QED
      BY <1>1, <2>4
  <2>6. Joined(fs, h)
    BY <2>3, <2>4, <2>5
  <2> QED
    BY <2>1, <2>3, <2>6, JoinedAppend
<1>2. Bad \in SUBSET Nat
  OBVIOUS
<1>3. Bad = {}
  <2> HIDE DEF Bad
  <2> QED
    BY <1>1, <1>2, SmallestExists
<1>4. Len(hs) \in Nat
  OBVIOUS
<1> QED
  BY <1>3, <1>4
-----------------------------------------------------------------------------
(* Cutting lists.                                                          *)

LEMMA OneFragment ==
  ASSUME NEW f \in SoundFragment
  PROVE  /\ <<f>> \in Seq(SoundFragment)
         /\ Total(<<f>>) = buf_length(f) /\ Content(<<f>>) = Valid(f)
<1>1. <<>> \in Seq(SoundFragment) /\ Append(<<>>, f) = <<f>>
  OBVIOUS
<1>2. Total(<<f>>) = 0 + buf_length(f) /\ Content(<<f>>) = <<>> \o Valid(f)
  BY <1>1, TotalAppend, ContentAppend, TotalEmpty, ContentEmpty
<1>3. buf_length(f) \in Nat /\ Valid(f) \in Seq(Bytes)
  BY FragmentFields, ValidIs
<1>4. <<>> \o Valid(f) = Valid(f)
  BY <1>3, ConcatEmptySeq
<1> QED
  BY <1>2, <1>3, <1>4

\* The first k elements and the others.
LEMMA ListCut ==
  ASSUME NEW S, NEW s \in Seq(S), NEW k \in 0 .. Len(s)
  PROVE  /\ SubSeq(s, 1, k) \in Seq(S) /\ Len(SubSeq(s, 1, k)) = k
         /\ \A i \in 1 .. k : SubSeq(s, 1, k)[i] = s[i]
         /\ SubSeq(s, k + 1, Len(s)) \in Seq(S)
         /\ Len(SubSeq(s, k + 1, Len(s))) = Len(s) - k
         /\ \A i \in 1 .. Len(s) - k : SubSeq(s, k + 1, Len(s))[i] = s[k + i]
         /\ s = SubSeq(s, 1, k) \o SubSeq(s, k + 1, Len(s))
<1>1. Len(s) \in Nat /\ \A i \in 1 .. Len(s) : s[i] \in S
  OBVIOUS
<1>2. /\ \A i \in 1 .. k : s[i] \in S
      /\ \A i \in k + 1 .. Len(s) : s[i] \in S
  BY <1>1
<1> DEFINE a == SubSeq(s, 1, k)
           b == SubSeq(s, k + 1, Len(s))
<1>3. /\ a \in Seq(S) /\ Len(a) = k /\ \A i \in 1 .. k : a[i] = s[i]
      /\ b \in Seq(S) /\ Len(b) = Len(s) - k /\ \A i \in 1 .. Len(s) - k : b[i] = s[k + i]
  BY <1>1, <1>2
<1> HIDE DEF a, b
<1>4. a \o b = s
  <2> DEFINE c == a \o b
  <2>1. /\ c \in Seq(S) /\ Len(c) = Len(a) + Len(b)
        /\ \A i \in 1 .. Len(a) + Len(b) : c[i] = IF i <= Len(a) THEN a[i] ELSE b[i - Len(a)]
    BY <1>3, ConcatProperties
  <2> HIDE DEF c
  <2>2. Len(c) = Len(s)
    BY <1>1, <1>3, <2>1
  <2>3. ASSUME NEW i \in 1 .. Len(c) PROVE c[i] = s[i]
    <3>1. CASE i <= k
      BY <1>1, <1>3, <2>1, <2>2, <3>1
    <3>2. CASE ~(i <= k)
      <4>1. i - k \in 1 .. Len(s) - k /\ k + (i - k) = i
        BY <1>1, <2>2, <3>2
      <4> QED
        BY <1>1, <1>3, <2>1, <2>2, <3>2, <4>1
    <3> QED
      BY <3>1, <3>2
  <2>4. c = s
    BY <2>1, <2>2, <2>3, SeqEqual
  <2> QED
    BY <2>4 DEF c
<1> QED
  BY <1>3, <1>4 DEF a, b

LEMMA FragmentsCut ==
  ASSUME NEW fs \in Seq(SoundFragment), NEW k \in 0 .. Len(fs)
  PROVE  LET whole == SubSeq(fs, 1, k)
             rest  == SubSeq(fs, k + 1, Len(fs))
         IN  Total(fs) = Total(whole) + Total(rest) /\ Content(fs) = Content(whole) \o Content(rest)
<1> DEFINE whole == SubSeq(fs, 1, k)
           rest  == SubSeq(fs, k + 1, Len(fs))
<1>1. whole \in Seq(SoundFragment) /\ rest \in Seq(SoundFragment) /\ fs = whole \o rest
  BY ListCut
<1> HIDE DEF whole, rest
<1>2. Joined(whole, rest)
  BY <1>1, ListsJoined
<1> QED
  BY <1>1, <1>2 DEF Joined, whole, rest

\* The first one and the others.
LEMMA FirstFragment ==
  ASSUME NEW fs \in Seq(SoundFragment), Len(fs) # 0
  PROVE  LET rest  == SubSeq(fs, 2, Len(fs))
         IN  /\ fs[1] \in SoundFragment /\ rest \in Seq(SoundFragment)
             /\ Total(fs) = buf_length(fs[1]) + Total(rest)
             /\ Content(fs) = Valid(fs[1]) \o Content(rest)
<1> DEFINE whole == SubSeq(fs, 1, 1)
           rest  == SubSeq(fs, 2, Len(fs))
<1>1. 1 \in 0 .. Len(fs) /\ fs[1] \in SoundFragment /\ 1 + 1 = 2
  OBVIOUS
<1>2. whole = <<fs[1]>>
  <2>1. whole \in Seq(SoundFragment) /\ Len(whole) = 1 /\ whole[1] = fs[1]
    BY <1>1, ListCut
  <2> HIDE DEF whole
  <2> QED
    BY <2>1
<1>3. rest \in Seq(SoundFragment)
  BY <1>1, ListCut
<1>4. Total(fs) = Total(whole) + Total(rest) /\ Content(fs) = Content(whole) \o Content(rest)
  BY <1>1, FragmentsCut
<1> HIDE DEF whole, rest
<1>5. Total(whole) = buf_length(fs[1]) /\ Content(whole) = Valid(fs[1])
  <2>1. \A f \in SoundFragment : Total(<<f>>) = buf_length(f) /\ Content(<<f>>) = Valid(f)
    BY OneFragment
  <2> QED
    BY <1>1, <1>2, <2>1
<1> QED
  BY <1>1, <1>3, <1>4, <1>5 DEF rest

\* One more.
LEMMA NextFragment ==
  ASSUME NEW fs \in Seq(SoundFragment), NEW k \in 0 .. Len(fs) - 1
  PROVE  /\ fs[k + 1] \in SoundFragment
         /\ Total(SubSeq(fs, 1, k + 1)) = Total(SubSeq(fs, 1, k)) + buf_length(fs[k + 1])
<1>1. /\ k \in 0 .. Len(fs) /\ k + 1 \in 1 .. Len(fs) /\ k + 1 \in 0 .. Len(fs)
      /\ fs[k + 1] \in SoundFragment
  OBVIOUS
<1> DEFINE a == SubSeq(fs, 1, k)
           b == SubSeq(fs, 1, k + 1)
           f == fs[k + 1]
<1>2. a \in Seq(SoundFragment) /\ Len(a) = k /\ \A i \in 1 .. k : a[i] = fs[i]
  BY <1>1, ListCut
<1>3. b \in Seq(SoundFragment) /\ Len(b) = k + 1 /\ \A i \in 1 .. k + 1 : b[i] = fs[i]
  BY <1>1, ListCut
<1>4. f \in SoundFragment
  BY <1>1
<1>5. b[k + 1] = f
  BY <1>1, <1>3
<1> HIDE DEF a, b, f
<1>6. b = Append(a, f)
  <2>1. k \in Nat
    OBVIOUS
  <2> DEFINE c == Append(a, f)
  <2>2. /\ c \in Seq(SoundFragment) /\ Len(c) = k + 1 /\ c[k + 1] = f
        /\ \A i \in 1 .. k : c[i] = a[i]
    BY <1>2, <1>4, <2>1
  <2> HIDE DEF c
  <2>3. \A i \in 1 .. k + 1 : b[i] = c[i]
    BY <1>2, <1>3, <1>5, <2>1, <2>2
  <2>4. b = c
    BY <1>3, <2>2, <2>3, SeqEqual
  <2> QED
    BY <2>4 DEF c
<1> QED
  BY <1>2, <1>4, <1>6, TotalAppend DEF a, b, f
-----------------------------------------------------------------------------
(* Reading and discarding.                                                 *)

\* The loop of read, discard and peek may stop at fragment j + 1.
Stop(fs, n, j) ==
  LET left == n - Total(SubSeq(fs, 1, j))
  IN  j = Len(fs) \/ left = 0 \/ buf_length(fs[j + 1]) > left

LEMMA WholeIs ==
  ASSUME NEW fs \in Seq(SoundFragment), NEW n \in Nat
  PROVE  LET k == WholeFragments(fs, n)
         IN  /\ k \in 0 .. Len(fs)
             /\ Total(SubSeq(fs, 1, k)) \in Nat /\ Total(SubSeq(fs, 1, k)) <= n
             /\ k = Len(fs) \/ n - Total(SubSeq(fs, 1, k)) < buf_length(fs[k + 1])
<1> DEFINE First(k) == k \in 0 .. Len(fs) /\ Stop(fs, n, k) /\ \A j \in 0 .. k - 1 : ~Stop(fs, n, j)
           k == WholeFragments(fs, n)
           Stops == {j \in 0 .. Len(fs) : Stop(fs, n, j)}
<1>1. Len(fs) \in Nat /\ Stop(fs, n, Len(fs))
  BY DEF Stop
<1>2. Stops \in SUBSET Nat /\ Stops # {}
  BY <1>1
<1>3. \E j \in Stops : \A i \in Stops : j <= i
  <2> HIDE DEF Stops
  <2> QED
    BY <1>2, SmallestExists
<1>4. \E j \in 0 .. Len(fs) : Stop(fs, n, j) /\ \A i \in 0 .. j - 1 : ~Stop(fs, n, i)
  <2>1. PICK j \in Stops : \A i \in Stops : j <= i
    BY <1>3
  <2>2. ASSUME NEW i \in 0 .. j - 1 PROVE ~Stop(fs, n, i)
    <3>1. i \in 0 .. Len(fs) /\ ~(j <= i)
      BY <1>1
    <3> QED
      BY <2>1, <3>1
  <2> QED
    BY <2>2
<1>5. k = CHOOSE j \in 0 .. Len(fs) : Stop(fs, n, j) /\ \A i \in 0 .. j - 1 : ~Stop(fs, n, i)
  BY DEF WholeFragments, Stop
<1>6. k \in 0 .. Len(fs) /\ Stop(fs, n, k) /\ \A i \in 0 .. k - 1 : ~Stop(fs, n, i)
  <2> HIDE DEF k
  <2> QED
    BY <1>4, <1>5
<1> HIDE DEF k
<1>7. \A j \in 0 .. Len(fs) : Total(SubSeq(fs, 1, j)) \in Nat
  BY ListCut, ListMeasured DEF Measured
<1>8. Total(SubSeq(fs, 1, k)) <= n
  <2>1. CASE k = 0
    <3>1. SubSeq(fs, 1, 0) = <<>>
      BY SubSeqEmpty
    <3>2. Total(SubSeq(fs, 1, k)) = 0
      BY <2>1, <3>1, TotalEmpty, Zenon
    <3> QED
      BY <3>2
  <2>2. CASE k # 0
    <3> DEFINE j == k - 1
    <3>1. j \in 0 .. Len(fs) - 1 /\ j + 1 = k /\ j \in 0 .. k - 1 /\ j \in 0 .. Len(fs)
      BY <1>1, <1>6, <2>2
    <3> HIDE DEF j
    <3>2. ~(buf_length(fs[j + 1]) > n - Total(SubSeq(fs, 1, j)))
      BY <1>6, <3>1 DEF Stop
    <3>3. Total(SubSeq(fs, 1, k)) = Total(SubSeq(fs, 1, j)) + buf_length(fs[j + 1])
      BY <3>1, NextFragment
    <3>4. Total(SubSeq(fs, 1, j)) \in Nat /\ buf_length(fs[j + 1]) \in Nat
      <4>1. fs[j + 1] \in SoundFragment
        BY <3>1, NextFragment
      <4> QED
        BY <1>7, <3>1, <4>1, FragmentFields
    <3> QED
      BY <3>2, <3>3, <3>4
  <2> QED
    BY <2>1, <2>2
<1>9. k = Len(fs) \/ n - Total(SubSeq(fs, 1, k)) < buf_length(fs[k + 1])
  <2> SUFFICES ASSUME k # Len(fs) PROVE n - Total(SubSeq(fs, 1, k)) < buf_length(fs[k + 1])
    OBVIOUS
  <2>1. k \in 0 .. Len(fs) - 1
    BY <1>1, <1>6
  <2>2. buf_length(fs[k + 1]) \in Nat /\ buf_length(fs[k + 1]) > 0
    BY <2>1, NextFragment, FragmentFields
  <2>3. \/ n - Total(SubSeq(fs, 1, k)) = 0
        \/ buf_length(fs[k + 1]) > n - Total(SubSeq(fs, 1, k))
    BY <1>6 DEF Stop
  <2>4. Total(SubSeq(fs, 1, k)) \in Nat
    BY <1>6, <1>7
  <2> QED
    BY <2>2, <2>3, <2>4
<1> QED
  BY <1>6, <1>7, <1>8, <1>9 DEF k

\* As First and After of ByteQueue: n bytes at most, and the others.
FirstOf(s, n) == SubSeq(s, 1, IF n < Len(s) THEN n ELSE Len(s))
After(s, n)   == SubSeq(s, n + 1, Len(s))

\* Bytes a, v, c of which those of a and some of v are taken.
LEMMA CutBytes ==
  ASSUME NEW a \in Seq(Bytes), NEW v \in Seq(Bytes), NEW c \in Seq(Bytes),
         NEW left \in 0 .. Len(v)
  PROVE  /\ FirstOf(a \o (v \o c), Len(a) + left) = a \o SubSeq(v, 1, left)
         /\ After(a \o (v \o c), Len(a) + left) = After(v, left) \o c
         /\ Len(FirstOf(a \o (v \o c), Len(a) + left)) = Len(a) + left
         /\ Len(a \o (v \o c)) = Len(a) + Len(v) + Len(c)
<1> DEFINE s == a \o (v \o c)
           n == Len(a) + left
           p == SubSeq(v, 1, left)
           q == SubSeq(v, left + 1, Len(v))
<1>1. Len(a) \in Nat /\ Len(v) \in Nat /\ Len(c) \in Nat
  OBVIOUS
<1>2. p \in Seq(Bytes) /\ Len(p) = left /\ q \in Seq(Bytes) /\ v = p \o q
  BY ListCut, ZenonT(30)
<1> HIDE DEF p, q
<1>3. s = (a \o p) \o (q \o c)
  <2>1. (p \o q) \o c = p \o (q \o c) /\ q \o c \in Seq(Bytes)
    BY <1>2, ConcatAssociative, ConcatProperties, SMTT(30)
  <2>2. (a \o p) \o (q \o c) = a \o (p \o (q \o c))
    BY <1>2, <2>1, ConcatAssociative, SMTT(30)
  <2> QED
    BY <1>2, <2>1, <2>2
<1> HIDE DEF s
<1> DEFINE x == a \o p
           y == q \o c
<1>4. x \in Seq(Bytes) /\ y \in Seq(Bytes) /\ Len(x) = n /\ s = x \o y
  BY <1>1, <1>2, <1>3, ConcatProperties
<1>5. Len(s) = Len(a) + Len(v) + Len(c)
  <2>1. v \o c \in Seq(Bytes) /\ Len(v \o c) = Len(v) + Len(c)
    BY ConcatProperties
  <2> QED
    BY <1>1, <2>1, ConcatProperties DEF s
<1> HIDE DEF x, y
<1>6. n \in 0 .. Len(s)
  BY <1>1, <1>5
<1>7. FirstOf(s, n) = SubSeq(s, 1, n)
  BY <1>1, <1>5, <1>6 DEF FirstOf
<1>8. SubSeq(x \o y, 1, Len(x)) = x /\ SubSeq(x \o y, Len(x) + 1, Len(x \o y)) = y
  BY <1>4
<1> QED
  BY <1>4, <1>5, <1>7, <1>8 DEF After, s, x, y, p, q

\* The first fragment is read in part.
Shortened(fs, left) == [fs EXCEPT ![1].buf_start = @ + left]

LEMMA ShortenFragment ==
  ASSUME NEW f \in SoundFragment, NEW left \in Nat, left < buf_length(f)
  PROVE  LET g == [f EXCEPT !.buf_start = @ + left]
         IN  /\ g \in SoundFragment /\ buf_length(g) = buf_length(f) - left
             /\ Valid(g) = After(Valid(f), left)
<1> DEFINE g == [f EXCEPT !.buf_start = @ + left]
           v == Valid(f)
<1>1. /\ f.mem \in Seq(Bytes) /\ f.buf_start \in Nat /\ Len(f.mem) \in Nat
      /\ f.buf_start < Len(f.mem) /\ Len(f.mem) <= FRAGMENT_DATA_SIZE
      /\ buf_length(f) = Len(f.mem) - f.buf_start /\ f \in Fragment
  BY FragmentFields DEF SoundFragment
<1>2. g \in Fragment /\ g.mem = f.mem /\ g.buf_start = f.buf_start + left
  BY <1>1 DEF Fragment
<1> HIDE DEF g
<1>3. g \in SoundFragment /\ buf_length(g) = buf_length(f) - left
  BY <1>1, <1>2 DEF SoundFragment, buf_length
<1>4. v \in Seq(Bytes) /\ Len(v) = buf_length(f) /\ left \in 0 .. Len(v)
  BY <1>1, ValidIs
<1>5. \A i \in 1 .. Len(v) : v[i] = f.mem[f.buf_start + i]
  <2>1. \A i \in f.buf_start + 1 .. Len(f.mem) : f.mem[i] \in Bytes
    BY <1>1
  <2>2. \A i \in 1 .. Len(f.mem) - (f.buf_start + 1) + 1 : v[i] = f.mem[(f.buf_start + 1) + i - 1]
    BY <1>1, <2>1, SubSeqProperties, SMTT(30) DEF Valid
  <2> HIDE DEF v
  <2> QED
    BY <1>1, <1>4, <2>2, SMTT(30)
<1>6. /\ Valid(g) \in Seq(Bytes) /\ Len(Valid(g)) = Len(v) - left
      /\ \A i \in 1 .. Len(v) - left : Valid(g)[i] = f.mem[f.buf_start + left + i]
  <2> DEFINE st == f.buf_start + left
  <2>1. st \in Nat /\ st + 1 \in Int /\ \A i \in st + 1 .. Len(f.mem) : f.mem[i] \in Bytes
    BY <1>1
  <2>2. Valid(g) = SubSeq(f.mem, st + 1, Len(f.mem))
    BY <1>2 DEF Valid
  <2>3. st < Len(f.mem) /\ Len(v) - left = Len(f.mem) - st
    BY <1>1, <1>4
  <2> HIDE DEF st
  <2>4. /\ Valid(g) \in Seq(Bytes) /\ Len(Valid(g)) = Len(f.mem) - st
        /\ \A i \in 1 .. Len(f.mem) - st : Valid(g)[i] = f.mem[st + i]
    BY <1>1, <2>1, <2>2, <2>3
  <2> QED
    BY <2>3, <2>4 DEF st
<1>7. Valid(g) = SubSeq(v, left + 1, Len(v))
  <2> DEFINE q == SubSeq(v, left + 1, Len(v))
             r == Valid(g)
  <2>1. q \in Seq(Bytes) /\ Len(q) = Len(v) - left /\ \A i \in 1 .. Len(v) - left : q[i] = v[left + i]
    BY <1>4, ListCut
  <2> HIDE DEF q, v
  <2>2. ASSUME NEW i \in 1 .. Len(v) - left PROVE q[i] = r[i]
    <3>1. left + i \in 1 .. Len(v) /\ f.buf_start + left + i = f.buf_start + (left + i)
      BY <1>1, <1>4
    <3> QED
      BY <1>5, <1>6, <2>1, <3>1
  <2> HIDE DEF r
  <2>3. q = r
    BY <1>6, <2>1, <2>2, SeqEqual DEF r
  <2> QED
    BY <2>3 DEF q, r
<1> QED
  BY <1>3, <1>7 DEF g, After

LEMMA ShortenList ==
  ASSUME NEW fs \in Seq(SoundFragment), Len(fs) # 0, NEW left \in Nat, left < buf_length(fs[1])
  PROVE  /\ Shortened(fs, left) \in Seq(SoundFragment)
         /\ Total(Shortened(fs, left)) = Total(fs) - left
         /\ Content(Shortened(fs, left)) =
              After(Valid(fs[1]), left) \o Content(SubSeq(fs, 2, Len(fs)))
<1> DEFINE f == fs[1]
           g == [f EXCEPT !.buf_start = @ + left]
           d == Shortened(fs, left)
           more == SubSeq(fs, 2, Len(fs))
<1>1. Len(fs) \in Nat /\ 1 \in 1 .. Len(fs) /\ f \in SoundFragment
  OBVIOUS
<1>2. d = [fs EXCEPT ![1] = g]
  BY <1>1 DEF Shortened, SoundFragment, Fragment
<1>3. /\ g \in SoundFragment /\ buf_length(g) = buf_length(f) - left
      /\ Valid(g) = After(Valid(f), left)
  BY <1>1, ShortenFragment
<1>4. /\ more \in Seq(SoundFragment) /\ Total(fs) = buf_length(f) + Total(more)
      /\ Total(more) \in Nat /\ buf_length(f) \in Nat
  BY <1>1, FirstFragment, ListMeasured, FragmentFields DEF Measured
<1> HIDE DEF d, g
<1>5. /\ d \in Seq(SoundFragment) /\ Len(d) = Len(fs) /\ d[1] = g
      /\ \A i \in 2 .. Len(fs) : d[i] = fs[i]
  BY <1>1, <1>2, <1>3, ExceptSeq
<1>6. SubSeq(d, 2, Len(d)) = more
  BY <1>1, <1>5
<1>7. /\ Total(d) = buf_length(d[1]) + Total(SubSeq(d, 2, Len(d)))
      /\ Content(d) = Valid(d[1]) \o Content(SubSeq(d, 2, Len(d)))
  BY <1>5, FirstFragment
<1> HIDE DEF f, more
<1>8. Content(d) = Valid(g) \o Content(more) /\ Total(d) = buf_length(g) + Total(more)
  BY <1>5, <1>6, <1>7
<1>9. Total(d) = Total(fs) - left
  BY <1>3, <1>4, <1>8
<1> QED
  BY <1>3, <1>5, <1>8, <1>9 DEF d, f, more

\* The first k fragments are taken as a whole, and what n still asks for of the
\* next one.
PeekAt(fs, n, k) ==
  Content(SubSeq(fs, 1, k)) \o
    (IF k = Len(fs) THEN <<>> ELSE SubSeq(Valid(fs[k + 1]), 1, n - Total(SubSeq(fs, 1, k))))
DiscardAt(fs, n, k) ==
  IF SubSeq(fs, k + 1, Len(fs)) = <<>> THEN SubSeq(fs, k + 1, Len(fs))
  ELSE [SubSeq(fs, k + 1, Len(fs)) EXCEPT ![1].buf_start = @ + n - Total(SubSeq(fs, 1, k))]

\* Fragments are taken until the next one holds more than is left to take.
LastWhole(fs, n, k) ==
  /\ k \in 0 .. Len(fs) /\ Total(SubSeq(fs, 1, k)) \in Nat /\ Total(SubSeq(fs, 1, k)) <= n
  /\ k = Len(fs) \/ n - Total(SubSeq(fs, 1, k)) < buf_length(fs[k + 1])

LEMMA CutAt ==
  ASSUME NEW fs \in Seq(SoundFragment), NEW n \in Nat, NEW k, LastWhole(fs, n, k)
  PROVE  /\ PeekAt(fs, n, k) = FirstOf(Content(fs), n)
         /\ DiscardAt(fs, n, k) \in Seq(SoundFragment)
         /\ Content(DiscardAt(fs, n, k)) = After(Content(fs), n)
         /\ Len(PeekAt(fs, n, k)) \in 0 .. Total(fs)
         /\ Total(DiscardAt(fs, n, k)) = Total(fs) - Len(PeekAt(fs, n, k))
<1> DEFINE whole == SubSeq(fs, 1, k)
           rest  == SubSeq(fs, k + 1, Len(fs))
           a     == Content(whole)
<1>1. /\ k \in 0 .. Len(fs) /\ Total(whole) \in Nat /\ Total(whole) <= n
      /\ k = Len(fs) \/ n - Total(whole) < buf_length(fs[k + 1])
  BY DEF LastWhole
<1>2. /\ PeekAt(fs, n, k) = Content(whole) \o (IF k = Len(fs) THEN <<>>
                                          ELSE SubSeq(Valid(fs[k + 1]), 1, n - Total(whole)))
      /\ DiscardAt(fs, n, k) = IF rest = <<>> THEN rest
                          ELSE [rest EXCEPT ![1].buf_start = @ + n - Total(whole)]
  BY DEF PeekAt, DiscardAt
<1>3. /\ whole \in Seq(SoundFragment)
      /\ rest \in Seq(SoundFragment) /\ Len(rest) = Len(fs) - k
      /\ \A i \in 1 .. Len(fs) - k : rest[i] = fs[k + i]
  BY <1>1, ListCut
<1>4. Total(fs) = Total(whole) + Total(rest) /\ Content(fs) = Content(whole) \o Content(rest)
  BY <1>1, FragmentsCut
<1>5. Len(fs) \in Nat
  OBVIOUS
<1> HIDE DEF whole, rest
<1>6. /\ Measured(whole) /\ Measured(rest) /\ Measured(fs)
      /\ a \in Seq(Bytes) /\ Len(a) = Total(whole)
  BY <1>3, ListMeasured DEF Measured
<1>7. CASE k = Len(fs)
  <2>1. Len(rest) = 0
    BY <1>3, <1>5, <1>7
  <2>2. rest = <<>>
    BY <1>3, <2>1, EmptySeq
  <2>3. Content(rest) = <<>> /\ Total(rest) = 0
    BY <2>2, ContentEmpty, TotalEmpty
  <2>4. a \o <<>> = a
    BY <1>6, ConcatEmptySeq
  <2>5. Content(fs) = a /\ PeekAt(fs, n, k) = a /\ DiscardAt(fs, n, k) = <<>>
    BY <1>2, <1>4, <1>7, <2>2, <2>3, <2>4
  <2>6. Total(fs) = Total(whole)
    BY <1>1, <1>4, <2>3
  <2> HIDE DEF a
  <2>7. Len(a) \in Nat /\ Len(a) <= n
    BY <1>1, <1>6
  <2>8. SubSeq(a, 1, Len(a)) = a
    BY <1>6, SubSeqFull
  <2>9. FirstOf(a, n) = a
    <3>1. ~(n < Len(a))
      BY <2>7
    <3> QED
      BY <2>8, <3>1, Zenon DEF FirstOf
  <2>10. After(a, n) = <<>>
    BY <2>7, SubSeqEmpty DEF After
  <2>11. <<>> \in Seq(SoundFragment) /\ Total(<<>>) = Total(fs) - Len(a)
    BY <1>1, <1>6, <2>6, TotalEmpty
  <2> QED
    BY <1>1, <1>6, <2>5, <2>6, <2>7, <2>9, <2>10, <2>11, ContentEmpty
<1>8. CASE k # Len(fs)
  <2> DEFINE f    == rest[1]
             left == n - Total(whole)
             more == SubSeq(rest, 2, Len(rest))
             v    == Valid(f)
             c    == Content(more)
             d    == DiscardAt(fs, n, k)
  <2>1. Len(rest) # 0 /\ Len(rest) \in Nat /\ f = fs[k + 1]
    <3>1. k \in Nat /\ k < Len(fs)
      BY <1>1, <1>5, <1>8
    <3>2. 1 \in 1 .. Len(fs) - k
      BY <1>5, <3>1
    <3>3. rest[1] = fs[k + 1]
      BY <1>3, <3>2
    <3> QED
      BY <1>3, <1>5, <3>1, <3>3
  <2>2. /\ f \in SoundFragment /\ more \in Seq(SoundFragment)
        /\ Total(rest) = buf_length(f) + Total(more) /\ Content(rest) = v \o c
    BY <1>3, <2>1, FirstFragment
  <2>3. buf_length(f) \in Nat
    BY <2>2, FragmentFields
  <2>4. left \in Nat /\ left < buf_length(f) /\ n = Total(whole) + left
    <3> HIDE DEF f
    <3> QED
      BY <1>1, <1>8, <2>1, <2>3
  <2>5. /\ v \in Seq(Bytes) /\ Len(v) = buf_length(f)
        /\ c \in Seq(Bytes) /\ Len(c) = Total(more) /\ Total(more) \in Nat
    BY <2>2, ValidIs, ListMeasured DEF Measured
  <2>6. d = Shortened(rest, left)
    <3>1. rest # <<>> /\ 1 \in 1 .. Len(rest) /\ rest[1].buf_start \in Nat
      BY <2>1, <2>2, FragmentFields
    <3>2. rest[1].buf_start + n - Total(whole) = rest[1].buf_start + left
      BY <1>1, <3>1
    <3> QED
      BY <1>2, <3>1, <3>2 DEF Shortened
  <2>7. PeekAt(fs, n, k) = a \o SubSeq(v, 1, left)
    BY <1>2, <1>8, <2>1
  <2> HIDE DEF f, left
  <2>8. /\ d \in Seq(SoundFragment) /\ Total(d) = Total(rest) - left
        /\ Content(d) = After(v, left) \o c
    BY <1>3, <2>1, <2>4, <2>6, ShortenList DEF f
  <2> HIDE DEF more, v, c, d, a
  <2>9. left \in 0 .. Len(v)
    BY <2>4, <2>5
  <2>10. /\ FirstOf(a \o (v \o c), Len(a) + left) = a \o SubSeq(v, 1, left)
         /\ After(a \o (v \o c), Len(a) + left) = After(v, left) \o c
         /\ Len(FirstOf(a \o (v \o c), Len(a) + left)) = Len(a) + left
    <3>1. a \in Seq(Bytes) /\ v \in Seq(Bytes) /\ c \in Seq(Bytes)
      BY <1>6, <2>5
    <3> QED
      BY <2>9, <3>1, CutBytes, ZenonT(30)
  <2>11. Content(fs) = a \o (v \o c) /\ n = Len(a) + left
    BY <1>4, <1>6, <2>2, <2>4 DEF a
  <2>12. Len(PeekAt(fs, n, k)) = n
    BY <2>7, <2>10, <2>11
  <2>13. n \in 0 .. Total(fs) /\ Total(d) = Total(fs) - n
    <3>1. Total(fs) = Total(whole) + (buf_length(f) + Total(more))
      BY <1>4, <2>2
    <3>2. Total(d) = (buf_length(f) + Total(more)) - left
      BY <2>2, <2>8
    <3>3. Total(whole) \in Nat /\ Total(more) \in Nat
      BY <1>1, <2>5
    <3> QED
      BY <2>3, <2>4, <3>1, <3>2, <3>3
  <2> QED
    BY <2>7, <2>8, <2>10, <2>11, <2>12, <2>13 DEF d
<1> QED
  BY <1>7, <1>8

\* What read and peek hand out is what a queue would, and what is left as well.
LEMMA PeekDiscard ==
  ASSUME NEW fs \in Seq(SoundFragment), NEW n \in Nat
  PROVE  /\ peek(fs, n) = FirstOf(Content(fs), n)
         /\ discard(fs, n) \in Seq(SoundFragment)
         /\ Content(discard(fs, n)) = After(Content(fs), n)
         /\ Len(peek(fs, n)) \in 0 .. Total(fs)
         /\ Total(discard(fs, n)) = Total(fs) - Len(peek(fs, n))
<1> DEFINE k == WholeFragments(fs, n)
<1>1. LastWhole(fs, n, k)
  BY WholeIs DEF LastWhole
<1>2. peek(fs, n) = PeekAt(fs, n, k) /\ discard(fs, n) = DiscardAt(fs, n, k)
  BY DEF peek, discard, PeekAt, DiscardAt
<1> HIDE DEF k
<1> QED
  BY <1>1, <1>2, CutAt
-----------------------------------------------------------------------------
(* Appending.                                                              *)

\* Bytes written behind the others into a fragment that has room for them.
LEMMA FillFragment ==
  ASSUME NEW f \in SoundFragment, NEW d \in Seq(Bytes),
         Len(f.mem) + Len(d) <= FRAGMENT_DATA_SIZE
  PROVE  LET g == [f EXCEPT !.mem = @ \o d]
         IN  /\ g \in SoundFragment /\ buf_length(g) = buf_length(f) + Len(d)
             /\ Valid(g) = Valid(f) \o d
<1> DEFINE g == [f EXCEPT !.mem = @ \o d]
           v == Valid(f)
           m == f.mem
           b == f.buf_start
<1>1. /\ m \in Seq(Bytes) /\ b \in Nat /\ Len(m) \in Nat /\ Len(d) \in Nat
      /\ b < Len(m) /\ Len(m) <= FRAGMENT_DATA_SIZE
      /\ buf_length(f) = Len(m) - b /\ f \in Fragment
  BY FragmentFields DEF SoundFragment
<1>2. m \o d \in Seq(Bytes) /\ Len(m \o d) = Len(m) + Len(d)
  BY <1>1, ConcatProperties
<1>3. g \in Fragment /\ g.mem = m \o d /\ g.buf_start = b
  BY <1>1, <1>2 DEF Fragment
<1>4. Valid(f) = SubSeq(m, b + 1, Len(m)) /\ Valid(g) = SubSeq(m \o d, b + 1, Len(m \o d))
  BY <1>3 DEF Valid
<1> HIDE DEF g, m, b, v
<1>5. g \in SoundFragment /\ buf_length(g) = buf_length(f) + Len(d)
  <2>1. Len(g.mem) = Len(m) + Len(d)
    BY <1>2, <1>3, Zenon
  <2>2. Len(m) + Len(d) <= FRAGMENT_DATA_SIZE
    BY DEF m
  <2>3. g.buf_start < Len(g.mem)
    <3>1. b < Len(m) + Len(d)
      BY <1>1
    <3> QED
      BY <1>3, <2>1, <3>1, Zenon
  <2>4. Len(g.mem) <= FRAGMENT_DATA_SIZE
    BY <2>1, <2>2, Zenon
  <2>5. g \in SoundFragment
    BY <1>3, <2>3, <2>4, Zenon DEF SoundFragment
  <2>6. buf_length(g) = (Len(m) + Len(d)) - b
    BY <1>3, <2>1, Zenon DEF buf_length
  <2>7. (Len(m) + Len(d)) - b = (Len(m) - b) + Len(d)
    BY <1>1
  <2> QED
    BY <1>1, <2>5, <2>6, <2>7, Zenon
<1>6. Valid(g) = Valid(f) \o d
  <2> DEFINE p == SubSeq(m, 1, b)
             q == SubSeq(m, b + 1, Len(m))
  <2>1. b \in 0 .. Len(m)
    BY <1>1
  <2>2. p \in Seq(Bytes) /\ Len(p) = b /\ q \in Seq(Bytes) /\ m = p \o q
    BY <1>1, <2>1, ListCut
  <2> HIDE DEF p, q
  <2> DEFINE y == q \o d
  <2>3. m \o d = p \o y /\ y \in Seq(Bytes)
    <3>0. p \in Seq(Bytes) /\ q \in Seq(Bytes) /\ d \in Seq(Bytes)
      BY <2>2
    <3>1. (p \o q) \o d = p \o (q \o d)
      BY <3>0, ConcatAssociative, SMTT(30)
    <3>2. q \o d \in Seq(Bytes)
      BY <3>0, ConcatProperties, ZenonT(30)
    <3> QED
      BY <2>2, <3>1, <3>2
  <2> HIDE DEF y
  <2>4. SubSeq(p \o y, Len(p) + 1, Len(p \o y)) = y
    BY <2>2, <2>3
  <2>5. Valid(g) = y
    BY <1>4, <2>2, <2>3, <2>4
  <2> QED
    BY <1>4, <2>5 DEF y, q
<1> QED
  BY <1>5, <1>6 DEF g

\* The last fragment of a list is filled.
LEMMA FillLast ==
  ASSUME NEW fs \in Seq(SoundFragment), Len(fs) # 0, NEW d \in Seq(Bytes),
         Len(Last(fs).mem) + Len(d) <= FRAGMENT_DATA_SIZE
  PROVE  LET gs == [fs EXCEPT ![Len(fs)].mem = @ \o d]
         IN  /\ gs \in Seq(SoundFragment) /\ Total(gs) = Total(fs) + Len(d)
             /\ Content(gs) = Content(fs) \o d
<1> DEFINE n  == Len(fs)
           gs == [fs EXCEPT ![Len(fs)].mem = @ \o d]
<1>1. PICK h \in Seq(SoundFragment), x \in SoundFragment :
        fs = Append(h, x) /\ Len(h) = Len(fs) - 1
  BY SplitLast
<1> DEFINE y == [x EXCEPT !.mem = @ \o d]
<1>2. n \in Nat /\ n \in 1 .. n /\ fs[n] = x /\ Last(fs) = x /\ \A i \in 1 .. n - 1 : fs[i] = h[i]
  BY <1>1 DEF Last
<1>3. /\ y \in SoundFragment /\ buf_length(y) = buf_length(x) + Len(d)
      /\ Valid(y) = Valid(x) \o d
  BY <1>2, FillFragment
<1>4. gs = [fs EXCEPT ![n] = y]
  BY <1>2 DEF SoundFragment, Fragment
<1> HIDE DEF y, gs
<1>5. gs = Append(h, y)
  <2>1. /\ gs \in Seq(SoundFragment) /\ Len(gs) = n
        /\ \A i \in 1 .. n : gs[i] = IF i = n THEN y ELSE fs[i]
    BY <1>2, <1>3, <1>4, ExceptSeq
  <2> DEFINE z == Append(h, y)
  <2>2. /\ z \in Seq(SoundFragment) /\ Len(z) = Len(h) + 1 /\ z[Len(h) + 1] = y
        /\ \A i \in 1 .. Len(h) : z[i] = h[i]
    BY <1>1, <1>3
  <2>3. Len(h) = n - 1
    BY <1>1
  <2> HIDE DEF z, n
  <2>4. ASSUME NEW i \in 1 .. n PROVE gs[i] = z[i]
    <3>1. n \in Nat /\ Len(h) \in Nat /\ fs[n] = x
      BY <1>2
    <3>2. CASE i = n
      BY <2>1, <2>2, <2>3, <3>1, <3>2
    <3>3. CASE i # n
      <4>1. i \in 1 .. Len(h) /\ i \in 1 .. n - 1
        BY <2>3, <3>1, <3>3
      <4>2. gs[i] = fs[i]
        BY <2>1, <3>3
      <4>3. fs[i] = h[i]
        BY <1>2, <4>1
      <4>4. z[i] = h[i]
        BY <2>2, <4>1
      <4> QED
        BY <4>2, <4>3, <4>4
    <3> QED
      BY <3>2, <3>3
  <2>5. Len(z) = n
    BY <1>2, <2>2, <2>3
  <2>6. gs = z
    BY <2>1, <2>2, <2>4, <2>5, SeqEqual
  <2> QED
    BY <2>6 DEF z
<1>6. /\ Total(gs) = Total(h) + buf_length(y) /\ Total(fs) = Total(h) + buf_length(x)
      /\ Content(gs) = Content(h) \o Valid(y) /\ Content(fs) = Content(h) \o Valid(x)
      /\ gs \in Seq(SoundFragment)
  <2>1. /\ Total(Append(h, x)) = Total(h) + buf_length(x)
        /\ Content(Append(h, x)) = Content(h) \o Valid(x)
    BY <1>1, TotalAppend, ContentAppend
  <2>2. /\ Total(Append(h, y)) = Total(h) + buf_length(y)
        /\ Content(Append(h, y)) = Content(h) \o Valid(y)
    BY <1>3, TotalAppend, ContentAppend
  <2>3. Append(h, y) \in Seq(SoundFragment)
    BY <1>3
  <2> QED
    BY <1>1, <1>5, <2>1, <2>2, <2>3, Zenon
<1>7. /\ Total(h) \in Nat /\ buf_length(x) \in Nat /\ Len(d) \in Nat
      /\ Content(h) \in Seq(Bytes) /\ Valid(x) \in Seq(Bytes)
  BY <1>1, ListMeasured, FragmentFields, ValidIs DEF Measured
<1>8. Total(gs) = Total(fs) + Len(d)
  BY <1>3, <1>6, <1>7
<1>9. Content(gs) = Content(fs) \o d
  <2> DEFINE a == Content(h)
             b == Valid(x)
  <2>1. a \in Seq(Bytes) /\ b \in Seq(Bytes)
    BY <1>7
  <2>2. Content(gs) = a \o (b \o d) /\ Content(fs) = a \o b
    BY <1>3, <1>6
  <2> HIDE DEF a, b
  <2>3. (a \o b) \o d = a \o (b \o d)
    BY <2>1, ConcatAssociative
  <2> QED
    BY <2>2, <2>3
<1> QED
  BY <1>6, <1>8, <1>9 DEF gs

\* A fragment made of bytes that fit.
LEMMA NewIs ==
  ASSUME NEW d \in Seq(Bytes), Len(d) # 0, Len(d) <= FRAGMENT_DATA_SIZE
  PROVE  /\ NewFragment(d) \in SoundFragment /\ buf_length(NewFragment(d)) = Len(d)
         /\ Valid(NewFragment(d)) = d
<1> DEFINE f == NewFragment(d)
<1>1. f \in Fragment /\ f.mem = d /\ f.buf_start = 0
  BY DEF NewFragment, Fragment
<1>2. Len(d) \in Nat
  OBVIOUS
<1> HIDE DEF f
<1>3. f \in SoundFragment
  BY <1>1, <1>2 DEF SoundFragment
<1>4. buf_length(f) = Len(d)
  BY <1>1, <1>2 DEF buf_length
<1>5. Valid(f) = SubSeq(d, 0 + 1, Len(d))
  BY <1>1, Zenon DEF Valid
<1>6. SubSeq(d, 0 + 1, Len(d)) = d
  BY SubSeqFull
<1> QED
  BY <1>3, <1>4, <1>5, <1>6 DEF f

\* The bytes from p to q follow the first p.
LEMMA NextPiece ==
  ASSUME NEW s \in Seq(Bytes), NEW p \in Nat, NEW q \in Nat, p < q, q <= Len(s)
  PROVE  /\ SubSeq(s, 1, p) \in Seq(Bytes) /\ SubSeq(s, 1, q) \in Seq(Bytes)
         /\ SubSeq(s, p + 1, q) \in Seq(Bytes) /\ Len(SubSeq(s, p + 1, q)) = q - p
         /\ SubSeq(s, 1, p) \o SubSeq(s, p + 1, q) = SubSeq(s, 1, q)
<1> DEFINE a == SubSeq(s, 1, p)
           b == SubSeq(s, p + 1, q)
           c == SubSeq(s, 1, q)
<1>1. Len(s) \in Nat
  OBVIOUS
<1>2. a \in Seq(Bytes) /\ Len(a) = p /\ \A i \in 1 .. p : a[i] = s[i]
  BY <1>1
<1>3. b \in Seq(Bytes) /\ Len(b) = q - p /\ \A i \in 1 .. q - p : b[i] = s[p + i]
  BY <1>1
<1>4. c \in Seq(Bytes) /\ Len(c) = q /\ \A i \in 1 .. q : c[i] = s[i]
  BY <1>1
<1> HIDE DEF a, b, c
<1> DEFINE d == a \o b
<1>5. /\ d \in Seq(Bytes) /\ Len(d) = Len(a) + Len(b)
      /\ \A i \in 1 .. Len(a) + Len(b) : d[i] = IF i <= Len(a) THEN a[i] ELSE b[i - Len(a)]
  BY <1>2, <1>3, ConcatProperties
<1> HIDE DEF d
<1>6. Len(d) = q
  BY <1>2, <1>3, <1>5
<1>7. ASSUME NEW i \in 1 .. q PROVE d[i] = c[i]
  <2>1. CASE i <= p
    <3>1. i \in 1 .. p /\ i \in 1 .. Len(a) + Len(b)
      BY <1>2, <1>3, <2>1
    <3>2. d[i] = a[i]
      BY <1>2, <1>5, <2>1, <3>1
    <3> QED
      BY <1>2, <1>4, <3>1, <3>2
  <2>2. CASE ~(i <= p)
    <3>1. i - p \in 1 .. q - p /\ p + (i - p) = i
      BY <2>2
    <3>2. d[i] = b[i - p]
      BY <1>2, <1>5, <1>6, <2>2
    <3>3. b[i - p] = s[p + (i - p)]
      BY <1>3, <3>1
    <3> QED
      BY <1>4, <3>1, <3>2, <3>3
  <2> QED
    BY <2>1, <2>2
<1>8. d = c
  BY <1>4, <1>5, <1>6, <1>7, SeqEqual
<1> QED
  BY <1>2, <1>3, <1>4, <1>8 DEF a, b, c, d

\* The bytes that the first m new fragments take, and those fragments.
Taken(s, m)  == Smaller(m * FRAGMENT_DATA_SIZE, Len(s))
Chunks(s, n) ==
  [i \in 1 .. n |-> NewFragment(SubSeq(s, (i - 1) * FRAGMENT_DATA_SIZE + 1, Taken(s, i)))]
Needed(s)    == (Len(s) + FRAGMENT_DATA_SIZE - 1) \div FRAGMENT_DATA_SIZE

\* Each fragment but the last is full, the last one is not empty.
LEMMA TakenIs ==
  ASSUME NEW s \in Seq(Bytes)
  PROVE  /\ Needed(s) \in Nat /\ Taken(s, 0) = 0 /\ Taken(s, Needed(s)) = Len(s)
         /\ \A m \in 0 .. Needed(s) - 1 :
              /\ Taken(s, m) = m * FRAGMENT_DATA_SIZE /\ Taken(s, m) \in Nat
              /\ Taken(s, m + 1) \in Nat /\ Taken(s, m) < Taken(s, m + 1)
              /\ Taken(s, m + 1) <= Taken(s, m) + FRAGMENT_DATA_SIZE
              /\ Taken(s, m + 1) <= Len(s)
<1> DEFINE F == FRAGMENT_DATA_SIZE
           L == Len(s)
           a == L + F - 1
           n == Needed(s)
<1>1. F \in Nat /\ F > 0 /\ L \in Nat /\ a \in Nat
  BY BufferAssumption
<1>2. n = a \div F
  BY DEF Needed
<1> HIDE DEF F, L, n
<1>3. n \in Int /\ n * F <= a /\ a < n * F + F
  <2>1. a \in Nat /\ F \in Nat /\ F > 0
    BY <1>1
  <2> HIDE DEF a
  <2>2. a \div F \in Int
    BY <2>1
  <2>3. (a \div F) * F <= a
    BY <2>1
  <2>4. a < (a \div F) * F + F
    BY <2>1
  <2> QED
    BY <1>2, <2>2, <2>3, <2>4
<1>4. n * F \in Int /\ L <= n * F /\ n * F <= L + F - 1
  BY <1>1, <1>3
<1>5. n \in Nat
  <2> SUFFICES ASSUME n < 0 PROVE FALSE
    BY <1>3
  <2>1. n <= -1 /\ -1 \in Int
    BY <1>3
  <2>2. n * F <= (-1) * F
    BY <1>1, <1>3, <2>1
  <2>3. (-1) * F = -F
    BY <1>1
  <2> QED
    BY <1>1, <1>4, <2>2, <2>3
<1>6. Taken(s, 0) = 0
  <2>1. 0 * F = 0
    BY <1>1
  <2> QED
    BY <1>1, <2>1 DEF Taken, Smaller, F, L
<1>7. Taken(s, n) = L
  BY <1>1, <1>4 DEF Taken, Smaller, F, L
<1>8. ASSUME NEW m \in 0 .. n - 1
      PROVE  /\ Taken(s, m) = m * F /\ Taken(s, m) \in Nat
             /\ Taken(s, m + 1) \in Nat /\ Taken(s, m) < Taken(s, m + 1)
             /\ Taken(s, m + 1) <= Taken(s, m) + F
             /\ Taken(s, m + 1) <= L
  <2>1. m \in Nat /\ m + 1 \in Nat /\ m + 1 <= n
    BY <1>5
  <2>2. (m + 1) * F = m * F + F
    BY <1>1, <2>1
  <2>3. (m + 1) * F <= n * F
    BY <1>1, <1>5, <2>1
  <2>4. m * F \in Nat
    BY <1>1, <2>1
  <2>5. m * F < L
    BY <1>1, <1>4, <2>2, <2>3, <2>4
  <2>6. Taken(s, m) = m * F
    BY <1>1, <2>4, <2>5 DEF Taken, Smaller, F, L
  <2>7. Taken(s, m + 1) = IF (m + 1) * F < L THEN (m + 1) * F ELSE L
    BY DEF Taken, Smaller, F, L
  <2>8. Taken(s, m + 1) = IF m * F + F < L THEN m * F + F ELSE L
    BY <2>2, <2>7, Zenon
  <2> QED
    BY <1>1, <2>4, <2>5, <2>6, <2>8
<1> QED
  BY <1>5, <1>6, <1>7, <1>8 DEF F, L, n

LEMMA ChunkAdded ==
  ASSUME NEW s \in Seq(Bytes), NEW m \in 0 .. Needed(s) - 1,
         Chunks(s, m) \in Seq(SoundFragment)
  PROVE  LET x == NewFragment(SubSeq(s, Taken(s, m) + 1, Taken(s, m + 1)))
         IN  /\ Chunks(s, m + 1) = Append(Chunks(s, m), x) /\ x \in SoundFragment
             /\ buf_length(x) = Taken(s, m + 1) - Taken(s, m)
             /\ Valid(x) = SubSeq(s, Taken(s, m) + 1, Taken(s, m + 1))
<1> DEFINE p == Taken(s, m)
           q == Taken(s, m + 1)
           d == SubSeq(s, p + 1, q)
           x == NewFragment(d)
           c == Chunks(s, m)
           g == Chunks(s, m + 1)
           h == Append(c, x)
<1>1. Needed(s) \in Nat
  BY TakenIs
<1>2. m \in Nat /\ m + 1 \in Nat /\ (m + 1) - 1 = m
  BY <1>1
<1>3. /\ p = m * FRAGMENT_DATA_SIZE /\ p \in Nat /\ q \in Nat /\ p < q
      /\ q <= p + FRAGMENT_DATA_SIZE /\ q <= Len(s)
  BY TakenIs
<1>4. d \in Seq(Bytes) /\ Len(d) = q - p
  BY <1>3, NextPiece
<1>5. Len(d) # 0 /\ Len(d) <= FRAGMENT_DATA_SIZE
  BY <1>3, <1>4, BufferAssumption
<1>6. x \in SoundFragment /\ buf_length(x) = Len(d) /\ Valid(x) = d
  <2> HIDE DEF d
  <2> QED
    BY <1>4, <1>5, NewIs
<1>7. /\ DOMAIN c = 1 .. m /\ DOMAIN g = 1 .. m + 1
      /\ \A i \in 1 .. m : c[i] = g[i]
  BY <1>2 DEF Chunks
<1>8. g[m + 1] = NewFragment(SubSeq(s, ((m + 1) - 1) * FRAGMENT_DATA_SIZE + 1, q))
  BY <1>2 DEF Chunks
<1>9. g[m + 1] = x
  BY <1>2, <1>3, <1>8
<1>10. Len(c) = m
  BY <1>2, <1>7
<1> HIDE DEF x, c
<1>11. /\ h \in Seq(SoundFragment) /\ DOMAIN h = 1 .. m + 1 /\ h[m + 1] = x
       /\ \A i \in 1 .. m : h[i] = c[i]
  BY <1>2, <1>6, <1>10 DEF c
<1>12. g = h
  <2>1. \A i \in 1 .. m + 1 : g[i] = h[i]
    <3> SUFFICES ASSUME NEW i \in 1 .. m + 1 PROVE g[i] = h[i]
      OBVIOUS
    <3> HIDE DEF g, h
    <3>1. CASE i = m + 1
      BY <1>9, <1>11, <3>1
    <3>2. CASE i # m + 1
      <4>1. i \in 1 .. m
        BY <1>2, <3>2
      <4> QED
        BY <1>7, <1>11, <4>1
    <3> QED
      BY <3>1, <3>2
  <2>2. g = [i \in 1 .. m + 1 |-> g[i]]
    BY DEF Chunks
  <2> HIDE DEF g
  <2>3. h = [i \in 1 .. m + 1 |-> h[i]]
    <3> HIDE DEF h
    <3>1. h = [i \in 1 .. Len(h) |-> h[i]]
      <4>1. h \in Seq(SoundFragment)
        BY <1>11
      <4> QED
        BY <4>1
    <3>2. Len(h) = m + 1
      BY <1>2, <1>11
    <3> QED
      BY <3>1, <3>2
  <2> HIDE DEF h
  <2> QED
    BY <2>1, <2>2, <2>3, Zenon
<1> QED
  BY <1>4, <1>6, <1>12 DEF g, h, c, x, p, q, d

\* The new fragments hold the bytes, in order.
Chunked(s, m) ==
  /\ Chunks(s, m) \in Seq(SoundFragment) /\ Total(Chunks(s, m)) = Taken(s, m)
  /\ Content(Chunks(s, m)) = SubSeq(s, 1, Taken(s, m))

LEMMA ChunksHold ==
  ASSUME NEW s \in Seq(Bytes)
  PROVE  /\ Chunks(s, Needed(s)) \in Seq(SoundFragment)
         /\ Total(Chunks(s, Needed(s))) = Len(s)
         /\ Content(Chunks(s, Needed(s))) = s
<1> DEFINE n   == Needed(s)
           Bad == {m \in 0 .. n : ~Chunked(s, m)}
<1>1. /\ n \in Nat /\ Taken(s, 0) = 0 /\ Taken(s, n) = Len(s)
  BY TakenIs
<1>2. Chunked(s, 0)
  <2>1. Chunks(s, 0) = <<>>
    BY DEF Chunks
  <2>2. SubSeq(s, 1, 0) = <<>>
    BY SubSeqEmpty
  <2>3. <<>> \in Seq(SoundFragment)
    OBVIOUS
  <2> QED
    BY <1>1, <2>1, <2>2, <2>3, TotalEmpty, ContentEmpty, Zenon DEF Chunked
<1> HIDE DEF n
<1>3. ASSUME NEW m \in 0 .. n - 1, Chunked(s, m) PROVE Chunked(s, m + 1)
  <2> DEFINE c == Chunks(s, m)
             p == Taken(s, m)
             q == Taken(s, m + 1)
             d == SubSeq(s, p + 1, q)
             x == NewFragment(d)
  <2>1. c \in Seq(SoundFragment) /\ Total(c) = p /\ Content(c) = SubSeq(s, 1, p)
    BY <1>3 DEF Chunked
  <2>2. p \in Nat /\ q \in Nat /\ p < q /\ q <= Len(s)
    BY <1>3, TakenIs DEF n
  <2>3. /\ Chunks(s, m + 1) = Append(c, x) /\ x \in SoundFragment
        /\ buf_length(x) = q - p /\ Valid(x) = d
    BY <1>3, <2>1, ChunkAdded DEF n
  <2>4. SubSeq(s, 1, p) \o d = SubSeq(s, 1, q)
    BY <2>2, NextPiece
  <2> HIDE DEF c, d, x, p, q
  <2>5. /\ Total(Append(c, x)) = Total(c) + buf_length(x)
        /\ Content(Append(c, x)) = Content(c) \o Valid(x)
        /\ Append(c, x) \in Seq(SoundFragment)
    <3>1. c \in Seq(SoundFragment) /\ x \in SoundFragment
      BY <2>1, <2>3
    <3> QED
      BY <3>1, TotalAppend, ContentAppend
  <2>6. p + (q - p) = q
    BY <2>2
  <2>7. Total(Append(c, x)) = q /\ Content(Append(c, x)) = SubSeq(s, 1, q)
    BY <2>1, <2>3, <2>4, <2>5, <2>6, Zenon
  <2>8. Total(Chunks(s, m + 1)) = q /\ Content(Chunks(s, m + 1)) = SubSeq(s, 1, q)
    BY <2>3, <2>7, Zenon
  <2>9. Chunks(s, m + 1) \in Seq(SoundFragment)
    BY <2>3, <2>5, Zenon
  <2> QED
    BY <2>8, <2>9, Zenon DEF Chunked, q
<1>4. ASSUME NEW m \in Bad, \A y \in Bad : m <= y PROVE FALSE
  <2>1. m \in 0 .. n /\ ~Chunked(s, m) /\ m # 0
    BY <1>2
  <2>2. m - 1 \in 0 .. n - 1 /\ (m - 1) + 1 = m /\ m - 1 \in 0 .. n /\ ~(m <= m - 1)
    BY <1>1, <2>1
  <2>3. Chunked(s, m - 1)
    BY <1>4, <2>2
  <2>4. Chunked(s, (m - 1) + 1)
    BY <1>3, <2>2, <2>3
  <2> QED
    BY <2>1, <2>2, <2>4
<1>5. Bad \in SUBSET Nat
  BY <1>1
<1>6. Bad = {}
  <2> HIDE DEF Bad
  <2> QED
    BY <1>4, <1>5, SmallestExists
<1>7. Chunked(s, n)
  <2>1. n \in 0 .. n
    BY <1>1
  <2> QED
    BY <1>6, <2>1
<1>8. SubSeq(s, 1, Len(s)) = s
  BY SubSeqFull
<1> QED
  BY <1>1, <1>7, <1>8 DEF Chunked, n

LEMMA AppendIs ==
  ASSUME NEW fs \in Seq(SoundFragment), NEW data \in Seq(Bytes)
  PROVE  /\ append(fs, data) \in Seq(SoundFragment)
         /\ Total(append(fs, data)) = Total(fs) + Len(data)
         /\ Content(append(fs, data)) = Content(fs) \o data
<1> DEFINE room == IF fs = <<>> THEN 0 ELSE fragment_avail(Last(fs))
           k    == Smaller(room, Len(data))
           head == SubSeq(data, 1, k)
           rest == SubSeq(data, k + 1, Len(data))
           old  == IF k = 0 THEN fs ELSE [fs EXCEPT ![Len(fs)].mem = @ \o head]
           new  == Chunks(rest, Needed(rest))
<1>1. append(fs, data) = old \o new
  BY DEF append, Chunks, Needed, Taken
<1>2. Len(data) \in Nat /\ Len(fs) \in Nat
  OBVIOUS
<1>3. room \in Nat /\ (room # 0 => /\ Len(fs) # 0
                                   /\ Len(Last(fs).mem) \in Nat
                                   /\ room = FRAGMENT_DATA_SIZE - Len(Last(fs).mem))
  <2>1. CASE fs = <<>>
    BY <2>1
  <2>2. CASE fs # <<>>
    <3>1. Len(fs) # 0 /\ Last(fs) \in SoundFragment
      BY <1>2, <2>2 DEF Last
    <3>2. Len(Last(fs).mem) \in Nat /\ Len(Last(fs).mem) <= FRAGMENT_DATA_SIZE
      BY <3>1, FragmentFields
    <3>3. room = FRAGMENT_DATA_SIZE - Len(Last(fs).mem)
      BY <2>2 DEF fragment_avail
    <3> HIDE DEF room
    <3> QED
      BY <3>1, <3>2, <3>3, BufferAssumption
  <2> QED
    BY <2>1, <2>2
<1> HIDE DEF room
<1>4. k \in 0 .. Len(data) /\ k <= room
  BY <1>2, <1>3 DEF Smaller
<1> HIDE DEF k
<1>5. /\ head \in Seq(Bytes) /\ Len(head) = k /\ rest \in Seq(Bytes)
      /\ Len(rest) = Len(data) - k /\ data = head \o rest
  BY <1>2, <1>4, ListCut, ZenonT(30)
<1> HIDE DEF head, rest
<1>6. /\ old \in Seq(SoundFragment) /\ Total(old) = Total(fs) + k
      /\ Content(old) = Content(fs) \o head
  <2>1. CASE k = 0
    <3>1. head = <<>>
      BY <1>5, <2>1, EmptySeq
    <3>2. Content(fs) \in Seq(Bytes) /\ Total(fs) \in Nat
      BY ListMeasured DEF Measured
    <3>3. Content(fs) \o <<>> = Content(fs)
      BY <3>2, ConcatEmptySeq
    <3>4. old = fs
      BY <2>1
    <3> QED
      BY <2>1, <3>1, <3>2, <3>3, <3>4
  <2>2. CASE k # 0
    <3>1. Len(fs) # 0 /\ Len(Last(fs).mem) + Len(head) <= FRAGMENT_DATA_SIZE
      <4>1. room # 0 /\ k \in Nat
        BY <1>2, <1>3, <1>4, <2>2
      <4> QED
        BY <1>3, <1>4, <1>5, <4>1, BufferAssumption
    <3>2. old = [fs EXCEPT ![Len(fs)].mem = @ \o head]
      BY <2>2
    <3> QED
      BY <1>5, <3>1, <3>2, FillLast
  <2> QED
    BY <2>1, <2>2
<1>7. new \in Seq(SoundFragment) /\ Total(new) = Len(rest) /\ Content(new) = rest
  BY <1>5, ChunksHold
<1> HIDE DEF old, new
<1>8. /\ old \o new \in Seq(SoundFragment)
      /\ Total(old \o new) = Total(old) + Total(new)
      /\ Content(old \o new) = Content(old) \o Content(new)
  <2>1. Joined(old, new)
    BY <1>6, <1>7, ListsJoined
  <2> QED
    BY <1>6, <1>7, <2>1, ConcatProperties DEF Joined
<1>9. Total(old \o new) = Total(fs) + Len(data)
  <2>1. Total(fs) \in Nat
    BY ListMeasured DEF Measured
  <2>2. Total(old \o new) = (Total(fs) + k) + (Len(data) - k)
    BY <1>5, <1>6, <1>7, <1>8, Zenon
  <2>3. k \in Nat
    BY <1>2, <1>4
  <2> QED
    BY <1>2, <2>1, <2>2, <2>3
<1>10. Content(old \o new) = Content(fs) \o data
  <2> DEFINE a == Content(fs)
  <2>1. a \in Seq(Bytes)
    BY ListMeasured DEF Measured
  <2> HIDE DEF a
  <2>2. (a \o head) \o rest = a \o (head \o rest)
    BY <1>5, <2>1, ConcatAssociative, SMTT(30)
  <2>3. Content(old \o new) = (a \o head) \o rest
    BY <1>6, <1>7, <1>8 DEF a
  <2> QED
    BY <1>5, <2>2, <2>3 DEF a
<1> QED
  BY <1>1, <1>8, <1>9, <1>10
-----------------------------------------------------------------------------
(* Transfer and drain.                                                     *)

\* Some number of fragments can be moved as they are, and no more than that.
LEMMA MovedIs ==
  ASSUME NEW fs \in Seq(SoundFragment), NEW n \in Nat
  PROVE  LastWhole(fs, n, MovedFragments(fs, n))
<1> DEFINE T(j)    == Total(SubSeq(fs, 1, j))
           Fits(j) == T(j) <= n /\ (j < Len(fs) => T(j + 1) > n)
           Full    == {j \in 0 .. Len(fs) : j = Len(fs) \/ T(j + 1) > n}
           k       == MovedFragments(fs, n)
<1>1. Len(fs) \in Nat
  OBVIOUS
<1>2. ASSUME NEW j \in 0 .. Len(fs) PROVE T(j) \in Nat
  BY <1>1, ListCut, ListMeasured DEF Measured
<1>3. T(0) = 0
  <2>1. SubSeq(fs, 1, 0) = <<>>
    BY SubSeqEmpty
  <2> QED
    BY <2>1, TotalEmpty, Zenon
<1>4. ASSUME NEW j \in 0 .. Len(fs) - 1
      PROVE  /\ T(j + 1) = T(j) + buf_length(fs[j + 1])
             /\ buf_length(fs[j + 1]) \in Nat
  BY NextFragment, FragmentFields
<1> HIDE DEF T
<1>5. \E j \in 0 .. Len(fs) : Fits(j)
  <2>1. Full \in SUBSET Nat /\ Len(fs) \in Full
    BY <1>1
  <2> SUFFICES ASSUME NEW j \in Full, \A y \in Full : j <= y
               PROVE  Fits(j)
    <3> HIDE DEF Full, Fits
    <3>1. \E j \in Full : \A y \in Full : j <= y
      BY <2>1, SmallestExists
    <3>2. Full \subseteq 0 .. Len(fs)
      BY DEF Full
    <3> QED
      BY <3>1, <3>2
  <2>2. j \in 0 .. Len(fs) /\ (j < Len(fs) => T(j + 1) > n)
    BY <1>1
  <2>3. T(j) <= n
    <3>1. CASE j = 0
      BY <1>3, <3>1
    <3>2. CASE j # 0
      <4>1. j - 1 \in 0 .. Len(fs) /\ (j - 1) + 1 = j /\ ~(j <= j - 1) /\ j - 1 # Len(fs)
        BY <1>1, <2>2, <3>2
      <4>2. j - 1 \notin Full
        BY <4>1
      <4>3. ~(T((j - 1) + 1) > n)
        BY <4>1, <4>2
      <4>4. T(j) \in Nat
        BY <1>2, <2>2
      <4> QED
        BY <4>1, <4>3, <4>4
    <3> QED
      BY <3>1, <3>2
  <2> QED
    BY <2>2, <2>3
<1>6. k \in 0 .. Len(fs) /\ Fits(k)
  <2>1. k = CHOOSE j \in 0 .. Len(fs) : Fits(j)
    BY DEF MovedFragments, T
  <2> HIDE DEF k, Fits
  <2> QED
    BY <1>5, <2>1
<1> HIDE DEF k
<1>7. k = Len(fs) \/ n - T(k) < buf_length(fs[k + 1])
  <2> SUFFICES ASSUME k # Len(fs) PROVE n - T(k) < buf_length(fs[k + 1])
    OBVIOUS
  <2>1. k \in 0 .. Len(fs) - 1 /\ k < Len(fs)
    BY <1>1, <1>6
  <2>2. T(k + 1) > n
    BY <1>6, <2>1
  <2>3. T(k + 1) = T(k) + buf_length(fs[k + 1]) /\ buf_length(fs[k + 1]) \in Nat
    BY <1>4, <2>1
  <2>4. T(k) \in Nat
    BY <1>2, <1>6
  <2> QED
    BY <2>2, <2>3, <2>4
<1> QED
  BY <1>2, <1>6, <1>7 DEF LastWhole, T, k

\* What Transfer makes of the two lists, and how many bytes go over.
Copied(fs, n)  == LET k == MovedFragments(fs, n)
                  IN  SubSeq(fs, k + 1, Len(fs)) # <<>> /\ n - Total(SubSeq(fs, 1, k)) > 0
Receiver(ds, fs, n) ==
  LET k     == MovedFragments(fs, n)
      moved == SubSeq(fs, 1, k)
      rest  == SubSeq(fs, k + 1, Len(fs))
  IN  IF Copied(fs, n) THEN append(ds \o moved, SubSeq(Valid(rest[1]), 1, n - Total(moved)))
      ELSE ds \o moved
Sender(fs, n)  ==
  LET k    == MovedFragments(fs, n)
      rest == SubSeq(fs, k + 1, Len(fs))
  IN  IF Copied(fs, n) THEN [rest EXCEPT ![1].buf_start = @ + (n - Total(SubSeq(fs, 1, k)))]
      ELSE rest
Carried(fs, n) == IF Copied(fs, n) THEN n ELSE Total(SubSeq(fs, 1, MovedFragments(fs, n)))

LEMMA TransferIs ==
  ASSUME NEW ds \in Seq(SoundFragment), NEW fs \in Seq(SoundFragment), NEW n \in Nat
  PROVE  /\ Receiver(ds, fs, n) \in Seq(SoundFragment)
         /\ Sender(fs, n) \in Seq(SoundFragment)
         /\ Carried(fs, n) \in 0 .. Total(fs)
         /\ Total(Receiver(ds, fs, n)) = Total(ds) + Carried(fs, n)
         /\ Total(Sender(fs, n)) = Total(fs) - Carried(fs, n)
         /\ Content(Receiver(ds, fs, n)) = Content(ds) \o FirstOf(Content(fs), n)
         /\ Content(Sender(fs, n)) = After(Content(fs), n)
<1> DEFINE k     == MovedFragments(fs, n)
           moved == SubSeq(fs, 1, k)
           rest  == SubSeq(fs, k + 1, Len(fs))
           part  == n - Total(moved)
           copy  == rest # <<>> /\ part > 0
           to    == Receiver(ds, fs, n)
           from  == Sender(fs, n)
           rv    == Carried(fs, n)
           pk    == PeekAt(fs, n, k)
           dc    == DiscardAt(fs, n, k)
<1>1. LastWhole(fs, n, k)
  BY MovedIs
<1>2. /\ to = (IF copy THEN append(ds \o moved, SubSeq(Valid(rest[1]), 1, part)) ELSE ds \o moved)
      /\ from = (IF copy THEN [rest EXCEPT ![1].buf_start = @ + part] ELSE rest)
      /\ rv = (IF copy THEN n ELSE Total(moved))
  BY DEF Receiver, Sender, Carried, Copied
<1>3. /\ pk = Content(moved) \o (IF k = Len(fs) THEN <<>> ELSE SubSeq(Valid(fs[k + 1]), 1, part))
      /\ dc = (IF rest = <<>> THEN rest ELSE [rest EXCEPT ![1].buf_start = @ + n - Total(moved)])
  BY DEF PeekAt, DiscardAt
<1> HIDE DEF k, to, from, rv
<1>4. /\ pk = FirstOf(Content(fs), n) /\ dc \in Seq(SoundFragment)
      /\ Content(dc) = After(Content(fs), n) /\ Len(pk) \in 0 .. Total(fs)
      /\ Total(dc) = Total(fs) - Len(pk)
  BY <1>1, CutAt
<1> HIDE DEF pk, dc
<1>5. /\ k \in 0 .. Len(fs) /\ Total(moved) \in Nat /\ Total(moved) <= n
      /\ k = Len(fs) \/ part < buf_length(fs[k + 1])
  BY <1>1 DEF LastWhole
<1>6. /\ moved \in Seq(SoundFragment) /\ rest \in Seq(SoundFragment)
      /\ Len(rest) = Len(fs) - k /\ \A i \in 1 .. Len(fs) - k : rest[i] = fs[k + i]
  BY <1>5, ListCut
<1>7. /\ Content(moved) \in Seq(Bytes) /\ Len(Content(moved)) = Total(moved)
      /\ Content(ds) \in Seq(Bytes) /\ Total(ds) \in Nat
  BY <1>6, ListMeasured DEF Measured
<1>8. /\ ds \o moved \in Seq(SoundFragment) /\ Total(ds \o moved) = Total(ds) + Total(moved)
      /\ Content(ds \o moved) = Content(ds) \o Content(moved)
  <2> HIDE DEF moved
  <2>1. Joined(ds, moved)
    BY <1>6, ListsJoined
  <2> QED
    BY <1>6, <2>1, ConcatProperties DEF Joined
<1>9. part \in Nat /\ Total(moved) + part = n
  BY <1>5
<1>10. Len(fs) \in Nat
  OBVIOUS
<1> HIDE DEF moved, rest
<1>11. rest = <<>> <=> k = Len(fs)
  <2>1. ASSUME k = Len(fs) PROVE rest = <<>>
    <3>1. Len(rest) = 0
      BY <1>6, <1>10, <2>1
    <3> QED
      BY <1>6, <3>1, EmptySeq
  <2>2. ASSUME k # Len(fs) PROVE rest # <<>>
    <3>1. Len(rest) # 0
      BY <1>5, <1>6, <1>10, <2>2
    <3> QED
      BY <3>1
  <2> QED
    BY <2>1, <2>2
<1>12. from = dc
  <2>1. CASE rest = <<>>
    BY <1>2, <1>3, <2>1
  <2>2. CASE rest # <<>>
    <3>1. 1 \in 1 .. Len(rest) /\ rest[1] \in SoundFragment
      BY <1>6, <2>2
    <3>2. rest[1].buf_start \in Nat
      BY <3>1, FragmentFields
    <3>3. rest[1].buf_start + n - Total(moved) = rest[1].buf_start + part
      BY <1>5, <3>2
    <3>4. dc = [rest EXCEPT ![1].buf_start = rest[1].buf_start + part]
      BY <1>3, <2>2, <3>1, <3>3
    <3>5. CASE part > 0
      BY <1>2, <2>2, <3>1, <3>4, <3>5
    <3>6. CASE ~(part > 0)
      <4>1. rest[1].buf_start + part = rest[1].buf_start
        BY <1>9, <3>2, <3>6
      <4>2. [rest[1] EXCEPT !.buf_start = rest[1].buf_start] = rest[1]
        BY <3>1 DEF SoundFragment, Fragment
      <4>3. [rest EXCEPT ![1] = rest[1]] = rest
        BY <1>6, <3>1
      <4> QED
        BY <1>2, <3>4, <3>6, <4>1, <4>2, <4>3
    <3> QED
      BY <3>5, <3>6
  <2> QED
    BY <2>1, <2>2
<1>13. CASE copy
  <2> DEFINE piece == SubSeq(Valid(rest[1]), 1, part)
             v     == Valid(rest[1])
             f     == rest[1]
             both  == ds \o moved
  <2>1. k # Len(fs) /\ part > 0 /\ rest # <<>>
    BY <1>11, <1>13
  <2>2. 1 \in 1 .. Len(fs) - k
    BY <1>5, <1>10, <2>1
  <2>3. rest[1] = fs[k + 1] /\ rest[1] \in SoundFragment
    BY <1>6, <2>1, <2>2
  <2>4. to = append(both, piece) /\ rv = n
    BY <1>2, <1>13
  <2>5. pk = Content(moved) \o piece
    BY <1>3, <2>1, <2>3
  <2>6. part < buf_length(f)
    BY <1>5, <2>1, <2>3
  <2> HIDE DEF f, part
  <2>7. v \in Seq(Bytes) /\ Len(v) = buf_length(f) /\ buf_length(f) \in Nat
    BY <2>3, ValidIs, FragmentFields DEF f
  <2> HIDE DEF v
  <2>8. piece = SubSeq(v, 1, part) /\ part \in 0 .. Len(v)
    BY <1>9, <2>6, <2>7 DEF v
  <2> HIDE DEF piece
  <2>9. piece \in Seq(Bytes) /\ Len(piece) = part
    BY <2>7, <2>8, ListCut
  <2>10. both \in Seq(SoundFragment)
    BY <1>8
  <2> HIDE DEF both
  <2>11. /\ append(both, piece) \in Seq(SoundFragment)
         /\ Total(append(both, piece)) = Total(both) + Len(piece)
         /\ Content(append(both, piece)) = Content(both) \o piece
    BY <2>9, <2>10, AppendIs
  <2>12. Len(pk) = n
    BY <1>7, <1>9, <2>5, <2>9, ConcatProperties
  <2>13. Total(to) = Total(ds) + n
    BY <1>5, <1>7, <1>8, <1>9, <2>4, <2>9, <2>11 DEF both
  <2>14. Content(to) = Content(ds) \o pk
    <3> DEFINE a == Content(ds)
               b == Content(moved)
    <3>1. a \in Seq(Bytes) /\ b \in Seq(Bytes)
      BY <1>7
    <3> HIDE DEF a, b
    <3>2. (a \o b) \o piece = a \o (b \o piece)
      BY <2>9, <3>1, ConcatAssociative, SMTT(30)
    <3>3. Content(to) = (a \o b) \o piece
      BY <1>8, <2>4, <2>11 DEF a, b, both
    <3> QED
      BY <2>5, <3>2, <3>3 DEF a, b
  <2>15. to \in Seq(SoundFragment)
    BY <2>4, <2>11
  <2> QED
    BY <1>4, <1>12, <2>4, <2>12, <2>13, <2>14, <2>15 DEF to, from, rv
<1>14. CASE ~copy
  <2>1. to = ds \o moved /\ rv = Total(moved)
    BY <1>2, <1>14
  <2>2. Content(moved) \o <<>> = Content(moved)
    BY <1>7, ConcatEmptySeq
  <2>3. pk = Content(moved)
    <3>1. CASE k = Len(fs)
      BY <1>3, <2>2, <3>1
    <3>2. CASE k # Len(fs)
      <4>1. part = 0
        BY <1>9, <1>11, <1>14, <3>2
      <4>2. SubSeq(Valid(fs[k + 1]), 1, 0) = <<>>
        BY SubSeqEmpty
      <4> HIDE DEF part
      <4> QED
        BY <1>3, <2>2, <3>2, <4>1, <4>2
    <3> QED
      BY <3>1, <3>2
  <2>4. Len(pk) = rv /\ Content(to) = Content(ds) \o pk /\ Total(to) = Total(ds) + rv
    BY <1>7, <1>8, <2>1, <2>3
  <2> QED
    BY <1>4, <1>8, <1>12, <2>1, <2>4 DEF to, from, rv
<1> QED
  BY <1>13, <1>14
-----------------------------------------------------------------------------
(* Writing to a descriptor: what is offered is the front of the buffer.    *)

LEMMA FrontBytes ==
  ASSUME NEW a \in Seq(Bytes), NEW b \in Seq(Bytes), NEW rv \in 0 .. Len(a)
  PROVE  SubSeq(a, 1, rv) = FirstOf(a \o b, rv) /\ rv <= Len(a \o b)
<1> DEFINE s == a \o b
           p == SubSeq(a, 1, rv)
           q == SubSeq(s, 1, rv)
<1>1. /\ s \in Seq(Bytes) /\ Len(s) = Len(a) + Len(b)
      /\ \A i \in 1 .. Len(a) + Len(b) : s[i] = IF i <= Len(a) THEN a[i] ELSE b[i - Len(a)]
  BY ConcatProperties
<1>2. Len(a) \in Nat /\ Len(b) \in Nat /\ rv \in Nat /\ rv <= Len(a)
  OBVIOUS
<1>3. p \in Seq(Bytes) /\ Len(p) = rv /\ \A i \in 1 .. rv : p[i] = a[i]
  BY <1>2
<1> HIDE DEF s
<1>4. q \in Seq(Bytes) /\ Len(q) = rv /\ \A i \in 1 .. rv : q[i] = s[i]
  BY <1>1, <1>2
<1> HIDE DEF p, q
<1>5. ASSUME NEW i \in 1 .. rv PROVE p[i] = q[i]
  <2>1. i \in 1 .. Len(a) + Len(b) /\ i <= Len(a)
    BY <1>2
  <2> QED
    BY <1>1, <1>3, <1>4, <2>1
<1>6. p = q
  BY <1>3, <1>4, <1>5, SeqEqual
<1>7. rv <= Len(s) /\ FirstOf(s, rv) = q
  BY <1>1, <1>2 DEF FirstOf, q
<1> QED
  BY <1>6, <1>7 DEF s, p

LEMMA FrontOfList ==
  ASSUME NEW fs \in Seq(SoundFragment), NEW m \in 0 .. Len(fs),
         NEW rv \in 0 .. Len(Content(SubSeq(fs, 1, m)))
  PROVE  /\ SubSeq(Content(SubSeq(fs, 1, m)), 1, rv) = FirstOf(Content(fs), rv)
         /\ rv <= Len(Content(fs))
<1> DEFINE a == Content(SubSeq(fs, 1, m))
           b == Content(SubSeq(fs, m + 1, Len(fs)))
<1>1. SubSeq(fs, 1, m) \in Seq(SoundFragment) /\ SubSeq(fs, m + 1, Len(fs)) \in Seq(SoundFragment)
  BY ListCut
<1>2. a \in Seq(Bytes) /\ b \in Seq(Bytes)
  BY <1>1, ListMeasured DEF Measured
<1>3. Content(fs) = a \o b
  BY FragmentsCut
<1>4. rv \in 0 .. Len(a)
  OBVIOUS
<1> HIDE DEF a, b
<1>5. SubSeq(a, 1, rv) = FirstOf(a \o b, rv) /\ rv <= Len(a \o b)
  BY <1>2, <1>4, FrontBytes
<1> QED
  BY <1>3, <1>5 DEF a

LEMMA WritevFront ==
  ASSUME NEW fs \in Seq(SoundFragment), NEW rv \in 0 .. Len(writev_iov(fs))
  PROVE  SubSeq(writev_iov(fs), 1, rv) = FirstOf(Content(fs), rv) /\ rv <= Len(Content(fs))
<1> DEFINE m == Smaller(Len(fs), MAX_FRAGMENTS_TO_WRITE)
<1>1. m \in 0 .. Len(fs)
  BY BufferAssumption DEF Smaller
<1>2. writev_iov(fs) = Content(SubSeq(fs, 1, m))
  BY DEF writev_iov
<1> HIDE DEF m
<1> QED
  BY <1>1, <1>2, FrontOfList

LEMMA WritevLenFront ==
  ASSUME NEW fs \in Seq(SoundFragment), NEW max \in Nat,
         NEW rv \in 0 .. Len(writev_len_iov(fs, max))
  PROVE  /\ SubSeq(writev_len_iov(fs, max), 1, rv) = FirstOf(Content(fs), rv)
         /\ rv <= Len(Content(fs)) /\ rv \in 0 .. max
<1> DEFINE enough == {k \in 0 .. Len(fs) : \/ Total(SubSeq(fs, 1, k)) >= max
                                           \/ k = Len(fs)
                                           \/ k = MAX_FRAGMENTS_TO_WRITE}
           m      == CHOOSE k \in enough : \A j \in enough : k <= j
           iov    == Content(SubSeq(fs, 1, m))
           l      == Smaller(Len(iov), max)
           out    == SubSeq(iov, 1, l)
<1>1. writev_len_iov(fs, max) = out
  BY DEF writev_len_iov
<1>2. m \in 0 .. Len(fs)
  <2>1. enough \in SUBSET Nat /\ Len(fs) \in enough /\ enough \subseteq 0 .. Len(fs)
    OBVIOUS
  <2> HIDE DEF enough
  <2>2. \E k \in enough : \A j \in enough : k <= j
    BY <2>1, SmallestExists
  <2> QED
    BY <2>1, <2>2
<1> HIDE DEF m
<1>3. iov \in Seq(Bytes) /\ Len(iov) \in Nat
  BY <1>2, ListCut, ListMeasured DEF Measured
<1> HIDE DEF iov
<1>4. l \in 0 .. Len(iov) /\ l <= max
  BY <1>3 DEF Smaller
<1> HIDE DEF l
<1>5. /\ out \in Seq(Bytes) /\ Len(out) = l /\ \A i \in 1 .. l : out[i] = iov[i]
  BY <1>3, <1>4
<1> HIDE DEF out
<1>6. rv \in 0 .. l /\ rv \in 0 .. Len(iov) /\ rv \in 0 .. max
  BY <1>1, <1>3, <1>4, <1>5
<1>7. SubSeq(out, 1, rv) = SubSeq(iov, 1, rv)
  <2> DEFINE p == SubSeq(out, 1, rv)
             q == SubSeq(iov, 1, rv)
  <2>1. p \in Seq(Bytes) /\ Len(p) = rv /\ \A i \in 1 .. rv : p[i] = out[i]
    BY <1>3, <1>4, <1>5, <1>6
  <2>2. q \in Seq(Bytes) /\ Len(q) = rv /\ \A i \in 1 .. rv : q[i] = iov[i]
    BY <1>3, <1>6
  <2> HIDE DEF p, q
  <2>3. ASSUME NEW i \in 1 .. rv PROVE p[i] = q[i]
    <3>1. i \in 1 .. l
      BY <1>3, <1>4, <1>6
    <3> QED
      BY <1>5, <2>1, <2>2, <3>1
  <2>4. p = q
    BY <2>1, <2>2, <2>3, SeqEqual
  <2> QED
    BY <2>4 DEF p, q
<1>8. SubSeq(iov, 1, rv) = FirstOf(Content(fs), rv) /\ rv <= Len(Content(fs))
  BY <1>2, <1>6, FrontOfList DEF iov
<1> QED
  BY <1>1, <1>6, <1>7, <1>8
-----------------------------------------------------------------------------
(* Searching.                                                              *)

Places(s, c)  == {i \in 1 .. Len(s) : s[i] = c}
PlaceOf(s, c) == SelectInSeq(s, LAMBDA x : x = c)

\* memchr: the first place of a byte, or none.
LEMMA SelectIs ==
  ASSUME NEW s \in Seq(Bytes), NEW c
  PROVE  /\ Places(s, c) = {} => PlaceOf(s, c) = 0
         /\ Places(s, c) # {} =>
              /\ PlaceOf(s, c) \in Places(s, c)
              /\ \A j \in Places(s, c) : PlaceOf(s, c) <= j
         /\ PlaceOf(s, c) \in 0 .. Len(s)
<1> DEFINE P == Places(s, c)
           r == PlaceOf(s, c)
<1>1. r = IF P # {} THEN CHOOSE x \in P : \A y \in P : x <= y ELSE 0
  BY DEF PlaceOf, SelectInSeq, Min, Places
<1>2. P \in SUBSET Nat /\ P \subseteq 1 .. Len(s) /\ Len(s) \in Nat
  BY DEF Places
<1> HIDE DEF P, r
<1>3. CASE P = {}
  BY <1>1, <1>2, <1>3 DEF P, r
<1>4. CASE P # {}
  <2>1. \E x \in P : \A y \in P : x <= y
    BY <1>2, <1>4, SmallestExists
  <2>2. r \in P /\ \A y \in P : r <= y
    BY <1>1, <1>4, <2>1
  <2>3. r \in 0 .. Len(s)
    BY <1>2, <2>2
  <2> QED
    BY <1>4, <2>2, <2>3 DEF P, r
<1> QED
  BY <1>3, <1>4

\* Where the first place is does not depend on how it was found.
LEMMA FirstPlace ==
  ASSUME NEW s \in Seq(Bytes), NEW c, NEW p \in Places(s, c), \A j \in Places(s, c) : p <= j
  PROVE  PlaceOf(s, c) = p
<1> DEFINE r == PlaceOf(s, c)
<1>1. r \in Places(s, c) /\ \A j \in Places(s, c) : r <= j
  BY SelectIs
<1>2. r \in Int /\ p \in Int
  <2> HIDE DEF r
  <2> QED
    BY <1>1 DEF Places
<1> HIDE DEF r
<1>3. r <= p /\ p <= r
  BY <1>1
<1>4. r = p
  BY <1>2, <1>3
<1> QED
  BY <1>4 DEF r

\* The first place in bytes of which the first ones do not have it.
LEMMA PlaceAfter ==
  ASSUME NEW a \in Seq(Bytes), NEW b \in Seq(Bytes), NEW c, Places(a, c) = {}
  PROVE  /\ Places(b, c) = {} => Places(a \o b, c) = {}
         /\ Places(b, c) # {} => PlaceOf(a \o b, c) =
                                   Len(a) + PlaceOf(b, c)
<1> DEFINE s == a \o b
           r == PlaceOf(b, c)
<1>1. /\ s \in Seq(Bytes) /\ Len(s) = Len(a) + Len(b)
      /\ \A i \in 1 .. Len(a) + Len(b) : s[i] = IF i <= Len(a) THEN a[i] ELSE b[i - Len(a)]
  BY ConcatProperties
<1>2. Len(a) \in Nat /\ Len(b) \in Nat
  OBVIOUS
<1> HIDE DEF s
<1>3. ASSUME NEW i \in Places(s, c) PROVE i - Len(a) \in Places(b, c) /\ i \in Nat
  <2>1. i \in 1 .. Len(a) + Len(b) /\ s[i] = c
    BY <1>1 DEF Places
  <2>2. ~(i <= Len(a))
    <3> SUFFICES ASSUME i <= Len(a) PROVE FALSE
      OBVIOUS
    <3>1. i \in 1 .. Len(a)
      BY <1>2, <2>1
    <3>2. a[i] = c
      BY <1>1, <2>1
    <3> QED
      BY <3>1, <3>2 DEF Places
  <2>3. b[i - Len(a)] = c
    BY <1>1, <2>1, <2>2
  <2>4. i - Len(a) \in 1 .. Len(b)
    BY <1>2, <2>1, <2>2
  <2> QED
    BY <2>1, <2>3, <2>4 DEF Places
<1>4. ASSUME NEW j \in Places(b, c) PROVE Len(a) + j \in Places(s, c)
  <2>1. j \in 1 .. Len(b) /\ b[j] = c
    BY DEF Places
  <2>2. /\ Len(a) + j \in 1 .. Len(a) + Len(b) /\ ~(Len(a) + j <= Len(a))
        /\ (Len(a) + j) - Len(a) = j
    BY <1>2, <2>1
  <2>3. s[Len(a) + j] = b[(Len(a) + j) - Len(a)]
    BY <1>1, <2>2
  <2>4. s[Len(a) + j] = c
    BY <2>1, <2>2, <2>3, Zenon
  <2> QED
    BY <1>1, <2>2, <2>4 DEF Places
<1>5. ASSUME Places(b, c) # {}
      PROVE  PlaceOf(s, c) = Len(a) + r
  <2>1. r \in Places(b, c) /\ \A j \in Places(b, c) : r <= j
    BY <1>5, SelectIs
  <2> HIDE DEF r
  <2>2. r \in Nat
    BY <2>1 DEF Places
  <2> DEFINE p == Len(a) + r
  <2>3. p \in Places(s, c)
    BY <1>4, <2>1
  <2>4. ASSUME NEW i \in Places(s, c) PROVE p <= i
    <3>1. i - Len(a) \in Places(b, c) /\ i \in Nat
      BY <1>3
    <3>2. r <= i - Len(a)
      BY <2>1, <3>1
    <3> QED
      BY <1>2, <2>2, <3>1, <3>2
  <2> HIDE DEF p
  <2>5. PlaceOf(s, c) = p
    BY <1>1, <2>3, <2>4, FirstPlace
  <2> QED
    BY <2>5 DEF p
<1> QED
  BY <1>3, <1>5 DEF s, r

\* More bytes at the end do not change it.
LEMMA PlaceBefore ==
  ASSUME NEW a \in Seq(Bytes), NEW b \in Seq(Bytes), NEW c, Places(a, c) # {}
  PROVE  /\ PlaceOf(a \o b, c) = PlaceOf(a, c)
         /\ Places(a \o b, c) # {}
<1> DEFINE s == a \o b
           r == PlaceOf(a, c)
<1>1. /\ s \in Seq(Bytes) /\ Len(s) = Len(a) + Len(b)
      /\ \A i \in 1 .. Len(a) + Len(b) : s[i] = IF i <= Len(a) THEN a[i] ELSE b[i - Len(a)]
  BY ConcatProperties
<1>2. Len(a) \in Nat /\ Len(b) \in Nat
  OBVIOUS
<1>3. r \in Places(a, c) /\ \A j \in Places(a, c) : r <= j
  BY SelectIs
<1> HIDE DEF s, r
<1>4. r \in 1 .. Len(a) /\ a[r] = c
  BY <1>3 DEF Places
<1>5. r \in Places(s, c)
  <2>1. r \in 1 .. Len(a) + Len(b) /\ r <= Len(a)
    BY <1>2, <1>4
  <2>2. s[r] = c
    BY <1>1, <1>4, <2>1
  <2> QED
    BY <1>1, <2>1, <2>2 DEF Places
<1>6. ASSUME NEW i \in Places(s, c) PROVE r <= i
  <2>1. i \in 1 .. Len(a) + Len(b) /\ s[i] = c
    BY <1>1 DEF Places
  <2>2. CASE i <= Len(a)
    <3>1. i \in 1 .. Len(a) /\ a[i] = c
      BY <1>1, <1>2, <2>1, <2>2
    <3> QED
      BY <1>3, <3>1 DEF Places
  <2>3. CASE ~(i <= Len(a))
    BY <1>2, <1>4, <2>1, <2>3
  <2> QED
    BY <2>2, <2>3
<1>7. PlaceOf(s, c) = r
  BY <1>1, <1>5, <1>6, FirstPlace
<1> QED
  BY <1>5, <1>7 DEF s, r

\* A byte that no fragment holds is not in the buffer.
LEMMA NowhereInList ==
  ASSUME NEW fs \in Seq(SoundFragment), NEW c,
         \A i \in 1 .. Len(fs) : Places(Valid(fs[i]), c) = {}
  PROVE  Places(Content(fs), c) = {}
<1> DEFINE Free(gs) == \A i \in 1 .. Len(gs) : Places(Valid(gs[i]), c) = {}
           Bad == {n \in Nat : \E gs \in Seq(SoundFragment) :
                                 Len(gs) = n /\ Free(gs) /\ Places(Content(gs), c) # {}}
<1>1. ASSUME NEW n \in Bad, \A y \in Bad : n <= y
      PROVE  FALSE
  <2>1. PICK gs \in Seq(SoundFragment) :
               Len(gs) = n /\ Free(gs) /\ Places(Content(gs), c) # {}
    OBVIOUS
  <2>2. n # 0
    <3>1. ASSUME n = 0 PROVE gs = <<>>
      BY <2>1, <3>1, EmptySeq
    <3>2. Places(<<>>, c) = {}
      BY DEF Places
    <3>3. ASSUME n = 0 PROVE Places(Content(gs), c) = {}
      BY <3>1, <3>2, <3>3, ContentEmpty, Zenon
    <3> QED
      BY <2>1, <3>3
  <2>3. PICK h \in Seq(SoundFragment), x \in SoundFragment :
          gs = Append(h, x) /\ Len(h) = Len(gs) - 1
    <3>1. Len(gs) # 0
      BY <2>1, <2>2, Zenon
    <3> HIDE DEF Bad, Free
    <3> QED
      BY <3>1, SplitLast, ZenonT(30)
  <2>4. n \in Nat /\ Len(h) = n - 1 /\ n - 1 \in Nat
    BY <2>1, <2>2, <2>3
  <2>5. \A i \in 1 .. Len(h) : gs[i] = h[i] /\ i \in 1 .. Len(gs)
    BY <2>3
  <2>6. gs[n] = x /\ n \in 1 .. Len(gs)
    BY <2>1, <2>2, <2>3, <2>4
  <2>7. Free(h)
    BY <2>1, <2>5
  <2>8. Places(Valid(x), c) = {}
    BY <2>1, <2>6
  <2>9. Places(Content(h), c) = {}
    <3> SUFFICES ASSUME Places(Content(h), c) # {} PROVE FALSE
      OBVIOUS
    <3>1. n - 1 \in Bad
      BY <2>4, <2>7
    <3>2. n <= n - 1
      BY <1>1, <3>1
    <3> QED
      BY <2>4, <3>2
  <2>10. Content(gs) = Content(h) \o Valid(x)
    BY <2>3, ContentAppend
  <2>11. Content(h) \in Seq(Bytes) /\ Valid(x) \in Seq(Bytes)
    BY ListMeasured, ValidIs DEF Measured
  <2> DEFINE u == Content(h)
             v == Valid(x)
  <2>12. u \in Seq(Bytes) /\ v \in Seq(Bytes) /\ Places(u, c) = {} /\ Places(v, c) = {}
    BY <2>8, <2>9, <2>11
  <2> HIDE DEF u, v
  <2>13. Places(u \o v, c) = {}
    BY <2>12, PlaceAfter
  <2> QED
    BY <2>1, <2>10, <2>13 DEF u, v
<1>2. Bad \in SUBSET Nat
  OBVIOUS
<1>3. Bad = {}
  <2> HIDE DEF Bad
  <2> QED
    BY <1>1, <1>2, SmallestExists
<1>4. Len(fs) \in Nat /\ Free(fs)
  OBVIOUS
<1> QED
  BY <1>3, <1>4

\* index_of gives the first place in the buffer, counted from 0.
LEMMA IndexIs ==
  ASSUME NEW fs \in Seq(SoundFragment), NEW c
  PROVE  /\ index_of(fs, c) = PlaceOf(Content(fs), c) - 1
         /\ index_of(fs, c) + 1 \in 0 .. Len(Content(fs))
<1> DEFINE hits == {i \in DOMAIN fs : Contains(Valid(fs[i]), c)}
           i    == CHOOSE j \in hits : \A k \in hits : j <= k
           S    == PlaceOf(Content(fs), c)
<1>1. index_of(fs, c) =
        IF hits = {} THEN -1
        ELSE Total(SubSeq(fs, 1, i - 1)) + PlaceOf(Valid(fs[i]), c) - 1
  BY DEF index_of, PlaceOf
<1>2. hits = {j \in 1 .. Len(fs) : Places(Valid(fs[j]), c) # {}}
  <2>1. \A j : Contains(Valid(fs[j]), c) <=> Places(Valid(fs[j]), c) # {}
    BY DEF Contains, Places
  <2>2. DOMAIN fs = 1 .. Len(fs)
    OBVIOUS
  <2> QED
    BY <2>1, <2>2, Zenon
<1> HIDE DEF hits
<1>3. Content(fs) \in Seq(Bytes)
  BY ListMeasured DEF Measured
<1>4. S \in 0 .. Len(Content(fs))
  <2> DEFINE s == Content(fs)
  <2>1. s \in Seq(Bytes)
    BY <1>3
  <2> HIDE DEF s
  <2>2. PlaceOf(s, c) \in 0 .. Len(s)
    BY <2>1, SelectIs
  <2> QED
    BY <2>2 DEF s
<1> SUFFICES index_of(fs, c) = S - 1
  <2> HIDE DEF S
  <2>1. Len(Content(fs)) \in Nat
    BY <1>3
  <2>2. (S - 1) + 1 = S
    BY <1>4, <2>1
  <2> QED
    BY <1>4, <2>2 DEF S
<1>5. CASE hits = {}
  <2>1. Places(Content(fs), c) = {}
    <3>1. \A j \in 1 .. Len(fs) : Places(Valid(fs[j]), c) = {}
      BY <1>2, <1>5
    <3> QED
      BY <3>1, NowhereInList
  <2>2. S = 0
    <3> DEFINE s == Content(fs)
    <3>1. s \in Seq(Bytes) /\ Places(s, c) = {}
      BY <1>3, <2>1
    <3> HIDE DEF s
    <3>2. PlaceOf(s, c) = 0
      BY <3>1, SelectIs
    <3> QED
      BY <3>2 DEF s
  <2> HIDE DEF S
  <2> QED
    BY <1>1, <1>5, <2>2
<1>6. CASE hits # {}
  <2>1. i \in hits /\ \A k \in hits : i <= k
    <3>1. hits \in SUBSET Nat
      BY <1>2
    <3>2. \E j \in hits : \A k \in hits : j <= k
      BY <1>6, <3>1, SmallestExists
    <3> QED
      BY <3>2
  <2> DEFINE front == SubSeq(fs, 1, i - 1)
             rest  == SubSeq(fs, (i - 1) + 1, Len(fs))
             more  == SubSeq(rest, 2, Len(rest))
             a     == Content(front)
             v     == Valid(fs[i])
             b     == Content(more)
  <2>2. index_of(fs, c) = Total(front) + PlaceOf(v, c) - 1
    BY <1>1, <1>6
  <2> HIDE DEF i
  <2>3. Len(fs) \in Nat /\ i \in 1 .. Len(fs) /\ Places(v, c) # {}
    BY <1>2, <2>1
  <2>4. i - 1 \in 0 .. Len(fs)
    BY <2>3
  <2>5. /\ front \in Seq(SoundFragment) /\ Len(front) = i - 1 /\ rest \in Seq(SoundFragment)
        /\ \A j \in 1 .. i - 1 : front[j] = fs[j]
        /\ Len(rest) = Len(fs) - (i - 1)
        /\ \A j \in 1 .. Len(fs) - (i - 1) : rest[j] = fs[(i - 1) + j]
    BY <2>4, ListCut
  <2>6. Content(fs) = a \o Content(rest)
    BY <2>4, FragmentsCut
  <2> HIDE DEF front, rest
  <2>7. rest[1] = fs[i] /\ Len(rest) # 0
    <3>1. 1 \in 1 .. Len(fs) - (i - 1) /\ (i - 1) + 1 = i
      BY <2>3
    <3>2. rest[1] = fs[(i - 1) + 1]
      BY <2>5, <3>1
    <3> QED
      BY <2>5, <3>1, <3>2
  <2>8. Content(rest) = v \o b /\ more \in Seq(SoundFragment)
    BY <2>5, <2>7, FirstFragment
  <2>9. /\ a \in Seq(Bytes) /\ Len(a) = Total(front) /\ b \in Seq(Bytes)
    BY <2>5, <2>8, ListMeasured DEF Measured
  <2>10. v \in Seq(Bytes)
    BY <2>3, ValidIs
  <2>11. Places(a, c) = {}
    <3>1. ASSUME NEW j \in 1 .. Len(front) PROVE Places(Valid(front[j]), c) = {}
      <4>1. j \in 1 .. i - 1 /\ j \in 1 .. Len(fs) /\ ~(i <= j)
        BY <2>3, <2>5
      <4>2. j \notin hits
        BY <2>1, <4>1
      <4>3. front[j] = fs[j]
        BY <2>5, <4>1
      <4> QED
        BY <1>2, <4>1, <4>2, <4>3
    <3> QED
      BY <2>5, <3>1, NowhereInList
  <2> HIDE DEF a, v, b
  <2>12. /\ PlaceOf(v \o b, c) = PlaceOf(v, c)
         /\ Places(v \o b, c) # {}
    BY <2>3, <2>9, <2>10, PlaceBefore
  <2> DEFINE w == v \o b
  <2>13. w \in Seq(Bytes)
    BY <2>9, <2>10, ConcatProperties
  <2>14. PlaceOf(w, c) = PlaceOf(v, c) /\ Places(w, c) # {}
    BY <2>12
  <2> HIDE DEF w
  <2>15. PlaceOf(a \o w, c) = Len(a) + PlaceOf(w, c)
    BY <2>9, <2>11, <2>13, <2>14, PlaceAfter
  <2>16. Content(fs) = a \o w
    BY <2>6, <2>8 DEF w
  <2>17. S = Len(a) + PlaceOf(v, c)
    BY <2>14, <2>15, <2>16
  <2>18. PlaceOf(v, c) \in Nat
    BY <2>10, SelectIs
  <2> HIDE DEF S
  <2>19. index_of(fs, c) = Len(a) + PlaceOf(v, c) - 1
    BY <2>2, <2>9
  <2> QED
    BY <2>9, <2>17, <2>18, <2>19
<1> QED
  BY <1>5, <1>6
-----------------------------------------------------------------------------
(* The invariant: sound fragments in every buffer, and the size they say.  *)

OpNames == {"init", "append", "read", "discard", "read_line", "parse_string0",
            "writev", "writev_len", "reset", "transfer"}

Inv ==
  /\ frags \in [Buffers -> Seq(SoundFragment)]
  /\ size = [b \in Buffers |-> Total(frags[b])]
  /\ last.op \in OpNames

\* The queue that each buffer stands for.
Contents == [b \in Buffers |-> Content(frags[b])]

LEMMA InvFacts ==
  ASSUME Inv
  PROVE  /\ \A b \in Buffers : frags[b] \in Seq(SoundFragment) /\ size[b] = Total(frags[b])
         /\ \A b \in Buffers : Contents[b] = Content(frags[b])
         /\ DOMAIN Contents = Buffers
         /\ \A b \in Buffers : Content(frags[b]) \in Seq(Bytes)
         /\ \A b \in Buffers : size[b] \in Nat /\ size[b] = Len(Content(frags[b]))
<1>1. \A b \in Buffers : frags[b] \in Seq(SoundFragment) /\ size[b] = Total(frags[b])
  BY DEF Inv
<1>2. \A b \in Buffers : Measured(frags[b])
  BY <1>1, ListMeasured
<1> QED
  BY <1>1, <1>2 DEF Measured, Contents

With(f, b, x)        == [f EXCEPT ![b] = x]
WithBoth(f, b, x, c, y) == [f EXCEPT ![b] = x, ![c] = y]

\* A step that gives two buffers, or one, new lists.
LEMMA ListsReplaced ==
  ASSUME Inv, NEW b \in Buffers, NEW c \in Buffers,
         NEW X \in Seq(SoundFragment), NEW Y \in Seq(SoundFragment),
         b = c => X = Y,
         frags' = WithBoth(frags, b, X, c, Y),
         size' = WithBoth(size, b, Total(X), c, Total(Y)),
         last'.op \in OpNames
  PROVE  Inv' /\ Contents' = WithBoth(Contents, b, Content(X), c, Content(Y))
<1>1. frags \in [Buffers -> Seq(SoundFragment)] /\ size = [d \in Buffers |-> Total(frags[d])]
  BY DEF Inv
<1>2. /\ frags' \in [Buffers -> Seq(SoundFragment)]
      /\ \A d \in Buffers : frags'[d] = IF d = c THEN Y ELSE IF d = b THEN X ELSE frags[d]
  BY <1>1 DEF WithBoth
<1>3. size' = [d \in Buffers |-> IF d = c THEN Total(Y) ELSE IF d = b THEN Total(X) ELSE size[d]]
  BY <1>1 DEF WithBoth
<1>4. \A d \in Buffers : (IF d = c THEN Total(Y) ELSE IF d = b THEN Total(X) ELSE size[d])
                         = Total(frags'[d])
  BY <1>1, <1>2
<1>5. size' = [d \in Buffers |-> Total(frags'[d])]
  BY <1>3, <1>4
<1>6. Contents' = [d \in Buffers |-> Content(frags'[d])]
  BY DEF Contents
<1>7. \A d \in Buffers : Content(frags'[d]) =
        IF d = c THEN Content(Y) ELSE IF d = b THEN Content(X) ELSE Contents[d]
  BY <1>2 DEF Contents
<1>8. WithBoth(Contents, b, Content(X), c, Content(Y)) =
        [d \in Buffers |-> IF d = c THEN Content(Y) ELSE IF d = b THEN Content(X) ELSE Contents[d]]
  BY DEF Contents, WithBoth
<1>9. Contents' = WithBoth(Contents, b, Content(X), c, Content(Y))
  BY <1>6, <1>7, <1>8
<1> QED
  BY <1>2, <1>5, <1>9 DEF Inv

LEMMA ListReplaced ==
  ASSUME Inv, NEW b \in Buffers, NEW X \in Seq(SoundFragment),
         frags' = With(frags, b, X),
         size' = With(size, b, Total(X)),
         last'.op \in OpNames
  PROVE  Inv' /\ Contents' = With(Contents, b, Content(X))
<1>1. frags \in [Buffers -> Seq(SoundFragment)] /\ size = [d \in Buffers |-> Total(frags[d])]
  BY DEF Inv
<1>2. /\ frags' = WithBoth(frags, b, X, b, X)
      /\ size' = WithBoth(size, b, Total(X), b, Total(X))
      /\ With(Contents, b, Content(X)) = WithBoth(Contents, b, Content(X), b, Content(X))
  BY <1>1 DEF Contents, With, WithBoth
<1> QED
  BY <1>2, ListsReplaced
-----------------------------------------------------------------------------
(* What the operations do to the queues.                                   *)

LEMMA OpName ==
  ASSUME NEW op \in OpNames, NEW b, NEW arg, NEW out
  PROVE  Op(op, b, arg, out).op \in OpNames
BY DEF Op

LEMMA AppendStep ==
  ASSUME Inv, NEW b \in Buffers, NEW data \in Seq(Bytes), AppendData(b, data)
  PROVE  Inv' /\ Contents' = With(Contents, b, Contents[b] \o data)
<1> DEFINE X == append(frags[b], data)
<1>1. /\ frags[b] \in Seq(SoundFragment) /\ size[b] = Total(frags[b])
      /\ Contents[b] = Content(frags[b])
  BY InvFacts
<1>2. /\ X \in Seq(SoundFragment) /\ Total(X) = Total(frags[b]) + Len(data)
      /\ Content(X) = Content(frags[b]) \o data
  BY <1>1, AppendIs
<1>3. frags' = With(frags, b, X)
  BY DEF AppendData, With
<1>4. size' = With(size, b, size[b] + Len(data))
  BY DEF AppendData, With
<1>5. last'.op \in OpNames
  <2>1. last' = Op("append", b, data, <<>>)
    BY DEF AppendData
  <2> QED
    BY <2>1, OpName DEF OpNames
<1> HIDE DEF X
<1>6. Inv' /\ Contents' = With(Contents, b, Content(X))
  BY <1>1, <1>2, <1>3, <1>4, <1>5, ListReplaced
<1> QED
  BY <1>1, <1>2, <1>6

LEMMA RemoveStep ==
  ASSUME Inv, NEW b \in Buffers, NEW n \in Nat, NEW op \in OpNames, NEW arg, NEW out,
         RemoveBytes(op, b, arg, n, out)
  PROVE  Inv' /\ Contents' = With(Contents, b, After(Contents[b], n))
<1> DEFINE X == discard(frags[b], n)
           k == Len(peek(frags[b], n))
<1>1. /\ frags[b] \in Seq(SoundFragment) /\ size[b] = Total(frags[b])
      /\ Contents[b] = Content(frags[b])
  BY InvFacts
<1>2. /\ X \in Seq(SoundFragment) /\ Total(X) = Total(frags[b]) - k
      /\ Content(X) = After(Content(frags[b]), n)
  BY <1>1, PeekDiscard
<1>3. frags' = With(frags, b, X)
  BY DEF RemoveBytes, With
<1>4. size' = With(size, b, size[b] - k)
  BY DEF RemoveBytes, With
<1>5. last'.op \in OpNames
  BY OpName DEF RemoveBytes
<1> HIDE DEF X, k
<1>6. Inv' /\ Contents' = With(Contents, b, Content(X))
  BY <1>1, <1>2, <1>3, <1>4, <1>5, ListReplaced
<1> QED
  BY <1>1, <1>2, <1>6

LEMMA ResetStep ==
  ASSUME Inv, NEW b \in Buffers, Reset(b)
  PROVE  Inv' /\ Contents' = With(Contents, b, <<>>)
<1>1. <<>> \in Seq(SoundFragment)
  OBVIOUS
<1>2. frags' = With(frags, b, <<>>) /\ size' = With(size, b, 0)
  BY DEF Reset, With
<1>3. size' = With(size, b, Total(<<>>))
  BY <1>2, TotalEmpty, Zenon
<1>4. last'.op \in OpNames
  <2>1. last' = Op("reset", b, <<>>, <<>>)
    BY DEF Reset
  <2> QED
    BY <2>1, OpName DEF OpNames
<1> DEFINE X == <<>>
<1>5. X \in Seq(SoundFragment) /\ frags' = With(frags, b, X) /\ size' = With(size, b, Total(X))
  BY <1>1, <1>2, <1>3, Zenon
<1>6. Content(X) = <<>>
  BY ContentEmpty
<1> HIDE DEF X
<1>7. Inv' /\ Contents' = With(Contents, b, Content(X))
  BY <1>4, <1>5, ListReplaced
<1> QED
  BY <1>6, <1>7, Zenon

LEMMA DrainStep ==
  ASSUME Inv, NEW dst \in Buffers, NEW src \in Buffers \ {dst}, Drain(dst, src)
  PROVE  /\ Inv'
         /\ Contents' = WithBoth(Contents, dst, Contents[dst] \o Contents[src], src, <<>>)
<1> DEFINE d == frags[dst]
           f == frags[src]
           X == d \o f
           Y == <<>>
<1>1. /\ d \in Seq(SoundFragment) /\ size[dst] = Total(d) /\ Contents[dst] = Content(d)
      /\ f \in Seq(SoundFragment) /\ size[src] = Total(f) /\ Contents[src] = Content(f)
  BY InvFacts
<1>2. frags' = WithBoth(frags, dst, X, src, <<>>)
  BY DEF Drain, WithBoth
<1>3. size' = WithBoth(size, dst, size[dst] + size[src], src, 0)
  BY DEF Drain, WithBoth
<1>4. last'.op \in OpNames
  <2>1. last' = Op("transfer", dst, <<size[src]>>, <<>>)
    BY DEF Drain
  <2> QED
    BY <2>1, OpName DEF OpNames
<1> HIDE DEF d, f
<1>5. X \in Seq(SoundFragment) /\ Total(X) = Total(d) + Total(f) /\ Content(X) = Content(d) \o Content(f)
  <2>1. Joined(d, f)
    BY <1>1, ListsJoined
  <2> QED
    BY <1>1, <2>1, ConcatProperties DEF Joined
<1>6. Y \in Seq(SoundFragment) /\ Content(Y) = <<>>
  BY ContentEmpty
<1> HIDE DEF X
<1>7. frags' = WithBoth(frags, dst, X, src, Y) /\ size' = WithBoth(size, dst, Total(X), src, Total(Y))
  BY <1>1, <1>2, <1>3, <1>5, TotalEmpty, Zenon
<1> HIDE DEF Y
<1>8. Inv' /\ Contents' = WithBoth(Contents, dst, Content(X), src, Content(Y))
  <2>1. src \in Buffers /\ dst # src
    OBVIOUS
  <2> QED
    BY <1>4, <1>5, <1>6, <1>7, <2>1, ListsReplaced
<1> QED
  BY <1>1, <1>5, <1>6, <1>8, Zenon

LEMMA TransferStep ==
  ASSUME Inv, NEW dst \in Buffers, NEW src \in Buffers \ {dst}, NEW n \in Nat,
         Transfer(dst, src, n)
  PROVE  /\ Inv'
         /\ Contents' = WithBoth(Contents, dst, Contents[dst] \o FirstOf(Contents[src], n),
                                           src, After(Contents[src], n))
<1> DEFINE d == frags[dst]
           f == frags[src]
           X == Receiver(d, f, n)
           Y == Sender(f, n)
           rv == Carried(f, n)
<1>1. /\ d \in Seq(SoundFragment) /\ size[dst] = Total(d) /\ Contents[dst] = Content(d)
      /\ f \in Seq(SoundFragment) /\ size[src] = Total(f) /\ Contents[src] = Content(f)
  BY InvFacts
<1>2. frags' = [frags EXCEPT ![dst] = Receiver(@, f, n), ![src] = Sender(f, n)]
  BY DEF Transfer, Receiver, Sender, Copied
<1>3. size' = WithBoth(size, dst, size[dst] + rv, src, size[src] - rv)
  <2>1. dst # src
    OBVIOUS
  <2> QED
    BY <2>1 DEF Transfer, Carried, Copied, WithBoth
<1>4. last'.op \in OpNames
  <2>1. last' = Op("transfer", dst, <<n>>, <<>>)
    BY DEF Transfer
  <2> QED
    BY <2>1, OpName DEF OpNames
<1>5. frags' = WithBoth(frags, dst, X, src, Y)
  BY <1>2 DEF WithBoth
<1>6. /\ X \in Seq(SoundFragment) /\ Y \in Seq(SoundFragment)
      /\ Total(X) = Total(d) + rv /\ Total(Y) = Total(f) - rv
      /\ Content(X) = Content(d) \o FirstOf(Content(f), n)
      /\ Content(Y) = After(Content(f), n)
  <2> HIDE DEF d, f
  <2>1. d \in Seq(SoundFragment) /\ f \in Seq(SoundFragment)
    BY <1>1
  <2> QED
    BY <2>1, TransferIs, ZenonT(30)
<1> HIDE DEF d, f, X, Y, rv
<1>7. size' = WithBoth(size, dst, Total(X), src, Total(Y))
  BY <1>1, <1>3, <1>6
<1>8. Inv' /\ Contents' = WithBoth(Contents, dst, Content(X), src, Content(Y))
  <2>1. src \in Buffers /\ dst # src
    OBVIOUS
  <2> QED
    BY <1>4, <1>5, <1>6, <1>7, <2>1, ListsReplaced
<1> QED
  BY <1>1, <1>6, <1>8
-----------------------------------------------------------------------------
(* Each operation is one of the byte queue's.                              *)

LEMMA PutRefined ==
  ASSUME Inv, NEW b \in Buffers, NEW data \in Seq(Bytes), AppendData(b, data)
  PROVE  Queue!Put(b, data)
<1>1. Contents' = With(Contents, b, Contents[b] \o data)
  BY AppendStep
<1>2. last' = Op("append", b, data, <<>>)
  BY DEF AppendData
<1> QED
  BY <1>1, <1>2 DEF Queue!Put, Queue!Op, Op, Contents, With

\* Bytes handed out by an operation that removes as many.
LEMMA TakeRefined ==
  ASSUME Inv, NEW b \in Buffers, NEW n \in Nat, NEW op \in OpNames, NEW arg, NEW out,
         RemoveBytes(op, b, arg, n, out), out = FirstOf(Content(frags[b]), n)
  PROVE  Queue!Take(op, b, arg, n)
<1>1. Contents' = With(Contents, b, After(Contents[b], n))
  BY RemoveStep
<1>2. last' = Op(op, b, arg, out) /\ out = FirstOf(Contents[b], n)
  BY InvFacts DEF RemoveBytes
<1> QED
  BY <1>1, <1>2 DEF Queue!Take, Queue!Op, Queue!First, Queue!After, Op, FirstOf, After, Contents, With

LEMMA ResetRefined ==
  ASSUME Inv, NEW b \in Buffers, Reset(b)
  PROVE  Queue!Reset(b)
<1>1. Contents' = With(Contents, b, <<>>)
  BY ResetStep
<1>2. last' = Op("reset", b, <<>>, <<>>)
  BY DEF Reset
<1> QED
  BY <1>1, <1>2 DEF Queue!Reset, Queue!Op, Op, Contents, With

LEMMA TransferRefined ==
  ASSUME Inv, NEW dst \in Buffers, NEW src \in Buffers \ {dst}, NEW n \in Nat,
         Transfer(dst, src, n)
  PROVE  Queue!Transfer(dst, src, n)
<1>1. Contents' = WithBoth(Contents, dst, Contents[dst] \o FirstOf(Contents[src], n),
                                     src, After(Contents[src], n))
  BY TransferStep
<1>2. last' = Op("transfer", dst, <<n>>, <<>>)
  BY DEF Transfer
<1> QED
  BY <1>1, <1>2 DEF Queue!Transfer, Queue!Op, Queue!First, Queue!After, Op, FirstOf, After,
                    Contents, WithBoth

LEMMA DrainRefined ==
  ASSUME Inv, NEW dst \in Buffers, NEW src \in Buffers \ {dst}, Drain(dst, src)
  PROVE  Queue!Transfer(dst, src, Len(Contents[src]))
<1> DEFINE s == Contents[src]
           n == Len(s)
<1>1. Contents' = WithBoth(Contents, dst, Contents[dst] \o s, src, <<>>)
  BY DrainStep
<1>2. s \in Seq(Bytes) /\ size[src] = n
  BY InvFacts
<1>3. last' = Op("transfer", dst, <<n>>, <<>>)
  BY <1>2 DEF Drain
<1> HIDE DEF s
<1>4. FirstOf(s, n) = s /\ After(s, n) = <<>>
  <2>1. SubSeq(s, 1, Len(s)) = s
    BY <1>2, SubSeqFull
  <2>2. SubSeq(s, Len(s) + 1, Len(s)) = <<>>
    BY <1>2, SubSeqEmpty
  <2> QED
    BY <1>2, <2>1, <2>2 DEF FirstOf, After
<1> HIDE DEF n
<1>5. Contents' = WithBoth(Contents, dst, Contents[dst] \o FirstOf(s, n), src, After(s, n))
  BY <1>1, <1>4, Zenon
<1> SUFFICES Queue!Transfer(dst, src, n)
  BY DEF n, s
<1>6. Contents' = WithBoth(Contents, dst, Contents[dst] \o FirstOf(Contents[src], n),
                                     src, After(Contents[src], n))
  BY <1>5 DEF s
<1> QED
  BY <1>3, <1>6 DEF Queue!Transfer, Queue!Op, Queue!First, Queue!After, Op, FirstOf, After,
                    Contents, WithBoth

LEMMA ReadLineRefined ==
  ASSUME Inv, NEW b \in Buffers, ReadLine(b)
  PROVE  Queue!ReadLine(b) /\ Inv'
<1> DEFINE f == frags[b]
           s == Content(f)
           n == index_of(f, Newline)
           out == SubSeq(peek(f, n + 1), 1, n)
<1>1. f \in Seq(SoundFragment) /\ s \in Seq(Bytes) /\ Contents[b] = s
  BY InvFacts
<1>2. n = PlaceOf(s, Newline) - 1 /\ n + 1 \in 0 .. Len(s)
  BY <1>1, IndexIs
<1>3. n >= 0 /\ RemoveBytes("read_line", b, <<>>, n + 1, out)
  BY DEF ReadLine
<1>4. peek(f, n + 1) = FirstOf(s, n + 1)
  <2>1. n + 1 \in Nat
    BY <1>2
  <2> QED
    BY <1>1, <2>1, PeekDiscard
<1>5. last' = Op("read_line", b, <<>>, out)
  BY <1>3 DEF RemoveBytes
<1>6. Inv' /\ Contents' = With(Contents, b, After(Contents[b], n + 1))
  <2>1. n + 1 \in Nat /\ "read_line" \in OpNames
    BY <1>2 DEF OpNames
  <2> HIDE DEF n, out
  <2> QED
    BY <1>3, <2>1, RemoveStep
<1> HIDE DEF f, n, out
<1>7. out = FirstOf(s, n)
  <2>1. n \in Nat /\ n + 1 <= Len(s) /\ Len(s) \in Nat
    <3> HIDE DEF s
    <3>1. PlaceOf(s, Newline) \in Nat
      BY <1>1, SelectIs
    <3> QED
      BY <1>1, <1>2, <1>3, <3>1
  <2> HIDE DEF s
  <2> DEFINE p == SubSeq(s, 1, n + 1)
             q == SubSeq(p, 1, n)
             r == SubSeq(s, 1, n)
  <2>2. FirstOf(s, n + 1) = p /\ FirstOf(s, n) = r
    BY <2>1 DEF FirstOf
  <2>3. p \in Seq(Bytes) /\ Len(p) = n + 1 /\ \A i \in 1 .. n + 1 : p[i] = s[i]
    BY <1>1, <2>1
  <2>4. r \in Seq(Bytes) /\ Len(r) = n /\ \A i \in 1 .. n : r[i] = s[i]
    BY <1>1, <2>1
  <2>5. out = q
    BY <1>4, <2>2 DEF out
  <2> HIDE DEF p, r
  <2>6. q \in Seq(Bytes) /\ Len(q) = n /\ \A i \in 1 .. n : q[i] = p[i]
    BY <2>1, <2>3
  <2> HIDE DEF q
  <2>7. ASSUME NEW i \in 1 .. n PROVE q[i] = r[i]
    <3>1. i \in 1 .. n + 1
      BY <2>1
    <3> QED
      BY <2>3, <2>4, <2>6, <3>1
  <2>8. q = r
    BY <2>4, <2>6, <2>7, SeqEqual
  <2> QED
    BY <2>2, <2>5, <2>8
<1> DEFINE m == Queue!IndexOf(Contents[b], Newline)
<1>8. m = n
  <2>1. m = PlaceOf(Contents[b], Newline) - 1
    BY DEF Queue!IndexOf, Queue!SelectInSeq, Queue!Min, PlaceOf, SelectInSeq, Min
  <2> QED
    BY <1>1, <1>2, <2>1
<1>9. last' = Op("read_line", b, <<>>, FirstOf(Contents[b], m))
  BY <1>1, <1>5, <1>7, <1>8
<1>10. m >= 0 /\ Contents' = With(Contents, b, After(Contents[b], m + 1))
  BY <1>3, <1>6, <1>8
<1>11. Queue!ReadLine(b)
  BY <1>9, <1>10 DEF Queue!ReadLine, Queue!Op, Queue!First, Queue!After, Op, FirstOf, After,
                     Contents, With, m
<1> QED
  BY <1>6, <1>11

LEMMA ParseString0Refined ==
  ASSUME Inv, NEW b \in Buffers, ParseString0(b)
  PROVE  Queue!ParseString0(b) /\ Inv'
<1> DEFINE f == frags[b]
           s == Content(f)
           n == index_of(f, Nul)
           out == peek(f, n + 1)
<1>1. f \in Seq(SoundFragment) /\ s \in Seq(Bytes) /\ Contents[b] = s
  BY InvFacts
<1>2. n = PlaceOf(s, Nul) - 1 /\ n + 1 \in 0 .. Len(s)
  BY <1>1, IndexIs
<1>3. n >= 0 /\ RemoveBytes("parse_string0", b, <<>>, n + 1, out)
  BY DEF ParseString0
<1>4. n + 1 \in Nat /\ "parse_string0" \in OpNames
  BY <1>2 DEF OpNames
<1>5. out = FirstOf(s, n + 1)
  BY <1>1, <1>4, PeekDiscard
<1> HIDE DEF n, out
<1>6. Inv'
  BY <1>3, <1>4, RemoveStep
<1>7. Queue!Take("parse_string0", b, <<>>, n + 1)
  BY <1>3, <1>4, <1>5, TakeRefined
<1>8. Queue!IndexOf(Contents[b], Nul) = n
  <2>1. Queue!IndexOf(Contents[b], Nul) = PlaceOf(Contents[b], Nul) - 1
    BY DEF Queue!IndexOf, Queue!SelectInSeq, Queue!Min, PlaceOf, SelectInSeq, Min
  <2> QED
    BY <1>1, <1>2, <2>1
<1>9. Queue!ParseString0(b)
  BY <1>3, <1>7, <1>8 DEF Queue!ParseString0, Contents
<1> QED
  BY <1>6, <1>9

LEMMA WritevRefined ==
  ASSUME Inv, NEW b \in Buffers, Writev(b)
  PROVE  Queue!Write("writev", b, <<>>, Len(Contents[b])) /\ Inv'
<1> DEFINE f == frags[b]
           iov == writev_iov(f)
<1>1. f \in Seq(SoundFragment) /\ Contents[b] = Content(f) /\ Content(f) \in Seq(Bytes)
  BY InvFacts
<1>2. PICK rv \in 0 .. Len(iov) : RemoveBytes("writev", b, <<>>, rv, SubSeq(iov, 1, rv))
  BY DEF Writev
<1>3. SubSeq(iov, 1, rv) = FirstOf(Content(f), rv) /\ rv <= Len(Content(f))
  BY <1>1, WritevFront
<1>4. rv \in Nat /\ "writev" \in OpNames
  BY DEF OpNames
<1> DEFINE out == SubSeq(iov, 1, rv)
<1>5. RemoveBytes("writev", b, <<>>, rv, out) /\ out = FirstOf(Content(frags[b]), rv)
  BY <1>2, <1>3
<1> HIDE DEF out, f
<1>6. Inv' /\ Queue!Take("writev", b, <<>>, rv)
  BY <1>4, <1>5, RemoveStep, TakeRefined
<1>7. rv \in 0 .. Len(Contents[b]) /\ rv <= Len(Contents[b])
  BY <1>1, <1>3, <1>4
<1> QED
  BY <1>6, <1>7 DEF Queue!Write, Contents

LEMMA WritevLenRefined ==
  ASSUME Inv, NEW b \in Buffers, NEW n \in Nat, WritevLen(b, n)
  PROVE  Queue!Write("writev_len", b, <<n>>, n) /\ Inv'
<1> DEFINE f == frags[b]
           iov == writev_len_iov(f, n)
<1>1. f \in Seq(SoundFragment) /\ Contents[b] = Content(f) /\ Content(f) \in Seq(Bytes)
  BY InvFacts
<1>2. PICK rv \in 0 .. Len(iov) : RemoveBytes("writev_len", b, <<n>>, rv, SubSeq(iov, 1, rv))
  BY DEF WritevLen
<1>3. SubSeq(iov, 1, rv) = FirstOf(Content(f), rv) /\ rv <= Len(Content(f)) /\ rv \in 0 .. n
  BY <1>1, WritevLenFront
<1>4. rv \in Nat /\ "writev_len" \in OpNames
  BY DEF OpNames
<1> DEFINE out == SubSeq(iov, 1, rv)
<1>5. RemoveBytes("writev_len", b, <<n>>, rv, out) /\ out = FirstOf(Content(frags[b]), rv)
  BY <1>2, <1>3
<1> HIDE DEF out, f
<1>6. Inv' /\ Queue!Take("writev_len", b, <<n>>, rv)
  BY <1>4, <1>5, RemoveStep, TakeRefined
<1>7. rv <= Len(Contents[b])
  BY <1>1, <1>3
<1> QED
  BY <1>3, <1>6, <1>7 DEF Queue!Write, Contents
-----------------------------------------------------------------------------
(* The inputs are bytes, no more than the bound.                           *)

LEMMA InputBytes ==
  ASSUME NEW S, NEW n \in Int, NEW s
  PROVE  s \in BoundedSeq(S, n) <=> s \in Seq(S) /\ Len(s) <= n
<1>1. s \in BoundedSeq(S, n) <=> \E m \in 0 .. n : s \in [1 .. m -> S]
  BY DEF BoundedSeq, SeqOf
<1>2. ASSUME NEW m \in 0 .. n, s \in [1 .. m -> S] PROVE s \in Seq(S) /\ Len(s) <= n
  BY <1>2
<1>3. ASSUME s \in Seq(S), Len(s) <= n PROVE Len(s) \in 0 .. n /\ s \in [1 .. Len(s) -> S]
  BY <1>3
<1> QED
  BY <1>1, <1>2, <1>3

LEMMA QueueInputs ==
  ASSUME NEW s \in Seq(Bytes), Len(s) <= MaxLength
  PROVE  s \in Queue!Strings
<1>1. s \in BoundedSeq(Bytes, MaxLength)
  BY InputBytes, BufferAssumption
<1> QED
  BY <1>1 DEF Queue!Strings, Queue!BoundedSeq, Queue!SeqOf, BoundedSeq, SeqOf

\* What the queue may do with a buffer.
PutsSome(b) == \E data \in Queue!Strings : Queue!Put(b, data)

LEMMA InputsRefined ==
  ASSUME Inv, NEW b \in Buffers,
         \/ \E data \in BoundedSeq(Bytes, MaxLength) : AppendData(b, data) \/ ReadInFd(b, data)
         \/ \E string \in BoundedSeq(Bytes \ {Nul}, MaxLength - 1) : AppendString(b, string)
         \/ \E c \in Bytes, count \in 1 .. MaxLength : AppendRepeatedChar(b, c, count)
  PROVE  PutsSome(b) /\ Inv'
<1>1. ASSUME NEW data \in Seq(Bytes), Len(data) <= MaxLength, AppendData(b, data)
      PROVE  PutsSome(b) /\ Inv'
  <2>1. data \in Queue!Strings
    BY <1>1, QueueInputs
  <2>2. Queue!Put(b, data) /\ Inv'
    BY <1>1, PutRefined, AppendStep
  <2> QED
    BY <2>1, <2>2 DEF PutsSome
<1>2. MaxLength \in Int /\ MaxLength - 1 \in Int
  BY BufferAssumption
<1>3. ASSUME NEW data \in BoundedSeq(Bytes, MaxLength), AppendData(b, data) \/ ReadInFd(b, data)
      PROVE  PutsSome(b) /\ Inv'
  <2>1. data \in Seq(Bytes) /\ Len(data) <= MaxLength
    BY <1>2, InputBytes
  <2>2. AppendData(b, data)
    BY <1>3 DEF ReadInFd
  <2> QED
    BY <1>1, <2>1, <2>2
<1>4. ASSUME NEW string \in BoundedSeq(Bytes \ {Nul}, MaxLength - 1), AppendString(b, string)
      PROVE  PutsSome(b) /\ Inv'
  <2>1. string \in Seq(Bytes \ {Nul}) /\ Len(string) <= MaxLength - 1
    BY <1>2, InputBytes
  <2>2. string \in Seq(Bytes)
    BY <2>1
  <2> DEFINE t == Append(string, Nul)
  <2>3. t \in Seq(Bytes) /\ Len(t) = Len(string) + 1 /\ Len(string) \in Nat
    BY <2>2, BufferAssumption
  <2>4. AppendData(b, string) \/ AppendData(b, t)
    BY <1>4 DEF AppendString
  <2> HIDE DEF t
  <2>5. Len(string) <= MaxLength /\ Len(t) <= MaxLength
    BY <1>2, <2>1, <2>3
  <2>6. CASE AppendData(b, string)
    BY <1>1, <2>2, <2>5, <2>6
  <2>7. CASE AppendData(b, t)
    BY <1>1, <2>3, <2>5, <2>7
  <2> QED
    BY <2>4, <2>6, <2>7
<1>5. ASSUME NEW c \in Bytes, NEW count \in 1 .. MaxLength, AppendRepeatedChar(b, c, count)
      PROVE  PutsSome(b) /\ Inv'
  <2> DEFINE t == [i \in 1 .. count |-> c]
  <2>1. t \in Seq(Bytes) /\ Len(t) = count
    <3>1. count \in Nat
      BY <1>2
    <3> QED
      BY <3>1
  <2>2. AppendData(b, t)
    BY <1>5 DEF AppendRepeatedChar
  <2> HIDE DEF t
  <2>3. Len(t) <= MaxLength
    BY <1>2, <2>1
  <2> QED
    BY <1>1, <2>1, <2>2, <2>3
<1> QED
  BY <1>3, <1>4, <1>5

\* Read, discard and writev_len with a length.
LEMMA LengthsRefined ==
  ASSUME Inv, NEW b \in Buffers, NEW n \in 1 .. MaxLength,
         Read(b, n) \/ Discard(b, n) \/ WritevLen(b, n)
  PROVE  /\ \/ Queue!Take("read", b, <<n>>, n)
            \/ Queue!Take("discard", b, <<n>>, n)
            \/ Queue!Write("writev_len", b, <<n>>, n)
         /\ Inv'
<1>1. n \in Nat
  BY BufferAssumption
<1> DEFINE out == peek(frags[b], n)
<1>2. out = FirstOf(Content(frags[b]), n)
  BY <1>1, InvFacts, PeekDiscard
<1>3. ASSUME NEW op \in OpNames, RemoveBytes(op, b, <<n>>, n, out)
      PROVE  Queue!Take(op, b, <<n>>, n) /\ Inv'
  <2> HIDE DEF out
  <2>1. Inv'
    BY <1>1, <1>3, RemoveStep
  <2>2. Queue!Take(op, b, <<n>>, n)
    BY <1>1, <1>2, <1>3, TakeRefined
  <2> QED
    BY <2>1, <2>2
<1>4. "read" \in OpNames /\ "discard" \in OpNames
  BY DEF OpNames
<1>5. CASE Read(b, n)
  <2>1. RemoveBytes("read", b, <<n>>, n, out)
    BY <1>5 DEF Read
  <2> HIDE DEF out
  <2> QED
    BY <1>3, <1>4, <2>1
<1>6. CASE Discard(b, n)
  <2>1. RemoveBytes("discard", b, <<n>>, n, out)
    BY <1>6 DEF Discard
  <2> HIDE DEF out
  <2> QED
    BY <1>3, <1>4, <2>1
<1>7. CASE WritevLen(b, n)
  BY <1>1, <1>7, WritevLenRefined
<1> QED
  BY <1>5, <1>6, <1>7

LEMMA MovesRefined ==
  ASSUME Inv, NEW b \in Buffers, NEW src \in Buffers \ {b},
         Drain(b, src) \/ \E n \in 0 .. MaxLength : Transfer(b, src, n)
  PROVE  /\ \/ \E n \in 0 .. MaxLength : Queue!Transfer(b, src, n)
            \/ Queue!Transfer(b, src, Len(Contents[src]))
         /\ Inv'
<1>1. CASE Drain(b, src)
  BY <1>1, DrainStep, DrainRefined
<1>2. ASSUME NEW n \in 0 .. MaxLength, Transfer(b, src, n)
      PROVE  Queue!Transfer(b, src, n) /\ Inv'
  <2>1. n \in Nat
    BY BufferAssumption
  <2> QED
    BY <1>2, <2>1, TransferStep, TransferRefined
<1> QED
  BY <1>1, <1>2

LEMMA StepRefined ==
  ASSUME Inv, Next
  PROVE  Queue!QueueNext /\ Inv'
<1>1. PICK b \in Buffers :
        \/ \E data \in BoundedSeq(Bytes, MaxLength) : AppendData(b, data) \/ ReadInFd(b, data)
        \/ \E string \in BoundedSeq(Bytes \ {Nul}, MaxLength - 1) : AppendString(b, string)
        \/ \E c \in Bytes, count \in 1 .. MaxLength : AppendRepeatedChar(b, c, count)
        \/ \E n \in 1 .. MaxLength : Read(b, n) \/ Discard(b, n) \/ WritevLen(b, n)
        \/ ReadLine(b) \/ ParseString0(b) \/ Writev(b) \/ Reset(b)
        \/ \E src \in Buffers \ {b} :
             Drain(b, src) \/ \E n \in 0 .. MaxLength : Transfer(b, src, n)
  BY DEF Next
<1>2. CASE \/ \E data \in BoundedSeq(Bytes, MaxLength) : AppendData(b, data) \/ ReadInFd(b, data)
           \/ \E string \in BoundedSeq(Bytes \ {Nul}, MaxLength - 1) : AppendString(b, string)
           \/ \E c \in Bytes, count \in 1 .. MaxLength : AppendRepeatedChar(b, c, count)
  <2>1. PutsSome(b) /\ Inv'
    BY <1>2, InputsRefined
  <2> QED
    BY <2>1 DEF PutsSome, Queue!QueueNext
<1>3. CASE \E n \in 1 .. MaxLength : Read(b, n) \/ Discard(b, n) \/ WritevLen(b, n)
  <2>1. PICK n \in 1 .. MaxLength : Read(b, n) \/ Discard(b, n) \/ WritevLen(b, n)
    BY <1>3
  <2>2. /\ \/ Queue!Take("read", b, <<n>>, n)
           \/ Queue!Take("discard", b, <<n>>, n)
           \/ Queue!Write("writev_len", b, <<n>>, n)
        /\ Inv'
    BY <2>1, LengthsRefined
  <2>3. n \in Queue!Lengths
    BY DEF Queue!Lengths
  <2> QED
    BY <2>2, <2>3 DEF Queue!QueueNext
<1>4. CASE ReadLine(b)
  BY <1>4, ReadLineRefined DEF Queue!QueueNext
<1>5. CASE ParseString0(b)
  BY <1>5, ParseString0Refined DEF Queue!QueueNext
<1>6. CASE Writev(b)
  <2>1. Queue!Write("writev", b, <<>>, Len(Contents[b])) /\ Inv'
    BY <1>6, WritevRefined
  <2> QED
    BY <2>1 DEF Queue!QueueNext, Contents
<1>7. CASE Reset(b)
  <2>1. Queue!Reset(b) /\ Inv'
    BY <1>7, ResetStep, ResetRefined
  <2> QED
    BY <2>1 DEF Queue!QueueNext
<1>8. CASE \E src \in Buffers \ {b} : Drain(b, src) \/ \E n \in 0 .. MaxLength : Transfer(b, src, n)
  <2>1. PICK src \in Buffers \ {b} :
               Drain(b, src) \/ \E n \in 0 .. MaxLength : Transfer(b, src, n)
    BY <1>8
  <2>2. /\ \/ \E n \in 0 .. MaxLength : Queue!Transfer(b, src, n)
           \/ Queue!Transfer(b, src, Len(Contents[src]))
        /\ Inv'
    BY <2>1, MovesRefined
  <2> QED
    BY <2>2 DEF Queue!QueueNext, Contents
<1> QED
  BY <1>1, <1>2, <1>3, <1>4, <1>5, <1>6, <1>7, <1>8

LEMMA InitRefined ==
  ASSUME Init
  PROVE  Inv /\ Queue!QueueInit
<1>1. \A b \in Buffers : frags[b] = <<>>
  BY DEF Init
<1>2. frags \in [Buffers -> Seq(SoundFragment)]
  BY DEF Init
<1>3. \A b \in Buffers : Total(frags[b]) = 0 /\ Content(frags[b]) = <<>>
  BY <1>1, TotalEmpty, ContentEmpty, Zenon
<1>4. size = [b \in Buffers |-> Total(frags[b])]
  BY <1>3 DEF Init
<1>5. last.op \in OpNames /\ last = [op |-> "init"]
  BY DEF Init, OpNames
<1>6. [b \in Buffers |-> Content(frags[b])] = [b \in Buffers |-> <<>>]
  BY <1>3, Zenon
<1> QED
  BY <1>2, <1>4, <1>5, <1>6 DEF Inv, Queue!QueueInit

LEMMA StutterRefined ==
  ASSUME Inv, UNCHANGED vars
  PROVE  Inv' /\ UNCHANGED Queue!queueVars
BY DEF Inv, vars, Queue!queueVars

LEMMA InvSound ==
  ASSUME Inv
  PROVE  BuffersSound
<1>1. \A b \in Buffers : frags[b] \in Seq(SoundFragment) /\ size[b] \in Nat /\ size[b] = Total(frags[b])
  BY InvFacts
<1>2. SoundFragment \subseteq Fragment
  BY DEF SoundFragment
<1>3. frags \in [Buffers -> Seq(Fragment)]
  <2>1. Seq(SoundFragment) \subseteq Seq(Fragment)
    BY <1>2
  <2> QED
    BY <2>1 DEF Inv
<1>4. TypeOK
  BY <1>1, <1>3 DEF TypeOK, Inv, OpNames
<1>5. SizeExact
  BY <1>1 DEF SizeExact
<1>6. FragmentsSound
  <2>1. ASSUME NEW b \in Buffers, NEW i \in DOMAIN frags[b]
        PROVE  frags[b][i] \in SoundFragment
    <3>1. frags[b] \in Seq(SoundFragment)
      BY <1>1
    <3> QED
      BY <3>1
  <2>2. \A f \in SoundFragment : f.buf_start < Len(f.mem) /\ Len(f.mem) <= FRAGMENT_DATA_SIZE
    BY DEF SoundFragment
  <2> QED
    BY <2>1, <2>2 DEF FragmentsSound
<1> QED
  BY <1>4, <1>5, <1>6 DEF BuffersSound

\* In every reachable state, whatever the fragment size and however many buffers
\* exchange fragments: no fragment is empty or overfull, and the size member
\* that the RPC code relies on is the number of valid bytes.
THEOREM FragmentsAlwaysSound == Spec => []BuffersSound
<1>1. Init => Inv
  BY InitRefined
<1>2. Inv /\ [Next]_vars => Inv'
  BY StepRefined, StutterRefined
<1>3. Inv => BuffersSound
  BY InvSound
<1> QED
  BY <1>1, <1>2, <1>3, PTL DEF Spec

\* The fragment list implements the byte queue: bytes leave every buffer in the
\* order they came, none lost or repeated, as many as each operation was asked for.
THEOREM FragmentsAreByteQueues == Spec => IsByteQueue
<1>1. Init => Inv /\ Queue!QueueInit
  BY InitRefined
<1>2. Inv /\ [Next]_vars => Inv' /\ [Queue!QueueNext]_Queue!queueVars
  BY StepRefined, StutterRefined
<1> QED
  BY <1>1, <1>2, PTL DEF Spec, IsByteQueue, Queue!QueueSpec
-----------------------------------------------------------------------------
(* The search for a string, first in a buffer not read in part.            *)

\* No fragment has been read in part.
Unread(fs) == \A i \in DOMAIN fs : fs[i].buf_start = 0

\* One frame of the search sees the buffer from a position on.
LEMMA WindowIs ==
  ASSUME NEW fs \in Seq(SoundFragment), Unread(fs), NEW j \in 1 .. Len(fs),
         NEW i \in 1 .. buf_length(fs[j])
  PROVE  /\ SearchWindow(fs, j, i) = After(Content(fs), Total(SubSeq(fs, 1, j - 1)) + i - 1)
         /\ Total(SubSeq(fs, 1, j - 1)) + i - 1 \in 0 .. Len(Content(fs)) - 1
<1> DEFINE k     == j - 1
           front == SubSeq(fs, 1, k)
           rest  == SubSeq(fs, k + 1, Len(fs))
           more  == SubSeq(rest, 2, Len(rest))
           tail  == SubSeq(fs, j + 1, Len(fs))
           f     == fs[j]
           a     == Content(front)
           v     == Valid(f)
           c     == Content(more)
           left  == i - 1
<1>1. Len(fs) \in Nat /\ j \in Nat /\ k \in 0 .. Len(fs) /\ k + 1 = j /\ j \in 0 .. Len(fs)
  OBVIOUS
<1>2. /\ front \in Seq(SoundFragment)
      /\ rest \in Seq(SoundFragment) /\ Len(rest) = Len(fs) - k
      /\ \A l \in 1 .. Len(fs) - k : rest[l] = fs[k + l]
  BY <1>1, ListCut
<1>3. Content(fs) = a \o Content(rest)
  BY <1>1, FragmentsCut
<1>4. /\ tail \in Seq(SoundFragment) /\ Len(tail) = Len(fs) - j
      /\ \A l \in 1 .. Len(fs) - j : tail[l] = fs[j + l]
  BY <1>1, ListCut
<1>5. f \in SoundFragment /\ f.buf_start = 0
  BY <1>1 DEF Unread
<1>6. /\ f.mem \in Seq(Bytes) /\ buf_length(f) = Len(f.mem) /\ Len(f.mem) \in Nat
  BY <1>5, FragmentFields DEF buf_length
<1>7. v = f.mem
  <2>1. v = SubSeq(f.mem, 0 + 1, Len(f.mem))
    BY <1>5, Zenon DEF Valid
  <2>2. SubSeq(f.mem, 0 + 1, Len(f.mem)) = f.mem
    BY <1>6, SubSeqFull
  <2> QED
    BY <2>1, <2>2
<1>8. SearchWindow(fs, j, i) = SubSeq(v, i, Len(v)) \o Content(tail)
  BY <1>6, <1>7 DEF SearchWindow
<1>9. i \in Nat /\ left \in 0 .. Len(v) /\ left < Len(v) /\ left + 1 = i
  BY <1>6, <1>7
<1> HIDE DEF front, rest, tail, k, f
<1>10. rest[1] = f /\ Len(rest) # 0
  <2>1. 1 \in 1 .. Len(fs) - k
    BY <1>1
  <2>2. rest[1] = fs[k + 1]
    BY <1>2, <2>1
  <2>3. rest[1] = f
    BY <1>1, <2>2, Zenon DEF f
  <2>4. Len(fs) - k # 0
    BY <1>1, <2>1
  <2> QED
    BY <1>2, <2>3, <2>4, Zenon
<1>11. Content(rest) = v \o c /\ more \in Seq(SoundFragment)
  BY <1>2, <1>10, FirstFragment
<1>12. more = tail
  <2>1. Len(rest) = Len(tail) + 1 /\ Len(tail) \in Nat /\ Len(tail) = Len(fs) - j
    <3>1. Len(fs) - k = (Len(fs) - j) + 1 /\ Len(fs) - j \in Nat
      BY <1>1
    <3> QED
      BY <1>2, <1>4, <3>1, Zenon
  <2>2. 1 \in 0 .. Len(rest)
    BY <2>1
  <2>3. /\ Len(SubSeq(rest, 1 + 1, Len(rest))) = Len(rest) - 1
        /\ \A l \in 1 .. Len(rest) - 1 : SubSeq(rest, 1 + 1, Len(rest))[l] = rest[1 + l]
    BY <1>2, <2>2, ListCut
  <2>4. Len(more) = Len(tail) /\ \A l \in 1 .. Len(tail) : more[l] = rest[1 + l]
    BY <2>1, <2>3
  <2> HIDE DEF more
  <2>5. ASSUME NEW l \in 1 .. Len(tail) PROVE more[l] = tail[l]
    <3>1. 1 + l \in 1 .. Len(fs) - k /\ k + (1 + l) = j + l /\ l \in 1 .. Len(fs) - j
      BY <1>1, <2>1
    <3>2. rest[1 + l] = fs[k + (1 + l)]
      BY <1>2, <3>1
    <3>3. tail[l] = fs[j + l]
      BY <1>4, <3>1
    <3>4. more[l] = rest[1 + l]
      BY <2>4
    <3> QED
      BY <3>1, <3>2, <3>3, <3>4, Zenon
  <2> QED
    BY <1>4, <1>11, <2>4, <2>5, SeqEqual
<1>13. /\ a \in Seq(Bytes) /\ Len(a) = Total(front) /\ Len(a) \in Nat
       /\ c \in Seq(Bytes) /\ Len(c) \in Nat /\ v \in Seq(Bytes) /\ Len(v) \in Nat
  <2>1. Measured(front) /\ Measured(more) /\ v \in Seq(Bytes)
    BY <1>2, <1>5, <1>11, ListMeasured, ValidIs
  <2>2. a \in Seq(Bytes) /\ Len(a) = Total(front) /\ c \in Seq(Bytes)
    BY <2>1 DEF Measured
  <2> HIDE DEF a, v, c
  <2> QED
    BY <2>1, <2>2
<1> HIDE DEF a, v, c, more, left
<1>14. /\ After(a \o (v \o c), Len(a) + left) = After(v, left) \o c
       /\ Len(a \o (v \o c)) = Len(a) + Len(v) + Len(c)
  BY <1>9, <1>13, CutBytes, ZenonT(30)
<1>15. SearchWindow(fs, j, i) = After(v, left) \o c
  <2>1. c = Content(tail)
    BY <1>12 DEF c
  <2>2. After(v, left) = SubSeq(v, i, Len(v))
    BY <1>9 DEF After
  <2> QED
    BY <1>8, <2>1, <2>2, Zenon
<1>16. Total(front) + i - 1 = Len(a) + left
  <2>1. Len(a) + i - 1 = Len(a) + left
    BY <1>9, <1>13 DEF left
  <2> QED
    BY <1>13, <2>1, Zenon
<1>17. Content(fs) = a \o (v \o c)
  BY <1>3, <1>11
<1>18. Len(a) + left \in 0 .. (Len(a) + Len(v) + Len(c)) - 1
  BY <1>9, <1>13
<1>19. SearchWindow(fs, j, i) = After(Content(fs), Len(a) + left)
  BY <1>14, <1>15, <1>17
<1>20. Len(a) + left \in 0 .. Len(Content(fs)) - 1
  BY <1>14, <1>17, <1>18
<1> QED
  BY <1>16, <1>19, <1>20 DEF front, k

\* Every position lies in some fragment.
LEMMA PositionIs ==
  ASSUME NEW fs \in Seq(SoundFragment), NEW h \in 0 .. Len(Content(fs)) - 1
  PROVE  \E j \in 1 .. Len(fs) : \E i \in 1 .. buf_length(fs[j]) :
           h = Total(SubSeq(fs, 1, j - 1)) + i - 1
<1> DEFINE k == WholeFragments(fs, h)
<1>1. Len(Content(fs)) = Total(fs) /\ Total(fs) \in Nat /\ Len(fs) \in Nat
  BY ListMeasured DEF Measured
<1>2. h \in Nat /\ h < Total(fs)
  BY <1>1
<1>3. /\ k \in 0 .. Len(fs) /\ Total(SubSeq(fs, 1, k)) \in Nat /\ Total(SubSeq(fs, 1, k)) <= h
      /\ k = Len(fs) \/ h - Total(SubSeq(fs, 1, k)) < buf_length(fs[k + 1])
  BY <1>2, WholeIs
<1> HIDE DEF k
<1>4. k # Len(fs)
  <2> SUFFICES ASSUME k = Len(fs) PROVE FALSE
    OBVIOUS
  <2>1. SubSeq(fs, 1, Len(fs)) = fs
    BY SubSeqFull
  <2>2. Total(fs) <= h
    BY <1>3, <2>1
  <2> QED
    BY <1>1, <1>2, <2>2
<1> DEFINE j == k + 1
           t == Total(SubSeq(fs, 1, k))
           i == h - t + 1
<1>5. j \in 1 .. Len(fs) /\ j - 1 = k
  BY <1>1, <1>3, <1>4
<1>6. buf_length(fs[j]) \in Nat
  BY <1>5, FragmentFields
<1>7. h - t < buf_length(fs[j])
  BY <1>3, <1>4
<1>8. t \in Nat /\ t <= h
  BY <1>3
<1>9. Total(SubSeq(fs, 1, j - 1)) = t
  BY <1>5
<1> HIDE DEF j, t
<1>10. i \in 1 .. buf_length(fs[j]) /\ h = t + i - 1
  BY <1>2, <1>6, <1>7, <1>8
<1> QED
  BY <1>5, <1>9, <1>10

\* str_index_of: the places it finds are the occurrences of the chars.
LEMMA SearchIs ==
  ASSUME NEW fs \in Seq(SoundFragment), Unread(fs), NEW str
  PROVE  str_index_of(fs, str) = IndexIn(Content(fs), Chars(str))
<1> DEFINE x        == Chars(str)
           At(j, i) == Total(SubSeq(fs, 1, j - 1)) + i - 1
           hits == UNION {{At(j, i) : i \in {i \in 1 .. buf_length(fs[j]) :
                             IsPrefix(x, SearchWindow(fs, j, i))}} : j \in DOMAIN fs}
           s    == Content(fs)
           occ  == Occurrences(s, x)
<1>1. str_index_of(fs, str) =
        IF hits = {} THEN -1 ELSE CHOOSE h \in hits : \A g \in hits : h <= g
  BY DEF str_index_of
<1>2. DOMAIN fs = 1 .. Len(fs)
  OBVIOUS
<1>3. \A h : h \in hits <=> \E j \in 1 .. Len(fs) : \E i \in 1 .. buf_length(fs[j]) :
                              IsPrefix(x, SearchWindow(fs, j, i)) /\ h = At(j, i)
  BY <1>2
<1>4. \A h : h \in occ <=> h \in 0 .. Len(s) - 1 /\ IsPrefix(x, After(s, h))
  BY DEF Occurrences, After
<1> HIDE DEF hits, occ, s, x
<1>5. ASSUME NEW j \in 1 .. Len(fs), NEW i \in 1 .. buf_length(fs[j])
      PROVE  At(j, i) \in 0 .. Len(s) - 1 /\ SearchWindow(fs, j, i) = After(s, At(j, i))
  BY WindowIs DEF s
<1>6. ASSUME NEW h \in 0 .. Len(s) - 1
      PROVE  \E j \in 1 .. Len(fs) : \E i \in 1 .. buf_length(fs[j]) : h = At(j, i)
  BY PositionIs DEF s
<1> HIDE DEF At
<1>7. ASSUME NEW h \in hits PROVE h \in occ
  <2>1. PICK j \in 1 .. Len(fs) : \E i \in 1 .. buf_length(fs[j]) :
               IsPrefix(x, SearchWindow(fs, j, i)) /\ h = At(j, i)
    BY <1>3
  <2>2. PICK i \in 1 .. buf_length(fs[j]) : IsPrefix(x, SearchWindow(fs, j, i)) /\ h = At(j, i)
    BY <2>1
  <2>3. h \in 0 .. Len(s) - 1 /\ SearchWindow(fs, j, i) = After(s, h)
    BY <1>5, <2>2
  <2>4. IsPrefix(x, After(s, h))
    BY <2>2, <2>3, Zenon
  <2> QED
    BY <1>4, <2>3, <2>4
<1>8. ASSUME NEW h \in occ PROVE h \in hits
  <2>1. h \in 0 .. Len(s) - 1 /\ IsPrefix(x, After(s, h))
    BY <1>4
  <2>2. PICK j \in 1 .. Len(fs) : \E i \in 1 .. buf_length(fs[j]) : h = At(j, i)
    BY <1>6, <2>1
  <2>3. PICK i \in 1 .. buf_length(fs[j]) : h = At(j, i)
    BY <2>2
  <2>4. SearchWindow(fs, j, i) = After(s, h)
    BY <1>5, <2>3
  <2>5. IsPrefix(x, SearchWindow(fs, j, i))
    BY <2>1, <2>4, Zenon
  <2> QED
    BY <1>3, <2>3, <2>5
<1>9. hits = occ
  BY <1>7, <1>8
<1> QED
  BY <1>1, <1>9 DEF IndexIn, occ, s, x

\* A char that is not negative is the byte it is made of, another one is no byte.
LEMMA CharsOf ==
  ASSUME NEW str \in Seq(Bytes)
  PROVE  /\ Plain(str) => Chars(str) = str
         /\ ~Plain(str) => \E k \in 1 .. Len(str) : Chars(str)[k] \notin Bytes
         /\ Chars(str) \in Seq(Int) /\ Len(Chars(str)) = Len(str)
<1>1. \A c \in Bytes : /\ as_char(c) \in Int
                       /\ c <= CHAR_MAX => as_char(c) = c
                       /\ ~(c <= CHAR_MAX) => as_char(c) \notin Bytes
  <2> SUFFICES ASSUME NEW c \in Bytes
               PROVE  /\ as_char(c) \in Int
                      /\ c <= CHAR_MAX => as_char(c) = c
                      /\ ~(c <= CHAR_MAX) => as_char(c) \notin Bytes
    OBVIOUS
  <2>1. /\ c \in Nat /\ UCHAR_MAX \in Nat /\ CHAR_MAX \in Nat /\ c <= UCHAR_MAX
        /\ \A b \in Bytes : b >= 0
    BY BufferAssumption
  <2>2. c - (UCHAR_MAX + 1) < 0 /\ c - (UCHAR_MAX + 1) \in Int
    BY <2>1
  <2>3. c - (UCHAR_MAX + 1) \notin Bytes
    BY <2>1, <2>2
  <2> QED
    BY <2>1, <2>2, <2>3 DEF as_char
<1>2. Len(str) \in Nat /\ DOMAIN str = 1 .. Len(str) /\ \A k \in 1 .. Len(str) : str[k] \in Bytes
  BY LenProperties, ElementOfSeq
<1> DEFINE n == Len(str)
<1> HIDE DEF n
<1>3. Chars(str) = [k \in 1 .. n |-> as_char(str[k])]
  BY <1>2 DEF Chars, n
<1>4. n \in Nat /\ \A k \in 1 .. n : as_char(str[k]) \in Int
  BY <1>1, <1>2 DEF n
<1>5. Chars(str) \in Seq(Int) /\ Len(Chars(str)) = n
  <2>1. Chars(str) \in [1 .. n -> Int]
    BY <1>3, <1>4
  <2> QED
    BY <1>4, <2>1
<1>6. ASSUME Plain(str) PROVE Chars(str) = str
  <2>1. \A k \in 1 .. n : Chars(str)[k] = str[k]
    BY <1>1, <1>2, <1>3, <1>6 DEF Plain, n
  <2>2. str \in Seq(Int)
    <3>1. \A b \in Bytes : b \in Int
      BY BufferAssumption
    <3> QED
      BY <3>1
  <2> QED
    BY <1>5, <2>1, <2>2, SeqEqual DEF n
<1>7. ASSUME ~Plain(str) PROVE \E k \in 1 .. n : Chars(str)[k] \notin Bytes
  BY <1>1, <1>2, <1>3, <1>7 DEF Plain, n
<1> QED
  BY <1>5, <1>6, <1>7 DEF n

\* What is no byte occurs nowhere in bytes.
LEMMA NoSuchChar ==
  ASSUME NEW s \in Seq(Bytes), NEW x \in Seq(Int), NEW k \in 1 .. Len(x), x[k] \notin Bytes
  PROVE  IndexIn(s, x) = -1
<1> DEFINE n == Len(x)
<1>1. n \in Nat /\ Len(s) \in Nat /\ k \in 1 .. n
  BY LenProperties
<1>2. ASSUME NEW h \in 0 .. Len(s) - 1, IsPrefix(x, SubSeq(s, h + 1, Len(s)))
      PROVE  FALSE
  <2> DEFINE w == SubSeq(s, h + 1, Len(s))
  <2>1. w \in Seq(Bytes) /\ Len(w) \in Nat
    BY <1>1, <1>2
  <2> HIDE DEF w
  <2>2. n <= Len(w) /\ SubSeq(x, 1, n) = SubSeq(w, 1, n)
    BY <1>2 DEF IsPrefix, w, n
  <2>3. SubSeq(x, 1, n)[k] = x[k]
    BY <1>1 DEF n
  <2>4. SubSeq(w, 1, n)[k] = w[k] /\ w[k] \in Bytes
    BY <1>1, <2>1, <2>2
  <2> QED
    BY <2>2, <2>3, <2>4
<1>3. Occurrences(s, x) = {}
  BY <1>2 DEF Occurrences
<1> QED
  BY <1>3 DEF IndexIn

\* The total is the sum of what the fragments have left, whatever they hold.
LEMMA SameTotal ==
  ASSUME NEW f \in Seq(SoundFragment), NEW g \in Seq(SoundFragment), Len(f) = Len(g),
         \A k \in 1 .. Len(f) : buf_length(f[k]) = buf_length(g[k])
  PROVE  Total(f) = Total(g)
<1> DEFINE n == Len(f)
<1>1. n \in Nat /\ n = Len(g)
  OBVIOUS
<1>2. TotalStep(f) = TotalStep(g)
  BY DEF TotalStep
<1>3. PICK t : Solves(t, n, 0, TotalStep(f)) /\ Total(f) = t[n]
  BY TotalSolves
<1>4. PICK u : Solves(u, n, 0, TotalStep(g)) /\ Total(g) = u[n]
  BY <1>1, TotalSolves
<1> HIDE DEF n
<1>5. Solves(u, n, 0, TotalStep(f))
  BY <1>2, <1>4
<1>6. t[n] = u[n]
  <2>1. n \in Nat
    BY <1>1
  <2>2. Solves(t, n, 0, TotalStep(f))
    BY <1>3
  <2> QED
    BY <2>1, <2>2, <1>5, RecursionUnique
<1> QED
  BY <1>3, <1>4, <1>6

\* What the search sees is a list of fragments of which none has been read.
LEMMA SeenIs ==
  ASSUME NEW fs \in Seq(SoundFragment), ReadInFirst(fs)
  PROVE  /\ Seen(fs) \in Seq(SoundFragment) /\ Unread(Seen(fs)) /\ Len(Seen(fs)) = Len(fs)
         /\ \A i \in 1 .. Len(fs) :
              /\ Seen(fs)[i].mem = SubSeq(fs[i].mem, 1, buf_length(fs[i]))
              /\ buf_length(Seen(fs)[i]) = buf_length(fs[i])
              /\ i > 1 => Seen(fs)[i] = fs[i]
<1> DEFINE n == Len(fs)
           g == Seen(fs)
<1>1. n \in Nat /\ DOMAIN fs = 1 .. n /\ \A i \in 1 .. n : fs[i] \in SoundFragment
  OBVIOUS
<1> HIDE DEF n
<1>2. g = [i \in 1 .. n |-> [mem |-> SubSeq(fs[i].mem, 1, buf_length(fs[i])), buf_start |-> 0]]
  BY <1>1 DEF Seen, NewFragment
<1> HIDE DEF g
<1>3. ASSUME NEW i \in 1 .. n
      PROVE  /\ g[i] = [mem |-> SubSeq(fs[i].mem, 1, buf_length(fs[i])), buf_start |-> 0]
             /\ g[i] \in SoundFragment /\ buf_length(g[i]) = buf_length(fs[i])
             /\ i > 1 => g[i] = fs[i]
  <2> DEFINE f == fs[i]
             l == buf_length(f)
             m == SubSeq(f.mem, 1, l)
  <2>1. g[i] = [mem |-> m, buf_start |-> 0]
    BY <1>2
  <2>2. f \in SoundFragment
    BY <1>1
  <2>3. /\ f.mem \in Seq(Bytes) /\ f.buf_start \in Nat /\ Len(f.mem) \in Nat
        /\ Len(f.mem) <= FRAGMENT_DATA_SIZE /\ l = Len(f.mem) - f.buf_start /\ l \in Nat /\ l > 0
    BY <2>2, FragmentFields
  <2>4. FRAGMENT_DATA_SIZE \in Nat /\ l \in 0 .. Len(f.mem)
    BY <2>3, BufferAssumption
  <2> HIDE DEF l
  <2>5. m \in Seq(Bytes) /\ Len(m) = l
    BY <2>3, <2>4, ListCut
  <2> HIDE DEF m
  <2>6. g[i] \in SoundFragment /\ buf_length(g[i]) = l
    BY <2>1, <2>3, <2>4, <2>5 DEF SoundFragment, Fragment, buf_length
  <2>7. ASSUME i > 1 PROVE g[i] = f
    <3>1. f.buf_start = 0
      BY <1>1, <2>7 DEF ReadInFirst
    <3>2. l = Len(f.mem)
      BY <2>3, <3>1
    <3>3. m = f.mem
      BY <2>3, <3>2, SubSeqFull DEF m
    <3>4. f = [mem |-> f.mem, buf_start |-> f.buf_start]
      BY <2>2 DEF SoundFragment, Fragment
    <3> QED
      BY <2>1, <3>1, <3>3, <3>4
  <2> QED
    BY <2>1, <2>6, <2>7 DEF l, m
<1>4. g \in Seq(SoundFragment) /\ Len(g) = n /\ DOMAIN g = 1 .. n
  <2>1. g \in [1 .. n -> SoundFragment]
    BY <1>2, <1>3
  <2> QED
    BY <1>1, <2>1
<1>5. Unread(g)
  BY <1>3, <1>4 DEF Unread
<1> QED
  BY <1>3, <1>4, <1>5 DEF g, n

\* The search does not tell the buffer from what it sees.
LEMMA SearchSeen ==
  ASSUME NEW fs \in Seq(SoundFragment), ReadInFirst(fs), NEW str
  PROVE  str_index_of(fs, str) = str_index_of(Seen(fs), str)
<1> DEFINE g == Seen(fs)
           x == Chars(str)
           n == Len(fs)
           AtOf(s, j, i) == Total(SubSeq(s, 1, j - 1)) + i - 1
           In(s) == UNION {{AtOf(s, j, i) : i \in {i \in 1 .. buf_length(s[j]) :
                             IsPrefix(x, SearchWindow(s, j, i))}} : j \in DOMAIN s}
<1>1. /\ g \in Seq(SoundFragment) /\ Len(g) = n
      /\ \A i \in 1 .. n :
            /\ g[i].mem = SubSeq(fs[i].mem, 1, buf_length(fs[i]))
            /\ buf_length(g[i]) = buf_length(fs[i])
            /\ i > 1 => g[i] = fs[i]
  BY SeenIs
<1> HIDE DEF g
<1>2. n \in Nat /\ DOMAIN fs = 1 .. n /\ DOMAIN g = 1 .. n
  BY <1>1
<1>3. ASSUME NEW j \in 1 .. n
      PROVE  Total(SubSeq(g, 1, j - 1)) = Total(SubSeq(fs, 1, j - 1))
  <2> DEFINE a == SubSeq(fs, 1, j - 1)
             b == SubSeq(g, 1, j - 1)
  <2>1. j - 1 \in 0 .. Len(fs) /\ j - 1 \in 0 .. Len(g)
    BY <1>1, <1>2
  <2>2. /\ a \in Seq(SoundFragment) /\ Len(a) = j - 1 /\ \A i \in 1 .. j - 1 : a[i] = fs[i]
        /\ b \in Seq(SoundFragment) /\ Len(b) = j - 1 /\ \A i \in 1 .. j - 1 : b[i] = g[i]
    BY <1>1, <2>1, ListCut
  <2> HIDE DEF a, b
  <2>3. \A i \in 1 .. Len(a) : buf_length(a[i]) = buf_length(b[i])
    BY <1>1, <1>2, <2>2
  <2>4. Total(a) = Total(b)
    BY <2>2, <2>3, SameTotal
  <2> QED
    BY <2>4 DEF a, b
<1>4. ASSUME NEW j \in 1 .. n
      PROVE  SubSeq(g, j + 1, Len(g)) = SubSeq(fs, j + 1, Len(fs))
  <2> DEFINE a == SubSeq(fs, j + 1, Len(fs))
             b == SubSeq(g, j + 1, Len(g))
  <2>1. j \in 0 .. Len(fs) /\ j \in 0 .. Len(g) /\ j \in Nat
    BY <1>1, <1>2
  <2>2. /\ a \in Seq(SoundFragment) /\ Len(a) = n - j /\ \A i \in 1 .. n - j : a[i] = fs[j + i]
        /\ b \in Seq(SoundFragment) /\ Len(b) = n - j /\ \A i \in 1 .. n - j : b[i] = g[j + i]
    BY <1>1, <2>1, ListCut
  <2> HIDE DEF a, b
  <2>3. ASSUME NEW i \in 1 .. n - j PROVE b[i] = a[i]
    <3>1. j + i \in 1 .. n /\ j + i > 1
      BY <1>2, <2>1
    <3> QED
      BY <1>1, <2>2, <3>1
  <2>4. b = a
    BY <1>2, <2>2, <2>3, SeqEqual
  <2> QED
    BY <2>4 DEF a, b
<1>5. ASSUME NEW j \in 1 .. n, NEW i \in 1 .. buf_length(fs[j])
      PROVE  SearchWindow(g, j, i) = SearchWindow(fs, j, i)
  <2> DEFINE m == fs[j].mem
             l == buf_length(fs[j])
  <2>1. fs[j] \in SoundFragment
    BY <1>2
  <2>2. m \in Seq(Bytes) /\ Len(m) \in Nat /\ l \in Nat /\ l <= Len(m)
    BY <2>1, FragmentFields
  <2>3. g[j].mem = SubSeq(m, 1, l) /\ buf_length(g[j]) = l
    BY <1>1
  <2>4. i \in 1 .. l
    OBVIOUS
  <2> HIDE DEF m, l
  <2>5. SubSeq(SubSeq(m, 1, l), i, l) = SubSeq(m, i, l)
    <3> DEFINE c == SubSeq(m, 1, l)
    <3>1. l \in 0 .. Len(m) /\ i \in Nat
      BY <2>2, <2>4
    <3>2. c \in Seq(Bytes) /\ Len(c) = l /\ \A k \in 1 .. l : c[k] = m[k]
      BY <2>2, <3>1, ListCut
    <3> HIDE DEF c
    <3>3. \A k \in i .. l : c[k] \in Bytes /\ m[k] \in Bytes
      BY <2>2, <2>4, <3>2
    <3>4. SubSeq(c, i, l) = [k \in 1 .. l - i + 1 |-> c[i + k - 1]]
      BY <2>2, <2>4, <3>2
    <3>5. SubSeq(m, i, l) = [k \in 1 .. l - i + 1 |-> m[i + k - 1]]
      BY <2>2, <2>4
    <3>6. ASSUME NEW k \in 1 .. l - i + 1 PROVE c[i + k - 1] = m[i + k - 1]
      BY <2>2, <2>4, <3>1, <3>2
    <3> QED
      BY <3>4, <3>5, <3>6 DEF c
  <2>6. SubSeq(g[j].mem, i, buf_length(g[j])) = SubSeq(fs[j].mem, i, buf_length(fs[j]))
    BY <2>3, <2>5, Zenon DEF m, l
  <2>7. SubSeq(g, j + 1, Len(g)) = SubSeq(fs, j + 1, Len(fs))
    BY <1>4
  <2> QED
    BY <2>6, <2>7, Zenon DEF SearchWindow
<1>6. In(g) = In(fs)
  <2> DEFINE Found(s, j) == {AtOf(s, j, i) : i \in {i \in 1 .. buf_length(s[j]) :
                               IsPrefix(x, SearchWindow(s, j, i))}}
  <2>1. ASSUME NEW j \in 1 .. n PROVE Found(g, j) = Found(fs, j)
    <3>1. 1 .. buf_length(g[j]) = 1 .. buf_length(fs[j])
      BY <1>1
    <3>2. \A i : AtOf(g, j, i) = AtOf(fs, j, i)
      BY <1>3
    <3> HIDE DEF AtOf
    <3> QED
      BY <1>5, <3>1, <3>2
  <2> HIDE DEF Found
  <2>2. UNION {Found(g, j) : j \in 1 .. n} = UNION {Found(fs, j) : j \in 1 .. n}
    BY <2>1
  <2> QED
    BY <1>2, <2>2, Zenon DEF Found
<1>7. \A s : str_index_of(s, str) =
               IF In(s) = {} THEN -1 ELSE CHOOSE h \in In(s) : \A k \in In(s) : h <= k
  BY DEF str_index_of
<1> HIDE DEF In
<1>8. str_index_of(g, str) = str_index_of(fs, str)
  BY <1>6, <1>7, Zenon
<1> QED
  BY <1>8 DEF g

\* str_index_of gives the first place where a string of chars that are not negative
\* occurs in what it sees of the buffer, which is the buffer if none of it has been
\* read in part, however the string lies across fragments, and never finds another
\* string.
THEOREM SearchFindsFirst == Spec => []StringFound
<1>1. Init => Inv
  BY InitRefined
<1>2. Inv /\ [Next]_vars => Inv'
  BY StepRefined, StutterRefined
<1>3. Inv => StringFound
  <2> SUFFICES ASSUME Inv, NEW b \in Buffers, NEW str \in Strings, ReadInFirst(frags[b])
               PROVE  str_index_of(frags[b], str) =
                        IF Plain(str) THEN IndexIn(Content(Seen(frags[b])), str) ELSE -1
    BY DEF StringFound
  <2> DEFINE fs == frags[b]
             f  == Seen(fs)
             s  == Content(f)
             x  == Chars(str)
  <2>1. fs \in Seq(SoundFragment) /\ ReadInFirst(fs)
    BY InvFacts
  <2> HIDE DEF fs
  <2>2. f \in Seq(SoundFragment) /\ Unread(f) /\ str_index_of(fs, str) = str_index_of(f, str)
    BY <2>1, SeenIs, SearchSeen
  <2> HIDE DEF f
  <2>3. s \in Seq(Bytes)
    BY <2>2, ListMeasured DEF Measured
  <2>4. str \in Seq(Bytes)
    <3>1. \E n \in 0 .. 3 : str \in [1 .. n -> Bytes \ {Nul}]
      BY DEF Strings, BoundedSeq, SeqOf
    <3>2. PICK n \in 0 .. 3 : str \in [1 .. n -> Bytes \ {Nul}]
      BY <3>1
    <3>3. n \in Nat /\ str \in [1 .. n -> Bytes]
      BY <3>2
    <3> QED
      BY <3>3
  <2>5. str_index_of(fs, str) = IndexIn(s, x)
    BY <2>2, SearchIs
  <2>6. /\ Plain(str) => x = str
        /\ ~Plain(str) => \E k \in 1 .. Len(x) : x[k] \notin Bytes
        /\ x \in Seq(Int)
    BY <2>4, CharsOf
  <2> HIDE DEF s, x
  <2>7. CASE Plain(str)
    BY <2>5, <2>6, <2>7 DEF fs, f, s
  <2>8. CASE ~Plain(str)
    <3>1. IndexIn(s, x) = -1
      BY <2>3, <2>6, <2>8, NoSuchChar
    <3> QED
      BY <2>5, <2>8, <3>1 DEF fs, f, s
  <2> QED
    BY <2>7, <2>8
<1> QED
  BY <1>1, <1>2, <1>3, PTL DEF Spec
=============================================================================
