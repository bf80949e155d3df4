--------------------------- MODULE RecursionLemmas --------------------------
(***************************************************************************)
(* Facts about recursive functions over 0 .. n, by the smallest number for *)
(* which they fail, about FlattenSeq, which is one, and about lists that   *)
(* hold nothing twice.                                                     *)
(***************************************************************************)
EXTENDS Integers, Sequences, SequencesExt, TLAPS, SequenceTheorems, FiniteSetTheorems,
        WellFoundedInduction

-----------------------------------------------------------------------------
(* Recursion over 0 .. n.                                                  *)

\* A set of numbers has a smallest one.
LEMMA SmallestExists ==
  ASSUME NEW S \in SUBSET Nat, S # {}
  PROVE  \E x \in S : \A y \in S : x <= y
<1>1. IsWellFoundedOn(OpToRel(<, Nat), Nat)
  BY NatLessThanWellFounded
<1>2. PICK x \in S : \A y \in S : ~(<<y, x>> \in OpToRel(<, Nat))
  BY <1>1, WFMin
<1>3. \A y \in S : ~(y < x)
  BY <1>2 DEF OpToRel
<1> QED
  BY <1>3

\* t is computed from base, step by step, up to n.
Solves(t, n, base, step) ==
  t[0] = base /\ \A k \in 1 .. n : t[k] = step[<<t[k - 1], k>>]

\* There is such a function.
LEMMA RecursionExists ==
  ASSUME NEW S, NEW base \in S, NEW n \in Nat, NEW step \in [S \X (1 .. n) -> S]
  PROVE  \E t \in [0 .. n -> S] : Solves(t, n, base, step)
<1> DEFINE Good(m) == \E t \in [0 .. m -> S] : Solves(t, m, base, step)
           Bad == {m \in 0 .. n : ~Good(m)}
<1>1. ASSUME NEW m \in Bad, \A y \in Bad : m <= y
      PROVE  FALSE
  <2>1. Good(0)
    <3>1. Solves([k \in 0 .. 0 |-> base], 0, base, step)
      BY DEF Solves
    <3> QED
      BY <3>1
  <2>2. m - 1 \in 0 .. n /\ m \in 1 .. n /\ m - 1 \notin Bad
    <3> HIDE DEF Good
    <3> QED
      BY <1>1, <2>1
  <2>3. PICK t \in [0 .. m - 1 -> S] : Solves(t, m - 1, base, step)
    BY <2>2
  <2> DEFINE u == [k \in 0 .. m |-> IF k = m THEN step[<<t[m - 1], m>>] ELSE t[k]]
  <2>4. t[m - 1] \in S /\ step[<<t[m - 1], m>>] \in S
    BY <2>2, <2>3
  <2>5. u \in [0 .. m -> S]
    BY <2>2, <2>4
  <2>6. u[0] = base
    BY <2>2, <2>3 DEF Solves
  <2>7. ASSUME NEW k \in 1 .. m PROVE u[k] = step[<<u[k - 1], k>>]
    <3>1. u[k - 1] = t[k - 1]
      BY <2>2
    <3>2. CASE k = m
      BY <2>2, <3>1, <3>2
    <3>3. CASE k \in 1 .. m - 1
      BY <2>2, <2>3, <3>1, <3>3 DEF Solves
    <3> QED
      BY <2>2, <3>2, <3>3
  <2>8. Good(m)
    BY <2>5, <2>6, <2>7 DEF Solves
  <2> QED
    BY <2>8
<1>2. Bad = {}
  <2> HIDE DEF Good
  <2>1. Bad \in SUBSET Nat
    OBVIOUS
  <2> HIDE DEF Bad
  <2> QED
    BY <1>1, <2>1, SmallestExists
<1>3. n \in 0 .. n
  OBVIOUS
<1> QED
  BY <1>2, <1>3

\* And no other.
LEMMA RecursionUnique ==
  ASSUME NEW n \in Nat, NEW base, NEW step, NEW t, NEW u,
         Solves(t, n, base, step), Solves(u, n, base, step)
  PROVE  t[n] = u[n]
<1> DEFINE Bad == {m \in 0 .. n : t[m] # u[m]}
<1>1. ASSUME NEW m \in Bad, \A y \in Bad : m <= y
      PROVE  FALSE
  <2>1. m - 1 \in 0 .. n /\ m \in 1 .. n
    BY DEF Solves
  <2>2. t[m - 1] = u[m - 1]
    BY <1>1, <2>1
  <2> QED
    BY <2>1, <2>2 DEF Solves
<1>2. Bad \in SUBSET Nat
  OBVIOUS
<1>3. Bad = {}
  <2> HIDE DEF Bad
  <2> QED
    BY <1>1, <1>2, SmallestExists
<1> QED
  BY <1>3
-----------------------------------------------------------------------------
(* FlattenSeq of a sequence of sequences.                                  *)

FlatStep(S, ss) == [x \in Seq(S) \X (1 .. Len(ss)) |-> x[1] \o ss[x[2]]]

LEMMA FlattenSolves ==
  ASSUME NEW S, NEW ss \in Seq(Seq(S))
  PROVE  \E t \in [0 .. Len(ss) -> Seq(S)] :
           Solves(t, Len(ss), <<>>, FlatStep(S, ss)) /\ FlattenSeq(ss) = t[Len(ss)]
<1> DEFINE n == Len(ss)
           Rec(t) == t = [i \in 1 .. n |-> IF i = 1 THEN ss[i] ELSE t[i - 1] \o ss[i]]
<1>1. n \in Nat /\ \A k \in 1 .. n : ss[k] \in Seq(S)
  OBVIOUS
<1>2. FlatStep(S, ss) \in [Seq(S) \X (1 .. n) -> Seq(S)]
  <2>1. \A x \in Seq(S) \X (1 .. n) : x[1] \o ss[x[2]] \in Seq(S)
    BY <1>1
  <2> QED
    BY <2>1 DEF FlatStep
<1>a. <<>> \in Seq(S)
  OBVIOUS
<1>3. PICK t \in [0 .. n -> Seq(S)] : Solves(t, n, <<>>, FlatStep(S, ss))
  <2> HIDE DEF n
  <2> QED
    BY <1>1, <1>2, <1>a, RecursionExists
<1>4. \A k \in 1 .. n : t[k] = t[k - 1] \o ss[k]
  <2> SUFFICES ASSUME NEW k \in 1 .. n PROVE t[k] = t[k - 1] \o ss[k]
    OBVIOUS
  <2>1. t[k] = FlatStep(S, ss)[<<t[k - 1], k>>]
    BY <1>3 DEF Solves
  <2>2. k - 1 \in 0 .. n
    BY <1>1
  <2>3. t[k - 1] \in Seq(S)
    BY <2>2
  <2> QED
    BY <2>1, <2>3 DEF FlatStep
<1>5. t[0] = <<>>
  BY <1>3 DEF Solves
<1>6. CASE n = 0
  <2>1. FlattenSeq(ss) = ss /\ ss = <<>>
    BY <1>6, EmptySeq DEF FlattenSeq
  <2> QED
    BY <1>3, <1>5, <1>6, <2>1
<1>7. CASE n # 0
  <2> DEFINE u == CHOOSE v : Rec(v)
             r == [i \in 1 .. n |-> t[i]]
  <2>1. FlattenSeq(ss) = u[n]
    BY <1>7 DEF FlattenSeq
  <2>2. Rec(r)
    <3>1. t[1] = ss[1]
      <4>1. 1 \in 1 .. n
        BY <1>1, <1>7
      <4>2. t[1] = t[0] \o ss[1] /\ ss[1] \in Seq(S)
        BY <1>1, <1>4, <4>1, 1 - 1 = 0
      <4>3. <<>> \o ss[1] = ss[1]
        BY <4>2, ConcatEmptySeq
      <4> QED
        BY <1>5, <4>2, <4>3
    <3>2. ASSUME NEW i \in 1 .. n
          PROVE  r[i] = IF i = 1 THEN ss[i] ELSE r[i - 1] \o ss[i]
      <4>1. CASE i = 1
        BY <3>1, <4>1
      <4>2. CASE i # 1
        <5>1. i - 1 \in 1 .. n
          BY <1>1, <4>2
        <5>2. r[i] = t[i] /\ r[i - 1] = t[i - 1]
          <6> HIDE DEF n
          <6> QED
            BY <5>1
        <5> QED
          BY <1>4, <4>2, <5>2
      <4> QED
        BY <4>1, <4>2
    <3> QED
      BY <3>2
  <2>3. Rec(u)
    <3> HIDE DEF Rec, r
    <3> QED
      BY <2>2
  <2>4. \A k \in 1 .. n : u[k] = IF k = 1 THEN ss[k] ELSE u[k - 1] \o ss[k]
    <3> HIDE DEF u
    <3> QED
      BY <2>3
  <2>5. \A k \in 1 .. n : r[k] = t[k] /\ r[k] = IF k = 1 THEN ss[k] ELSE r[k - 1] \o ss[k]
    BY <2>2
  <2> DEFINE Bad == {m \in 1 .. n : u[m] # t[m]}
  <2> HIDE DEF u, r
  <2>6. ASSUME NEW m \in Bad, \A y \in Bad : m <= y
        PROVE  FALSE
    <3>1. CASE m = 1
      BY <2>4, <2>5, <3>1
    <3>2. CASE m # 1
      <4>1. m - 1 \in 1 .. n /\ m \in 1 .. n
        BY <1>1, <3>2
      <4>2. m - 1 \notin Bad
        <5> HIDE DEF Bad
        <5> QED
          BY <1>1, <2>6, <4>1
      <4>3. u[m - 1] = t[m - 1]
        BY <4>1, <4>2
      <4> QED
        BY <2>4, <1>4, <3>2, <4>1, <4>3
    <3> QED
      BY <3>1, <3>2
  <2>7. Bad \in SUBSET Nat
    BY <1>1
  <2>8. Bad = {}
    <3> HIDE DEF Bad
    <3> QED
      BY <2>6, <2>7, SmallestExists
  <2>9. n \in 1 .. n
    BY <1>1, <1>7
  <2>10. u[n] = t[n]
    BY <2>8, <2>9
  <2> QED
    BY <1>3, <2>1, <2>10
<1> QED
  BY <1>6, <1>7

LEMMA FlattenEmpty == FlattenSeq(<<>>) = <<>>
BY DEF FlattenSeq

LEMMA FlattenAppend ==
  ASSUME NEW S, NEW ss \in Seq(Seq(S)), NEW s \in Seq(S)
  PROVE  /\ FlattenSeq(ss) \in Seq(S)
         /\ FlattenSeq(Append(ss, s)) = FlattenSeq(ss) \o s
<1> DEFINE n == Len(ss)
           g == Append(ss, s)
<1>1. /\ n \in Nat /\ g \in Seq(Seq(S)) /\ Len(g) = n + 1 /\ g[n + 1] = s
      /\ \A i \in 1 .. n : g[i] = ss[i]
  OBVIOUS
<1> HIDE DEF g
<1>2. PICK t \in [0 .. n -> Seq(S)] :
        Solves(t, n, <<>>, FlatStep(S, ss)) /\ FlattenSeq(ss) = t[n]
  BY FlattenSolves
<1>3. PICK u \in [0 .. n + 1 -> Seq(S)] :
        Solves(u, n + 1, <<>>, FlatStep(S, g)) /\ FlattenSeq(g) = u[n + 1]
  BY <1>1, FlattenSolves
<1> HIDE DEF n
<1>4. ASSUME NEW k \in 1 .. n + 1 PROVE u[k] = u[k - 1] \o g[k]
  <2>1. u[k] = FlatStep(S, g)[<<u[k - 1], k>>]
    BY <1>3 DEF Solves
  <2>2. k - 1 \in 0 .. n + 1 /\ k \in 1 .. Len(g)
    BY <1>1
  <2>3. u[k - 1] \in Seq(S)
    BY <2>2
  <2> QED
    BY <2>1, <2>2, <2>3 DEF FlatStep
<1>5. Solves(u, n, <<>>, FlatStep(S, ss))
  <2>1. ASSUME NEW k \in 1 .. n PROVE u[k] = FlatStep(S, ss)[<<u[k - 1], k>>]
    <3>1. k \in 1 .. n + 1 /\ k - 1 \in 0 .. n + 1
      BY <1>1
    <3>2. u[k] = u[k - 1] \o ss[k]
      BY <1>1, <1>4, <3>1
    <3>3. u[k - 1] \in Seq(S) /\ k \in 1 .. Len(ss)
      BY <3>1 DEF n
    <3> QED
      BY <3>2, <3>3 DEF FlatStep
  <2> QED
    BY <1>3, <2>1 DEF Solves
<1>6. n \in 0 .. n /\ n + 1 \in 1 .. n + 1
  BY <1>1
<1>7. u[n] = t[n]
  <2>1. n \in Nat
    BY <1>1
  <2>2. Solves(t, n, <<>>, FlatStep(S, ss))
    BY <1>2
  <2> QED
    BY <1>5, <2>1, <2>2, RecursionUnique
<1>8. u[n + 1] = u[n] \o s
  <2>1. (n + 1) - 1 = n
    BY <1>1
  <2>2. u[n + 1] = u[(n + 1) - 1] \o g[n + 1]
    BY <1>4, <1>6
  <2> QED
    BY <1>1, <2>1, <2>2
<1>9. t[n] \in Seq(S)
  BY <1>6
<1> QED
  BY <1>2, <1>3, <1>7, <1>8, <1>9 DEF g
-----------------------------------------------------------------------------
(* Lists.                                                                  *)

\* No element twice.
Inj(s) == \A i, j \in 1 .. Len(s) : s[i] = s[j] => i = j

LEMMA ToSetMember ==
  ASSUME NEW S, NEW s \in Seq(S)
  PROVE  /\ ToSet(s) = {s[i] : i \in 1 .. Len(s)}
         /\ ToSet(s) \subseteq S
  BY DEF ToSet

LEMMA EmptyList == ToSet(<<>>) = {} /\ Inj(<<>>)
  BY DEF ToSet, Inj

LEMMA AppendList ==
  ASSUME NEW S, NEW s \in Seq(S), NEW x \in S
  PROVE  /\ ToSet(Append(s, x)) = ToSet(s) \cup {x}
         /\ Inj(s) /\ x \notin ToSet(s) => Inj(Append(s, x))
<1> DEFINE t == Append(s, x)
<1>1. /\ t \in Seq(S) /\ Len(t) = Len(s) + 1 /\ Len(s) \in Nat /\ t[Len(s) + 1] = x
      /\ \A i \in 1 .. Len(s) : t[i] = s[i]
  OBVIOUS
<1> HIDE DEF t
<1>2. /\ ToSet(t) = {t[i] : i \in 1 .. Len(t)}
      /\ ToSet(s) = {s[i] : i \in 1 .. Len(s)}
  BY <1>1, ToSetMember
<1>3. ToSet(t) = ToSet(s) \cup {x}
  BY <1>1, <1>2
<1>4. ASSUME Inj(s), x \notin ToSet(s), NEW i \in 1 .. Len(t), NEW j \in 1 .. Len(t), t[i] = t[j]
      PROVE  i = j
  BY <1>1, <1>2, <1>4 DEF Inj
<1> QED
  BY <1>3, <1>4 DEF Inj, t

LEMMA TailList ==
  ASSUME NEW S, NEW s \in Seq(S), s # <<>>
  PROVE  /\ Tail(s) \in Seq(S) /\ Head(s) \in S
         /\ ToSet(s) = {Head(s)} \cup ToSet(Tail(s))
         /\ Inj(s) => Inj(Tail(s)) /\ Head(s) \notin ToSet(Tail(s))
<1> DEFINE t == Tail(s)
<1>1. /\ t \in Seq(S) /\ Len(s) = Len(t) + 1 /\ Len(t) \in Nat /\ Head(s) = s[1]
      /\ \A i \in 1 .. Len(t) : t[i] = s[i + 1]
  OBVIOUS
<1> HIDE DEF t
<1>2. /\ ToSet(t) = {t[i] : i \in 1 .. Len(t)}
      /\ ToSet(s) = {s[i] : i \in 1 .. Len(s)}
  BY <1>1, ToSetMember
<1>3. ASSUME NEW i \in 1 .. Len(s) PROVE s[i] = s[1] \/ (i - 1 \in 1 .. Len(t) /\ s[i] = t[i - 1])
  BY <1>1
<1>4. ToSet(s) = {Head(s)} \cup ToSet(t)
  <2>1. \A x \in ToSet(s) : x \in {Head(s)} \cup ToSet(t)
    BY <1>1, <1>2, <1>3
  <2>2. \A i \in 1 .. Len(t) : t[i] \in ToSet(s)
    <3>1. \A i \in 1 .. Len(t) : i + 1 \in 1 .. Len(s)
      BY <1>1
    <3> QED BY <1>1, <1>2, <3>1
  <2>3. Head(s) \in ToSet(s)
    BY <1>1, <1>2
  <2> QED BY <2>1, <2>2, <2>3, <1>2
<1>5. ASSUME Inj(s) PROVE Inj(t) /\ Head(s) \notin ToSet(t)
  BY <1>1, <1>2, <1>5 DEF Inj
<1>6. Head(s) \in S
  BY <1>1
<1> QED
  BY <1>1, <1>4, <1>5, <1>6 DEF t

LEMMA ConsList ==
  ASSUME NEW S, NEW s \in Seq(S), NEW x \in S
  PROVE  /\ <<x>> \o s \in Seq(S)
         /\ ToSet(<<x>> \o s) = {x} \cup ToSet(s)
         /\ Inj(s) /\ x \notin ToSet(s) => Inj(<<x>> \o s)
<1> DEFINE t == <<x>> \o s
<1>1. /\ t \in Seq(S) /\ t # <<>> /\ Head(t) = x /\ Tail(t) = s
      /\ Len(t) = Len(s) + 1 /\ Len(s) \in Nat /\ t[1] = x
      /\ \A i \in 2 .. Len(t) : t[i] = s[i - 1] /\ i - 1 \in 1 .. Len(s)
  OBVIOUS
<1> HIDE DEF t
<1>2. ToSet(s) = {s[i] : i \in 1 .. Len(s)}
  BY ToSetMember
<1>3. ASSUME Inj(s), x \notin ToSet(s), NEW i \in 1 .. Len(t), NEW j \in 1 .. Len(t), t[i] = t[j]
      PROVE  i = j
  <2>1. CASE i = 1
    BY <1>1, <1>2, <1>3, <2>1
  <2>2. CASE j = 1
    BY <1>1, <1>2, <1>3, <2>2
  <2>3. CASE i # 1 /\ j # 1
    BY <1>1, <1>3, <2>3, SMTT(30) DEF Inj
  <2> QED BY <2>1, <2>2, <2>3
<1>4. ToSet(t) = {x} \cup ToSet(s)
  BY <1>1, TailList
<1> QED
  BY <1>1, <1>3, <1>4 DEF Inj, t

\* The first place of an element is taken out of a list.
LEMMA RemovedList ==
  ASSUME NEW S, NEW s \in Seq(S), NEW b \in ToSet(s), Inj(s)
  PROVE  /\ RemoveAt(s, CHOOSE i \in DOMAIN s : s[i] = b) \in Seq(S)
         /\ Len(s) \in Nat \ {0} /\ Len(RemoveAt(s, CHOOSE i \in DOMAIN s : s[i] = b)) = Len(s) - 1
         /\ ToSet(RemoveAt(s, CHOOSE i \in DOMAIN s : s[i] = b)) = ToSet(s) \ {b}
         /\ Inj(RemoveAt(s, CHOOSE i \in DOMAIN s : s[i] = b))
<1> DEFINE k == CHOOSE i \in DOMAIN s : s[i] = b
           u == SubSeq(s, 1, k - 1)
           v == SubSeq(s, k + 1, Len(s))
           t == u \o v
<1>1. k \in 1 .. Len(s) /\ s[k] = b
  BY DEF ToSet
<1> HIDE DEF k
<1>2. Len(s) \in Nat \ {0}
  BY <1>1
<1>3. u \in Seq(S) /\ Len(u) = k - 1 /\ \A i \in 1 .. k - 1 : u[i] = s[i]
  BY <1>1
<1>4. v \in Seq(S) /\ Len(v) = Len(s) - k /\ \A i \in 1 .. Len(s) - k : v[i] = s[i + k]
  BY <1>1
<1> HIDE DEF u, v
<1>5. /\ t \in Seq(S) /\ Len(t) = Len(s) - 1
      /\ \A i \in 1 .. Len(t) : t[i] = IF i < k THEN s[i] ELSE s[i + 1]
  <2>0. u \in Seq(S) /\ v \in Seq(S)
    BY <1>3, <1>4
  <2>1. t \in Seq(S) /\ Len(t) = Len(u) + Len(v)
    BY <2>0, ConcatProperties
  <2>2. \A i \in 1 .. Len(t) : t[i] = IF i <= Len(u) THEN u[i] ELSE v[i - Len(u)]
    BY <2>0, <2>1, ConcatProperties
  <2>3. Len(t) = Len(s) - 1
    BY <2>1, <1>1, <1>2, <1>3, <1>4
  <2> HIDE DEF t
  <2>4. ASSUME NEW i \in 1 .. Len(t) PROVE t[i] = IF i < k THEN s[i] ELSE s[i + 1]
    <3>1. CASE i < k
      BY <2>2, <2>3, <3>1, <1>1, <1>3
    <3>2. CASE ~(i < k)
      <4>1. i - Len(u) \in 1 .. Len(s) - k /\ (i - Len(u)) + k = i + 1 /\ ~(i <= Len(u))
        BY <2>3, <3>2, <1>1, <1>2, <1>3
      <4>2. t[i] = v[i - Len(u)] /\ v[i - Len(u)] = s[(i - Len(u)) + k]
        BY <4>1, <2>2, <1>4
      <4> QED
        BY <3>2, <4>1, <4>2
    <3> QED
      BY <3>1, <3>2
  <2> QED
    BY <2>1, <2>3, <2>4
<1> HIDE DEF t
<1>6. /\ ToSet(t) = {t[i] : i \in 1 .. Len(t)}
      /\ ToSet(s) = {s[i] : i \in 1 .. Len(s)}
  BY <1>5, ToSetMember
<1>7. ToSet(t) \subseteq ToSet(s) \ {b}
  <2> SUFFICES ASSUME NEW i \in 1 .. Len(t) PROVE t[i] \in ToSet(s) /\ t[i] # b
    BY <1>6
  <2> QED BY <1>1, <1>2, <1>5, <1>6 DEF Inj
<1>8. ToSet(s) \ {b} \subseteq ToSet(t)
  <2> SUFFICES ASSUME NEW i \in 1 .. Len(s), s[i] # b PROVE s[i] \in ToSet(t)
    BY <1>6
  <2>1. CASE i < k
    <3>1. i \in 1 .. Len(t) /\ t[i] = s[i]
      BY <1>1, <1>2, <1>5, <2>1
    <3> QED BY <3>1, <1>6
  <2>2. CASE i > k
    <3>1. i - 1 \in 1 .. Len(t) /\ t[i - 1] = s[i]
      BY <1>1, <1>2, <1>5, <2>2
    <3> QED BY <3>1, <1>6
  <2> QED BY <1>1, <2>1, <2>2
<1>9. Inj(t)
  <2> SUFFICES ASSUME NEW i \in 1 .. Len(t), NEW j \in 1 .. Len(t), t[i] = t[j] PROVE i = j
    BY DEF Inj
  <2> QED BY <1>1, <1>2, <1>5 DEF Inj
<1>10. RemoveAt(s, CHOOSE i \in DOMAIN s : s[i] = b) = t
  BY DEF RemoveAt, t, u, v, k
<1> QED
  BY <1>2, <1>5, <1>7, <1>8, <1>9, <1>10

\* A list without repetitions has as many elements as entries.
LEMMA ListCardinality ==
  ASSUME NEW S, NEW s \in Seq(S), Inj(s)
  PROVE  Cardinality(ToSet(s)) = Len(s)
<1>1. Len(s) \in Nat /\ ToSet(s) = {s[i] : i \in 1 .. Len(s)}
  BY ToSetMember
<1> DEFINE f == [i \in 1 .. Len(s) |-> s[i]]
<1>2. f \in Bijection(1 .. Len(s), ToSet(s))
  BY <1>1 DEF Bijection, Injection, Surjection, Inj, IsInjective
<1> QED
  BY <1>1, <1>2, FS_CountingElements DEF ExistsBijection
-----------------------------------------------------------------------------
(* Sequences, one element after another.                                   *)

\* What holds of the empty sequence and is kept by Append holds of all; a
\* property is the set G of what has it.
LEMMA SeqInduction ==
  ASSUME NEW S, NEW G, <<>> \in G,
         \A s \in Seq(S) : \A x \in S : s \in G => Append(s, x) \in G
  PROVE  \A s \in Seq(S) : s \in G
<1> DEFINE Bad == {n \in Nat : \E s \in Seq(S) : Len(s) = n /\ s \notin G}
<1>1. ASSUME NEW n \in Bad, \A y \in Bad : n <= y PROVE FALSE
  <2>1. PICK s \in Seq(S) : Len(s) = n /\ s \notin G
    OBVIOUS
  <2>2. n # 0 /\ n \in Nat
    <3>1. n = 0 => s = <<>>
      BY <2>1
    <3> QED
      BY <2>1, <3>1
  <2> DEFINE f == [k \in 1 .. n - 1 |-> s[k]]
  <2>3. s[n] \in S /\ \A k \in 1 .. n - 1 : s[k] \in S
    BY <2>1, <2>2
  <2>4. f \in Seq(S) /\ Len(f) = n - 1
    BY <2>2, <2>3
  <2>5. s = Append(f, s[n])
    <3>1. Append(f, s[n]) \in Seq(S) /\ Len(Append(f, s[n])) = n
      BY <2>2, <2>3, <2>4
    <3>2. \A k \in 1 .. n : Append(f, s[n])[k] = s[k]
      <4> TAKE k \in 1 .. n
      <4>1. CASE k = n
        BY <2>2, <2>4, <4>1
      <4>2. CASE k # n
        <5>1. k \in 1 .. n - 1
          BY <2>2, <4>2
        <5>2. f[k] = s[k]
          BY <5>1
        <5> HIDE DEF f
        <5> QED
          BY <2>4, <5>1, <5>2
      <4> QED
        BY <4>1, <4>2
    <3> HIDE DEF f
    <3> QED
      BY <2>1, <3>1, <3>2, SeqEqual
  <2>6. f \in G
    <3>1. n - 1 \in Nat /\ n - 1 \notin Bad
      <4> HIDE DEF Bad
      <4>1. n \in Nat /\ n # 0
        BY <2>2
      <4> QED
        BY <1>1, <4>1
    <3> HIDE DEF f
    <3> QED
      BY <2>4, <3>1
  <2> HIDE DEF f
  <2> QED
    BY <2>1, <2>3, <2>4, <2>5, <2>6
<1>2. Bad = {}
  <2>1. Bad \in SUBSET Nat
    OBVIOUS
  <2> HIDE DEF Bad
  <2> QED
    BY <1>1, <2>1, SmallestExists
<1> QED
  BY <1>2
=============================================================================
