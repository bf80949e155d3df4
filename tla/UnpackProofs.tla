----------------------------- MODULE UnpackProofs ----------------------------
(***************************************************************************)
(* Proofs about Unpack: through every way out, whatever allocation fails   *)
(* and whatever the input is, what was allocated is freed and nothing else *)
(* is; a message is not refused for a required field that it has; the      *)
(* arrays the scan made room for are not overrun; and a message that is    *)
(* returned holds what the input says.                                     *)
(***************************************************************************)
EXTENDS Unpack, Lookups, RecursionLemmas, FiniteSetTheorems, FunctionTheorems

\* Members are the message's, and so is what was made of them.
Tags == \A j \in DOMAIN input : input[j].tag \in 0 .. Len(desc)

Sources == phase \notin {"failed", "freed"} =>
  /\ \A k \in Fields : \A i \in DOMAIN rv[k].elements : rv[k].elements[i][1] \in Given(k)
  /\ \A k \in Fields : rv[k].value # 0 => rv[k].value \in Given(k)
  /\ \A i \in DOMAIN unknown_fields : unknown_fields[i] \in Given(0)

\* The slabs hold places of members, and all but the last are full.
SlabsOK ==
  /\ \A i \in 1 .. Len(slabs) - 1 : Len(slabs[i]) = SlabSize(i)
  /\ \A i \in 1 .. Len(slabs) : \A l \in 1 .. Len(slabs[i]) : slabs[i][l] \in DOMAIN input
  /\ next[1] > 0 /\ next[2] > 0

\* How far the passes have brought the fields.
Unparsed == /\ \A k \in Fields : rv[k].elements = <<>> /\ rv[k].value = 0
            /\ unknown_fields = <<>>

Stages ==
  /\ phase \notin {"failed", "freed"} =>
       \A k \in Fields : desc[k].label # "repeated" => rv[k].n = 0 /\ rv[k].room = 0
  /\ phase \in {"scan", "fields"} => Unparsed
  /\ phase = "scan" => f = 0 /\ \A k \in Fields : rv[k].room = 0
  /\ phase = "fields" => /\ f \in 1 .. Len(desc) + 1
                         /\ \A k \in Fields : IF k < f THEN rv[k].n = 0 ELSE rv[k].room = 0
  /\ phase \in {"parse", "done"} => /\ f = Len(desc) + 1
                                    /\ \A k \in Fields : rv[k].n = Len(rv[k].elements)

\* What is allocated is what the message and the slabs say.
HeapOK ==
  /\ phase \in {"scan", "fields", "parse"} => heap = MessageBlocks(rv) \cup SlabBlocks
  /\ phase = "done" => heap = MessageBlocks(rv)
  /\ phase \in {"failed", "freed"} => heap = {}

Inv == TypeOK /\ Tags /\ Sources /\ SlabsOK /\ Stages /\ HeapOK /\ ~wild
-----------------------------------------------------------------------------
(* Blocks.                                                                 *)

LEMMA DescIs ==
  ASSUME desc \in Descriptors
  PROVE  /\ desc \in Seq(FieldDescriptor) /\ Fields = 1 .. Len(desc) /\ Len(desc) \in Nat
         /\ \A k \in Fields : desc[k] \in FieldDescriptor
<1>1. desc \in Seq(FieldDescriptor)
  BY UnpackAssumption
<1> QED
  BY <1>1 DEF Fields

LEMMA BlocksAre ==
  /\ MessageBlock \in Blocks /\ UnknownBlock \in Blocks
  /\ \A i \in Nat : SlabBlock(i) \in Blocks /\ ArrayBlock(i) \in Blocks /\ ValueBlock(i) \in Blocks
BY DEF MessageBlock, UnknownBlock, SlabBlock, ArrayBlock, ValueBlock, Blocks

LEMMA BlocksApart ==
  /\ \A i, j : ValueBlock(i) = ValueBlock(j) => i = j
  /\ \A i, j : SlabBlock(i) = SlabBlock(j) => i = j
  /\ \A i, j : ArrayBlock(i) = ArrayBlock(j) => i = j
  /\ \A i, j : ValueBlock(i) # SlabBlock(j) /\ ValueBlock(i) # ArrayBlock(j) /\ SlabBlock(i) # ArrayBlock(j)
  /\ \A i : /\ ValueBlock(i) # UnknownBlock /\ SlabBlock(i) # UnknownBlock /\ ArrayBlock(i) # UnknownBlock
            /\ ValueBlock(i) # MessageBlock /\ SlabBlock(i) # MessageBlock /\ ArrayBlock(i) # MessageBlock
  /\ UnknownBlock # MessageBlock
BY DEF MessageBlock, UnknownBlock, SlabBlock, ArrayBlock, ValueBlock

LEMMA InValueBlocks ==
  \A k, j, x : x \in ValueBlocks(k, j) <=> Owns(desc[k].type, input[j]) /\ x = ValueBlock(j)
BY DEF ValueBlocks

\* Whether x is a block of field k, and of the message.
HasBlock(message, k, x) ==
  IF desc[k].label = "repeated"
  THEN \/ \E i \in DOMAIN message[k].elements :
            /\ Owns(desc[k].type, input[message[k].elements[i][1]])
            /\ x = ValueBlock(message[k].elements[i][1])
       \/ message[k].room > 0 /\ x = ArrayBlock(k)
  ELSE /\ message[k].value # 0 /\ Owns(desc[k].type, input[message[k].value])
       /\ x = ValueBlock(message[k].value)

LEMMA InFieldBlocks ==
  ASSUME NEW message, NEW k, NEW x
  PROVE  x \in FieldBlocks(message, k) <=> HasBlock(message, k, x)
<1> DEFINE vb(i) == ValueBlocks(k, message[k].elements[i][1])
           all   == UNION {vb(i) : i \in DOMAIN message[k].elements}
<1>1. CASE desc[k].label = "repeated"
  <2>1. x \in FieldBlocks(message, k) <=>
          x \in all \/ x \in (IF message[k].room > 0 THEN {ArrayBlock(k)} ELSE {})
    <3>1. FieldBlocks(message, k) = all \cup (IF message[k].room > 0 THEN {ArrayBlock(k)} ELSE {})
      BY <1>1, Zenon DEF FieldBlocks
    <3> HIDE DEF all
    <3> QED
      BY <3>1, Zenon
  <2>2. x \in all <=> \E i \in DOMAIN message[k].elements : x \in vb(i)
    <3> HIDE DEF vb
    <3> QED
      OBVIOUS
  <2>3. \A i : x \in vb(i) <=> /\ Owns(desc[k].type, input[message[k].elements[i][1]])
                              /\ x = ValueBlock(message[k].elements[i][1])
    BY InValueBlocks
  <2> HIDE DEF all, vb
  <2>4. x \in (IF message[k].room > 0 THEN {ArrayBlock(k)} ELSE {}) <=>
          message[k].room > 0 /\ x = ArrayBlock(k)
    BY Zenon
  <2> QED
    BY <1>1, <2>1, <2>2, <2>3, <2>4, Zenon DEF HasBlock
<1>2. CASE desc[k].label # "repeated"
  BY <1>2, InValueBlocks, Zenon DEF FieldBlocks, HasBlock
<1> QED
  BY <1>1, <1>2

Holding == n_unknown > 0 /\ phase \in {"parse", "done"}

LEMMA InMessageBlocks ==
  ASSUME NEW message, NEW x
  PROVE  x \in MessageBlocks(message) <=>
           \/ \E k \in Fields : HasBlock(message, k, x)
           \/ \E i \in DOMAIN unknown_fields : x = ValueBlock(unknown_fields[i])
           \/ Holding /\ x = UnknownBlock
           \/ x = MessageBlock
<1>1. \A k : x \in FieldBlocks(message, k) <=> HasBlock(message, k, x)
  BY InFieldBlocks
<1> DEFINE a == UNION {FieldBlocks(message, k) : k \in Fields}
           b == {ValueBlock(unknown_fields[i]) : i \in DOMAIN unknown_fields}
           c == IF n_unknown > 0 /\ phase \in {"parse", "done"} THEN {UnknownBlock} ELSE {}
<1>2. x \in MessageBlocks(message) <=> x \in a \/ x \in b \/ x \in c \/ x = MessageBlock
  <2>1. MessageBlocks(message) = a \cup b \cup c \cup {MessageBlock}
    BY Zenon DEF MessageBlocks
  <2> HIDE DEF a, b, c
  <2> QED
    BY <2>1, Zenon
<1>3. x \in a <=> \E k \in Fields : HasBlock(message, k, x)
  BY <1>1, Zenon
<1>4. x \in b <=> \E i \in DOMAIN unknown_fields : x = ValueBlock(unknown_fields[i])
  BY Zenon
<1>5. x \in c <=> Holding /\ x = UnknownBlock
  BY Zenon DEF Holding
<1> HIDE DEF a, b, c
<1> QED
  BY <1>2, <1>3, <1>4, <1>5, Zenon

LEMMA InSlabBlocks ==
  \A x : x \in SlabBlocks <=> \E i \in 2 .. Len(slabs) : x = SlabBlock(i)
BY DEF SlabBlocks


\* What the message that is being built holds.
RvHolds(x) ==
  \/ \E k \in Fields : HasBlock(rv, k, x)
  \/ \E i \in DOMAIN unknown_fields : x = ValueBlock(unknown_fields[i])
  \/ Holding /\ x = UnknownBlock
  \/ x = MessageBlock

LEMMA InRvBlocks == \A x : x \in MessageBlocks(rv) <=> RvHolds(x)
BY InMessageBlocks, Zenon DEF RvHolds

\* The same of the next state.
LEMMA InRvBlocksNext ==
  /\ (\A x : x \in MessageBlocks(rv) <=> RvHolds(x))'
  /\ (\A x : x \in SlabBlocks <=> \E i \in 2 .. Len(slabs) : x = SlabBlock(i))'
BY InRvBlocks, InSlabBlocks, PTL

\* Slabs are apart from what the message holds.
LEMMA SlabsApart == \A i : ~RvHolds(SlabBlock(i))
BY BlocksApart, Zenon DEF RvHolds, HasBlock

LEMMA SlabsApartNext == (\A i : ~RvHolds(SlabBlock(i)))'
BY SlabsApart, PTL

\* Before the third pass the message holds itself and the arrays.
LEMMA HoldsArrays ==
  Unparsed /\ phase \in {"scan", "fields"} =>
    \A x : RvHolds(x) <=>
      \/ \E k \in Fields : /\ desc[k].label = "repeated" /\ rv[k].room > 0
                           /\ x = ArrayBlock(k)
      \/ x = MessageBlock
<1> SUFFICES ASSUME Unparsed, phase \in {"scan", "fields"}, NEW x
             PROVE  RvHolds(x) <=>
                      \/ \E k \in Fields : /\ desc[k].label = "repeated" /\ rv[k].room > 0
                                           /\ x = ArrayBlock(k)
                      \/ x = MessageBlock
  OBVIOUS
<1>1. ~Holding
  BY DEF Holding
<1>2. DOMAIN unknown_fields = {}
  BY DEF Unparsed
<1>3. \A k \in Fields : DOMAIN rv[k].elements = {} /\ rv[k].value = 0
  BY DEF Unparsed
<1>4. \A k \in Fields : HasBlock(rv, k, x) <=> /\ desc[k].label = "repeated" /\ rv[k].room > 0
                                              /\ x = ArrayBlock(k)
  BY <1>3, Zenon DEF HasBlock
<1> QED
  BY <1>1, <1>2, <1>4, Zenon DEF RvHolds

LEMMA HoldsArraysNext ==
  (Unparsed /\ phase \in {"scan", "fields"} =>
    \A x : RvHolds(x) <=>
      \/ \E k \in Fields : /\ desc[k].label = "repeated" /\ rv[k].room > 0
                           /\ x = ArrayBlock(k)
      \/ x = MessageBlock)'
BY HoldsArrays, PTL

LEMMA InvInit == Init => Inv
<1> SUFFICES ASSUME Init PROVE Inv
  OBVIOUS
<1>1. desc \in Seq(FieldDescriptor) /\ Fields = 1 .. Len(desc) /\ Len(desc) \in Nat
  BY DescIs DEF Init
<1>2. TypeOK
  <2>1. rv \in [Fields -> Slot]
    BY DEF Init, EmptySlot, Slot
  <2>2. required_fields_bitmap \in [0 .. BitmapSize - 1 -> SUBSET (0 .. WordBits - 1)]
    BY DEF Init
  <2>3. slabs \in Seq(Seq(Nat)) /\ Len(slabs) \in 1 .. MaxSlab + 1
    BY UnpackAssumption DEF Init
  <2>4. heap \subseteq Blocks
    BY BlocksAre DEF Init
  <2>5. input \in Seq(Member) /\ unknown_fields \in Seq(Nat) /\ next \in Nat \X Nat
    BY DEF Init
  <2>6. desc \in Descriptors /\ phase \in Phases /\ last_field \in Nat
    BY DEF Init, Phases
  <2>7. n_unknown \in Nat /\ f \in Nat /\ wild \in BOOLEAN
    BY DEF Init
  <2> QED
    BY <2>1, <2>2, <2>3, <2>4, <2>5, <2>6, <2>7 DEF TypeOK
<1>3. Tags /\ Sources /\ SlabsOK
  BY DEF Init, Tags, Sources, SlabsOK, EmptySlot
<1>4. Unparsed /\ \A k \in Fields : rv[k].n = 0 /\ rv[k].room = 0
  BY DEF Init, Unparsed, EmptySlot
<1>5. Stages
  BY <1>4 DEF Init, Stages
<1>6. HeapOK
  <2>1. \A x : RvHolds(x) <=> x = MessageBlock
    BY <1>4, HoldsArrays DEF Init
  <2>2. \A x : x \in MessageBlocks(rv) <=> x = MessageBlock
    BY <2>1, InRvBlocks
  <2>3. SlabBlocks = {}
    BY DEF SlabBlocks, Init
  <2>4. heap = MessageBlocks(rv) \cup SlabBlocks
    BY <2>2, <2>3 DEF Init
  <2> QED
    BY <2>4 DEF HeapOK, Init
<1> QED
  BY <1>2, <1>3, <1>5, <1>6 DEF Inv, Init
-----------------------------------------------------------------------------
(* First pass.                                                             *)

LEMMA EndsCounted ==
  ASSUME NEW d \in Seq(BOOLEAN)
  PROVE  /\ IsFiniteSet(Ends(d)) /\ Cardinality(Ends(d)) \in Nat
         /\ Cardinality(Ends(d)) <= Len(d)
<1>0. Len(d) \in Nat
  OBVIOUS
<1> DEFINE num == Len(d)
<1>1. IsFiniteSet(1 .. num) /\ Cardinality(1 .. num) = num
  <2> HIDE DEF num
  <2>1. num \in Int /\ 1 \in Int /\ num >= 0
    BY <1>0 DEF num
  <2>2. IsFiniteSet(1 .. num) /\ Cardinality(1 .. num) = IF 1 > num THEN 0 ELSE num - 1 + 1
    BY <2>1, FS_Interval, Zenon
  <2> QED
    BY <2>1, <2>2
<1>2. Ends(d) \subseteq 1 .. Len(d)
  BY DEF Ends
<1>3. IsFiniteSet(Ends(d)) /\ Cardinality(Ends(d)) <= Len(d)
  BY <1>1, <1>2, FS_Subset
<1> QED
  BY <1>3, FS_CardinalityType

LEMMA CountIs ==
  ASSUME desc \in Descriptors, NEW k \in Fields, NEW m \in Member
  PROVE  CountElements(k, m) \in Nat
<1>1. m.data \in Seq(BOOLEAN)
  BY DEF Member
<1>2. Cardinality(Ends(m.data)) \in Nat /\ Len(m.data) \in Nat
  BY <1>1, EndsCounted
<1> QED
  BY <1>2 DEF CountElements

LEMMA MemberIs ==
  ASSUME desc \in Descriptors, NEW k \in 0 .. Len(desc), NEW m \in MembersOf(k)
  PROVE  m \in Member /\ m.tag = k
<1>1. k \in Nat
  BY DescIs
<1> DEFINE datas == IF k = 0 THEN {<<TRUE>>}
                    ELSE IF desc[k].label # "repeated" \/ ~Packable(desc[k].type)
                    THEN {<<>>, <<TRUE>>}
                    ELSE {d \in UNION {[1 .. num -> BOOLEAN] : num \in 0 .. MaxBytes} :
                            desc[k].type = "fixed" => Ends(d) = DOMAIN d}
<1>2. m \in [tag : {k}, wire : {"varint", "fixed"}, data : {<<TRUE>>}] \/
      m \in [tag : {k}, wire : {"length"}, data : datas]
  BY DEF MembersOf
<1>3. <<TRUE>> \in Seq(BOOLEAN) /\ <<>> \in Seq(BOOLEAN)
  OBVIOUS
<1>4. ASSUME NEW d \in datas PROVE d \in Seq(BOOLEAN)
  <2>1. CASE d \in {<<>>, <<TRUE>>}
    BY <2>1, <1>3
  <2>2. CASE d \notin {<<>>, <<TRUE>>}
    <3>1. d \in UNION {[1 .. num -> BOOLEAN] : num \in 0 .. MaxBytes}
      BY <1>4, <2>2
    <3>2. PICK num \in 0 .. MaxBytes : d \in [1 .. num -> BOOLEAN]
      BY <3>1, Zenon
    <3>3. num \in Nat
      BY UnpackAssumption
    <3> QED
      BY <3>2, <3>3
  <2> QED
    BY <2>1, <2>2
<1> HIDE DEF datas
<1> QED
  BY <1>1, <1>2, <1>3, <1>4 DEF Member, Wires

LEMMA BitIs ==
  ASSUME NEW k \in Nat \ {0}
  PROVE  Word(k) \in 0 .. BitmapSize - 1 /\ Bit(k) \in 0 .. WordBits - 1
<1>1. BitmapSize \in Nat \ {0} /\ WordBits \in Nat \ {0}
  BY UnpackAssumption
<1>2. k - 1 \in Nat
  OBVIOUS
<1>3. (k - 1) \div WordBits \in Nat
  BY <1>1, <1>2
<1>4. \A a \in Nat, b \in Nat \ {0} : a % b \in 0 .. b - 1
  OBVIOUS
<1> QED
  BY <1>1, <1>2, <1>3, <1>4 DEF Word, Bit

LEMMA RecordTyped ==
  ASSUME desc \in Descriptors, NEW k \in 0 .. Len(desc), RecordRequired(k),
         required_fields_bitmap \in [0 .. BitmapSize - 1 -> SUBSET (0 .. WordBits - 1)]
  PROVE  required_fields_bitmap' \in [0 .. BitmapSize - 1 -> SUBSET (0 .. WordBits - 1)]
<1>1. CASE k # 0 /\ desc[k].label = "required"
  <2>1. k \in Nat \ {0}
    BY <1>1, DescIs
  <2>2. Word(k) \in 0 .. BitmapSize - 1 /\ Bit(k) \in 0 .. WordBits - 1
    BY <2>1, BitIs
  <2>3. required_fields_bitmap[Word(k)] \cup {Bit(k)} \in SUBSET (0 .. WordBits - 1)
    BY <2>2
  <2>4. required_fields_bitmap' =
          [required_fields_bitmap EXCEPT ![Word(k)] = required_fields_bitmap[Word(k)] \cup {Bit(k)}]
    BY <1>1 DEF RecordRequired
  <2> QED
    BY <2>2, <2>3, <2>4
<1>2. CASE ~(k # 0 /\ desc[k].label = "required")
  BY <1>2 DEF RecordRequired
<1> QED
  BY <1>1, <1>2

LEMMA ScanStep ==
  ASSUME Inv, NEW k \in 0 .. Len(desc), NEW m \in MembersOf(k), ScanMember(m)
  PROVE  Inv'
<1>1. /\ desc \in Descriptors /\ input \in Seq(Member) /\ slabs \in Seq(Seq(Nat))
      /\ Len(slabs) \in 1 .. MaxSlab + 1 /\ rv \in [Fields -> Slot]
      /\ phase = "scan" /\ Scanned(m) /\ n_unknown \in Nat
  BY DEF Inv, TypeOK, ScanMember
<1>2. m \in Member /\ m.tag = k
  BY <1>1, MemberIs
<1>3. Fields = 1 .. Len(desc) /\ Len(desc) \in Nat /\ \A i \in Fields : desc[i] \in FieldDescriptor
  BY <1>1, DescIs
<1>4. k \in Nat /\ (k # 0 => k \in Fields)
  BY <1>3
<1> DEFINE j == Len(input) + 1
<1>5. UNCHANGED <<desc, phase, f, next, unknown_fields, wild>>
  BY <1>1 DEF Scanned
<1>6. /\ input' = Append(input, m) /\ input' \in Seq(Member) /\ Len(input') = j
      /\ \A i \in 1 .. Len(input) : input'[i] = input[i]
      /\ input'[j] = m /\ DOMAIN input \subseteq DOMAIN input' /\ j \in DOMAIN input' /\ j \in Nat
  <2>1. input' = Append(input, m)
    BY <1>1 DEF Scanned
  <2> QED
    BY <1>1, <1>2, <2>1
<1>7. MaxSlab \in Nat
  BY UnpackAssumption
<1>19. Len(slabs) \in Nat /\ Len(slabs) > 0
  BY <1>1
<1>8. Unparsed /\ f = 0 /\ \A i \in Fields : rv[i].room = 0
  BY <1>1 DEF Inv, Stages
<1>9. /\ rv' \in [Fields -> Slot]
      /\ \A i \in Fields : /\ rv'[i].elements = rv[i].elements /\ rv'[i].room = rv[i].room
                           /\ rv'[i].value = rv[i].value
                           /\ desc[i].label # "repeated" => rv'[i].n = rv[i].n
  <2>1. CASE k # 0 /\ desc[k].label = "repeated"
    <3>1. k \in Fields /\ CountElements(k, m) \in Nat
      BY <2>1, <1>1, <1>2, <1>4, CountIs
    <3>2. rv' = [rv EXCEPT ![k] = [rv[k] EXCEPT !.n = rv[k].n + CountElements(k, m)]]
      BY <1>1, <1>2, <2>1 DEF Scanned
    <3>3. rv[k] \in Slot
      BY <1>1, <3>1
    <3>4. [rv[k] EXCEPT !.n = rv[k].n + CountElements(k, m)] \in Slot
      <4>1. rv[k].n + CountElements(k, m) \in Nat
        BY <3>1, <3>3 DEF Slot
      <4> QED
        BY <4>1, <3>3, Zenon DEF Slot
    <3> DEFINE s == [rv[k] EXCEPT !.n = rv[k].n + CountElements(k, m)]
    <3>5. s.elements = rv[k].elements /\ s.room = rv[k].room /\ s.value = rv[k].value
      BY <3>3 DEF Slot
    <3> HIDE DEF s
    <3> QED
      BY <1>1, <2>1, <3>1, <3>2, <3>4, <3>5 DEF s
  <2>2. CASE ~(k # 0 /\ desc[k].label = "repeated")
    BY <1>1, <1>2, <2>2 DEF Scanned
  <2> QED
    BY <2>1, <2>2
<1>10. /\ slabs' \in Seq(Seq(Nat)) /\ Len(slabs') \in 1 .. MaxSlab + 1
       /\ \A i \in 1 .. Len(slabs') - 1 : Len(slabs'[i]) = SlabSize(i)
       /\ \A i \in 1 .. Len(slabs') : \A l \in 1 .. Len(slabs'[i]) : slabs'[i][l] \in DOMAIN input'
       /\ heap' = heap \cup (SlabBlocks' \ SlabBlocks)
       /\ SlabBlocks \subseteq SlabBlocks'
  <2>0. /\ \A i \in 1 .. Len(slabs) - 1 : Len(slabs[i]) = SlabSize(i)
        /\ \A i \in 1 .. Len(slabs) : \A l \in 1 .. Len(slabs[i]) : slabs[i][l] \in DOMAIN input'
    BY <1>6 DEF Inv, SlabsOK
  <2>1. CASE SlabIsFull
    <3>1. slabs' = Append(slabs, <<j>>) /\ heap' = heap \cup {SlabBlock(Len(slabs) + 1)}
      BY <1>1, <2>1 DEF Scanned
    <3>2. Len(slabs[Len(slabs)]) = SlabSize(Len(slabs)) /\ Len(slabs) <= MaxSlab
      BY <2>1 DEF SlabIsFull, ScanMember
    <3>3. slabs' \in Seq(Seq(Nat)) /\ Len(slabs') = Len(slabs) + 1
      BY <3>1, <1>1, <1>6
    <3>4. /\ \A i \in 1 .. Len(slabs) : slabs'[i] = slabs[i]
          /\ slabs'[Len(slabs) + 1] = <<j>>
      BY <3>1, <1>1
    <3>5. \A i \in 1 .. Len(slabs') - 1 : Len(slabs'[i]) = SlabSize(i)
      <4> SUFFICES ASSUME NEW i \in 1 .. Len(slabs') - 1 PROVE Len(slabs'[i]) = SlabSize(i)
        OBVIOUS
      <4>1. i \in 1 .. Len(slabs)
        BY <3>3, <1>19
      <4>2. i = Len(slabs) \/ i \in 1 .. Len(slabs) - 1
        BY <4>1, <1>19
      <4>3. slabs'[i] = slabs[i]
        BY <4>1, <3>4
      <4> QED
        BY <4>2, <4>3, <2>0, <3>2
    <3>6. \A i \in 1 .. Len(slabs') : \A l \in 1 .. Len(slabs'[i]) : slabs'[i][l] \in DOMAIN input'
      <4> SUFFICES ASSUME NEW i \in 1 .. Len(slabs'), NEW l \in 1 .. Len(slabs'[i])
                   PROVE  slabs'[i][l] \in DOMAIN input'
        OBVIOUS
      <4>1. CASE i = Len(slabs) + 1
        <5>1. slabs'[i] = <<j>>
          BY <4>1, <3>4
        <5>2. l = 1 /\ <<j>>[l] = j
          BY <5>1
        <5> QED
          BY <5>1, <5>2, <1>6
      <4>2. CASE i # Len(slabs) + 1
        <5>1. i \in 1 .. Len(slabs) /\ slabs'[i] = slabs[i]
          BY <4>2, <3>3, <3>4, <1>19
        <5> QED
          BY <5>1, <2>0
      <4> QED
        BY <4>1, <4>2
    <3>7. \A x : x \in SlabBlocks' <=> x \in SlabBlocks \/ x = SlabBlock(Len(slabs) + 1)
      <4>1. \A x : x \in SlabBlocks' <=> \E i \in 2 .. Len(slabs) + 1 : x = SlabBlock(i)
        BY InRvBlocksNext, <3>3
      <4>2. 2 .. Len(slabs) + 1 = (2 .. Len(slabs)) \cup {Len(slabs) + 1}
        BY <1>1
      <4> QED
        BY <4>1, <4>2, InSlabBlocks
    <3>8. SlabBlock(Len(slabs) + 1) \notin SlabBlocks
      BY InSlabBlocks, BlocksApart, <1>1
    <3> QED
      <4>1. Len(slabs') \in 1 .. MaxSlab + 1
        BY <3>2, <3>3, <1>19, <1>7
      <4>2. SlabBlocks' = SlabBlocks \cup {SlabBlock(Len(slabs) + 1)}
        BY <3>7
      <4>3. SlabBlocks' \ SlabBlocks = {SlabBlock(Len(slabs) + 1)}
        BY <3>8, <4>2, Zenon
      <4>4. heap' = heap \cup (SlabBlocks' \ SlabBlocks) /\ SlabBlocks \subseteq SlabBlocks'
        BY <3>1, <4>2, <4>3, Zenon
      <4> QED
        BY <3>3, <3>5, <3>6, <4>1, <4>4, Zenon
  <2>2. CASE ~SlabIsFull
    <3> DEFINE num == Len(slabs)
    <3>1. slabs' = [slabs EXCEPT ![num] = Append(slabs[num], j)] /\ heap' = heap
      BY <1>1, <2>2 DEF Scanned
    <3>2. num \in DOMAIN slabs /\ slabs[num] \in Seq(Nat)
      BY <1>1
    <3>3. Append(slabs[num], j) \in Seq(Nat) /\ Len(Append(slabs[num], j)) = Len(slabs[num]) + 1
      BY <3>2, <1>6
    <3>4. slabs' \in Seq(Seq(Nat)) /\ Len(slabs') = num
      BY <3>1, <3>2, <3>3, <1>1
    <3>5. slabs'[num] = Append(slabs[num], j) /\ \A i \in 1 .. num : i # num => slabs'[i] = slabs[i]
      BY <3>1, <3>2, <1>1
    <3>6. \A i \in 1 .. Len(slabs') - 1 : Len(slabs'[i]) = SlabSize(i)
      <4> SUFFICES ASSUME NEW i \in 1 .. num - 1 PROVE Len(slabs'[i]) = SlabSize(i)
        BY <3>4
      <4>1. i \in 1 .. num /\ i # num
        BY <1>19
      <4> QED
        BY <4>1, <3>5, <2>0
    <3>7. \A i \in 1 .. Len(slabs') : \A l \in 1 .. Len(slabs'[i]) : slabs'[i][l] \in DOMAIN input'
      <4> SUFFICES ASSUME NEW i \in 1 .. Len(slabs'), NEW l \in 1 .. Len(slabs'[i])
                   PROVE  slabs'[i][l] \in DOMAIN input'
        OBVIOUS
      <4>1. CASE i = num
        BY <4>1, <3>2, <3>3, <3>5, <1>6, <2>0, SMTT(30)
      <4>2. CASE i # num
        BY <4>2, <3>4, <3>5, <2>0
      <4> QED
        BY <4>1, <4>2
    <3>8. SlabBlocks' = SlabBlocks
      BY <3>4 DEF SlabBlocks
    <3> QED
      BY <3>1, <3>4, <3>6, <3>7, <3>8, <1>1
  <2> QED
    BY <2>1, <2>2
<1>11. Unparsed' /\ phase' = "scan" /\ \A i \in Fields' : rv'[i].room = 0
  BY <1>1, <1>5, <1>8, <1>9 DEF Unparsed, Fields
<1>12. heap' = (MessageBlocks(rv) \cup SlabBlocks)'
  <2>1. \A x : RvHolds(x) <=> x = MessageBlock
    BY <1>8, <1>1, HoldsArrays
  <2>2. \A x : RvHolds(x)' <=> x = MessageBlock
    BY <1>11, HoldsArraysNext DEF MessageBlock
  <2>3. MessageBlocks(rv)' = MessageBlocks(rv)
    BY <2>1, <2>2, InRvBlocks, InRvBlocksNext
  <2>4. heap = MessageBlocks(rv) \cup SlabBlocks
    BY <1>1 DEF Inv, HeapOK
  <2> QED
    BY <2>3, <2>4, <1>10
<1>13. HeapOK'
  BY <1>11, <1>12 DEF HeapOK
<1>14. Tags'
  BY <1>1, <1>2, <1>3, <1>5, <1>6 DEF Inv, Tags
<1>15. Sources'
  <2>1. \A i \in Fields' : DOMAIN rv'[i].elements = {} /\ rv'[i].value = 0
    BY <1>11 DEF Unparsed
  <2>2. DOMAIN unknown_fields' = {}
    BY <1>11 DEF Unparsed
  <2> QED
    BY <2>1, <2>2 DEF Sources
<1>16. SlabsOK'
  BY <1>5, <1>10 DEF Inv, SlabsOK
<1>17. Stages'
  <2>1. \A i \in Fields' : desc'[i].label # "repeated" => rv'[i].n = 0 /\ rv'[i].room = 0
    BY <1>1, <1>5, <1>9 DEF Inv, Stages, Fields
  <2> QED
    BY <2>1, <1>5, <1>8, <1>11 DEF Stages
<1>18. TypeOK'
  <2>1. required_fields_bitmap' \in [0 .. BitmapSize - 1 -> SUBSET (0 .. WordBits - 1)]
    BY <1>1, <1>2, RecordTyped DEF Inv, TypeOK, Scanned
  <2>2. last_field' \in Nat /\ n_unknown' \in Nat
    BY <1>1, <1>2, <1>4 DEF Inv, TypeOK, Scanned
  <2>3. heap' \subseteq Blocks
    <3>1. \A i \in 2 .. Len(slabs') : i \in Nat
      OBVIOUS
    <3>2. SlabBlocks' \subseteq Blocks
      BY <3>1, InRvBlocksNext, BlocksAre
    <3>3. heap \subseteq Blocks
      BY DEF Inv, TypeOK
    <3> QED
      BY <3>2, <3>3, <1>10
  <2>4. rv' \in [Fields' -> Slot]
    BY <1>5, <1>9 DEF Fields
  <2>5. phase \in Phases /\ f \in Nat /\ next \in Nat \X Nat /\ unknown_fields \in Seq(Nat) /\ wild \in BOOLEAN
    BY DEF Inv, TypeOK
  <2> QED
    BY <2>1, <2>2, <2>3, <2>4, <2>5, <1>1, <1>5, <1>6, <1>10 DEF TypeOK
<1> QED
  BY <1>5, <1>13, <1>14, <1>15, <1>16, <1>17, <1>18 DEF Inv

LEMMA ScanFailsStep ==
  ASSUME Inv, ScanFails
  PROVE  Inv'
<1>1. phase = "scan" /\ phase' = "failed" /\ Free({MessageBlock} \cup SlabBlocks)
  BY DEF ScanFails, FailScan
<1>2. UNCHANGED <<desc, input, required_fields_bitmap, last_field, slabs, n_unknown, f,
                  next, rv, unknown_fields>>
  BY DEF ScanFails, FailScan
<1>3. Unparsed /\ \A i \in Fields : rv[i].room = 0
  BY <1>1 DEF Inv, Stages
<1>4. \A x : RvHolds(x) <=> x = MessageBlock
  <2>1. DOMAIN desc \subseteq Nat /\ \A i \in Fields : ~(rv[i].room > 0)
    BY <1>3, DescIs DEF Inv, TypeOK, Fields
  <2> QED
    BY <1>1, <1>3, <2>1, HoldsArrays
<1>5. heap = {MessageBlock} \cup SlabBlocks
  <2>1. heap = MessageBlocks(rv) \cup SlabBlocks
    BY <1>1 DEF Inv, HeapOK
  <2> QED
    BY <2>1, <1>4, InRvBlocks
<1>6. heap' = {} /\ wild' = FALSE
  BY <1>1, <1>5 DEF Free, Inv
<1>7. Tags' /\ SlabsOK'
  BY <1>2 DEF Inv, Tags, SlabsOK
<1>8. Sources' /\ Stages' /\ HeapOK'
  BY <1>1, <1>6 DEF Sources, Stages, HeapOK
<1>9. TypeOK'
  BY <1>1, <1>2, <1>6 DEF Inv, TypeOK, Fields, Phases
<1> QED
  BY <1>6, <1>7, <1>8, <1>9 DEF Inv

LEMMA EndOfInputStep ==
  ASSUME Inv, EndOfInput
  PROVE  Inv'
<1>1. phase = "scan" /\ phase' = "fields" /\ f' = 1
  BY DEF EndOfInput
<1>2. UNCHANGED <<desc, input, required_fields_bitmap, last_field, slabs, n_unknown,
                  next, rv, unknown_fields, heap, wild>>
  BY DEF EndOfInput
<1>3. Unparsed /\ Unparsed' /\ \A i \in Fields : rv[i].room = 0
  BY <1>1, <1>2 DEF Inv, Stages, Unparsed, Fields
<1>4. \A x : RvHolds(x)' <=> RvHolds(x)
  <2>1. \A x : RvHolds(x)' <=>
      \/ \E k \in Fields : /\ desc[k].label = "repeated" /\ rv[k].room > 0
                           /\ x = ArrayBlock(k)
      \/ x = MessageBlock
    BY <1>1, <1>2, <1>3, HoldsArraysNext DEF Fields, ArrayBlock, MessageBlock
  <2> QED
    BY <1>1, <1>3, <2>1, HoldsArrays
<1>5. heap = MessageBlocks(rv) \cup SlabBlocks
  BY <1>1 DEF Inv, HeapOK
<1>6. (heap = MessageBlocks(rv) \cup SlabBlocks)'
  <2>1. SlabBlocks' = SlabBlocks
    BY <1>2 DEF SlabBlocks
  <2>2. MessageBlocks(rv)' = MessageBlocks(rv)
    BY <1>4, InRvBlocks, InRvBlocksNext
  <2> QED
    BY <1>2, <1>5, <2>1, <2>2
<1>7. Tags' /\ SlabsOK' /\ Sources'
  BY <1>1, <1>2 DEF Inv, Tags, SlabsOK, Sources, Fields, Given
<1>8. HeapOK'
  BY <1>1, <1>6 DEF HeapOK
<1>9. Stages'
  <2>1. Len(desc) \in Nat /\ Fields = 1 .. Len(desc)
    BY DescIs DEF Inv, TypeOK
  <2>2. \A k \in Fields : ~(k < 1)
    BY <2>1
  <2>3. f' \in 1 .. Len(desc') + 1
    BY <2>1, <1>1, <1>2
  <2>4. Fields' = Fields
    BY <1>2 DEF Fields
  <2>5. \A k \in Fields' : desc'[k].label # "repeated" => rv'[k].n = 0 /\ rv'[k].room = 0
    BY <2>4, <1>1, <1>2 DEF Inv, Stages
  <2>6. \A k \in Fields' : IF k < f' THEN rv'[k].n = 0 ELSE rv'[k].room = 0
    BY <2>2, <2>4, <1>1, <1>2, <1>3
  <2> QED
    BY <2>3, <2>5, <2>6, <1>1, <1>3 DEF Stages
<1>10. TypeOK'
  BY <1>1, <1>2 DEF Inv, TypeOK, Fields, Phases
<1> QED
  BY <1>2, <1>7, <1>8, <1>9, <1>10 DEF Inv
-----------------------------------------------------------------------------
(* Ways out.  What a half-built message is freed as, with what is gone     *)
(* already, has to be what it holds, no more and no less.                  *)

LEMMA FailClears ==
  ASSUME Inv, NEW message, NEW gone, FailWith(message, gone),
         phase \in {"fields", "parse"},
         message \in [Fields -> Slot],
         ~ReadsTooFar(message),
         gone \cup MessageBlocks(message) = MessageBlocks(rv),
         gone \cap MessageBlocks(message) = {}
  PROVE  Inv'
<1>1. phase' = "failed" /\ rv' = message /\ free_unpacked(message, gone)
  BY DEF FailWith
<1>2. UNCHANGED <<desc, input, required_fields_bitmap, last_field, slabs, n_unknown,
                  f, next, unknown_fields>>
  BY DEF FailWith
<1>3. heap = MessageBlocks(rv) \cup SlabBlocks
  BY DEF Inv, HeapOK
<1>4. MessageBlocks(rv) \cap SlabBlocks = {}
  BY InRvBlocks, InSlabBlocks, SlabsApart
<1>5. MessageBlocks(message) \cup SlabBlocks \subseteq heap \ gone /\ gone \subseteq heap
  BY <1>3, <1>4
<1>6. heap' = {} /\ wild' = FALSE
  BY <1>1, <1>3, <1>5 DEF free_unpacked, Inv
<1>7. Tags' /\ SlabsOK'
  BY <1>2 DEF Inv, Tags, SlabsOK
<1>8. Sources' /\ Stages' /\ HeapOK'
  BY <1>1, <1>6 DEF Sources, Stages, HeapOK
<1>9. TypeOK'
  BY <1>1, <1>2, <1>6 DEF Inv, TypeOK, Fields, Phases
<1> QED
  BY <1>6, <1>7, <1>8, <1>9 DEF Inv

\* Most errors free the message as it stands.
LEMMA FailAsItStands ==
  ASSUME Inv, FailWith(rv, {}), phase \in {"fields", "parse"}, ~ReadsTooFar(rv)
  PROVE  Inv'
<1>1. rv \in [Fields -> Slot]
  BY DEF Inv, TypeOK
<1>2. {} \cup MessageBlocks(rv) = MessageBlocks(rv) /\ {} \cap MessageBlocks(rv) = {}
  OBVIOUS
<1> QED
  BY <1>1, <1>2, FailClears
-----------------------------------------------------------------------------
(* Second pass.                                                            *)

LEMMA FieldSucceedsStep ==
  ASSUME Inv, FieldSucceeds
  PROVE  Inv'
<1>1. /\ phase = "fields" /\ f <= Len(desc) /\ f' = f + 1
      /\ rv' = IF NeedsArray(f) THEN [rv EXCEPT ![f].room = rv[f].n, ![f].n = 0] ELSE rv
      /\ heap' = IF NeedsArray(f) THEN heap \cup {ArrayBlock(f)} ELSE heap
  BY DEF FieldSucceeds
<1>2. UNCHANGED <<desc, input, phase, required_fields_bitmap, last_field, slabs,
                  n_unknown, next, unknown_fields, wild>>
  BY DEF FieldSucceeds
<1>3. /\ Fields = 1 .. Len(desc) /\ Len(desc) \in Nat /\ Fields' = Fields
      /\ rv \in [Fields -> Slot] /\ f \in Nat
  BY <1>2, DescIs DEF Inv, TypeOK, Fields
<1>4. /\ Unparsed /\ f \in 1 .. Len(desc) + 1
      /\ \A k \in Fields : IF k < f THEN rv[k].n = 0 ELSE rv[k].room = 0
      /\ \A k \in Fields : desc[k].label # "repeated" => rv[k].n = 0 /\ rv[k].room = 0
  BY <1>1 DEF Inv, Stages
<1>5. f \in Fields /\ rv[f] \in Slot /\ rv[f].n \in Nat /\ rv[f].room = 0
  <2>1. f \in Fields
    BY <1>1, <1>3, <1>4
  <2>2. ~(f < f)
    BY <1>3
  <2> QED
    BY <2>1, <2>2, <1>3, <1>4 DEF Slot
<1>6. /\ rv' \in [Fields -> Slot]
      /\ \A i \in Fields : /\ rv'[i].elements = rv[i].elements /\ rv'[i].value = rv[i].value
                           /\ i # f => rv'[i] = rv[i]
      /\ NeedsArray(f) => rv'[f].room = rv[f].n /\ rv'[f].n = 0
      /\ ~NeedsArray(f) => rv' = rv
  <2>1. CASE NeedsArray(f)
    <3> DEFINE s == [rv[f] EXCEPT !.room = rv[f].n, !.n = 0]
    <3>1. rv' = [rv EXCEPT ![f] = s]
      BY <1>1, <2>1
    <3>2. s \in Slot
      BY <1>5, Zenon DEF Slot
    <3>3. s.elements = rv[f].elements /\ s.value = rv[f].value /\ s.room = rv[f].n /\ s.n = 0
      BY <1>5 DEF Slot
    <3> HIDE DEF s
    <3> QED
      BY <2>1, <3>1, <3>2, <3>3, <1>3, <1>5
  <2>2. CASE ~NeedsArray(f)
    BY <2>2, <1>1, <1>3
  <2> QED
    BY <2>1, <2>2
<1>7. Unparsed'
  BY <1>2, <1>3, <1>4, <1>6 DEF Unparsed
<1>8. \A x : RvHolds(x)' <=> RvHolds(x) \/ (NeedsArray(f) /\ x = ArrayBlock(f))
  <2>1. \A x : RvHolds(x)' <=>
      \/ \E k \in Fields : /\ desc[k].label = "repeated" /\ rv'[k].room > 0
                           /\ x = ArrayBlock(k)
      \/ x = MessageBlock
    BY <1>1, <1>2, <1>3, <1>7, HoldsArraysNext DEF ArrayBlock, MessageBlock
  <2>2. \A x : RvHolds(x) <=>
      \/ \E k \in Fields : /\ desc[k].label = "repeated" /\ rv[k].room > 0
                           /\ x = ArrayBlock(k)
      \/ x = MessageBlock
    BY <1>1, <1>4, HoldsArrays
  <2>3. \A k \in Fields : (desc[k].label = "repeated" /\ rv'[k].room > 0) <=>
                            \/ desc[k].label = "repeated" /\ rv[k].room > 0
                            \/ k = f /\ NeedsArray(f)
    <3> SUFFICES ASSUME NEW k \in Fields
                 PROVE  (desc[k].label = "repeated" /\ rv'[k].room > 0) <=>
                            \/ desc[k].label = "repeated" /\ rv[k].room > 0
                            \/ k = f /\ NeedsArray(f)
      OBVIOUS
    <3>1. CASE k # f
      BY <3>1, <1>6
    <3>2. CASE k = f
      BY <3>2, <1>5, <1>6 DEF NeedsArray
    <3> QED
      BY <3>1, <3>2
  <2> HIDE DEF RvHolds
  <2> QED
    BY <2>1, <2>2, <2>3, <1>5, Zenon
<1>9. (heap = MessageBlocks(rv) \cup SlabBlocks)'
  <2>1. heap = MessageBlocks(rv) \cup SlabBlocks
    BY <1>1 DEF Inv, HeapOK
  <2>2. SlabBlocks' = SlabBlocks
    BY <1>2 DEF SlabBlocks
  <2>3. \A x : x \in MessageBlocks(rv)' <=> x \in MessageBlocks(rv) \/ (NeedsArray(f) /\ x = ArrayBlock(f))
    BY <1>8, InRvBlocks, InRvBlocksNext
  <2>4. \A x : x \in heap' <=> x \in heap \/ (NeedsArray(f) /\ x = ArrayBlock(f))
    BY <1>1
  <2> QED
    BY <2>1, <2>2, <2>3, <2>4
<1>10. HeapOK'
  BY <1>1, <1>2, <1>9 DEF HeapOK
<1>11. Tags' /\ SlabsOK'
  BY <1>2 DEF Inv, Tags, SlabsOK
<1>12. Sources'
  <2>1. \A i \in Fields' : DOMAIN rv'[i].elements = {} /\ rv'[i].value = 0
    BY <1>7 DEF Unparsed
  <2>2. DOMAIN unknown_fields' = {}
    BY <1>7 DEF Unparsed
  <2> QED
    BY <2>1, <2>2 DEF Sources
<1>13. Stages'
  <2>1. \A k \in Fields : desc[k].label # "repeated" => rv'[k].n = 0 /\ rv'[k].room = 0
    <3> SUFFICES ASSUME NEW k \in Fields, desc[k].label # "repeated"
                 PROVE  rv'[k].n = 0 /\ rv'[k].room = 0
      OBVIOUS
    <3>1. CASE k = f
      <4>1. ~NeedsArray(f)
        BY <3>1 DEF NeedsArray
      <4> QED
        BY <4>1, <1>4, <1>6
    <3>2. CASE k # f
      BY <3>2, <1>4, <1>6
    <3> QED
      BY <3>1, <3>2
  <2>2. \A k \in Fields : IF k < f + 1 THEN rv'[k].n = 0 ELSE rv'[k].room = 0
    <3> SUFFICES ASSUME NEW k \in Fields
                 PROVE  IF k < f + 1 THEN rv'[k].n = 0 ELSE rv'[k].room = 0
      OBVIOUS
    <3>1. CASE k = f
      <4>1. k < f + 1
        BY <3>1, <1>3
      <4>2. rv'[f].n = 0
        <5>1. CASE NeedsArray(f)
          BY <5>1, <1>6
        <5>2. CASE ~NeedsArray(f)
          BY <5>2, <1>4, <1>5, <1>6 DEF NeedsArray
        <5> QED
          BY <5>1, <5>2
      <4> QED
        BY <3>1, <4>1, <4>2
    <3>2. CASE k # f
      <4>1. k < f + 1 <=> k < f
        BY <3>2, <1>3
      <4>2. rv'[k] = rv[k]
        BY <3>2, <1>6
      <4> QED
        BY <4>1, <4>2, <1>4
    <3> QED
      BY <3>1, <3>2
  <2>3. f + 1 \in 1 .. Len(desc) + 1
    BY <1>1, <1>3, <1>4
  <2> QED
    BY <2>1, <2>2, <2>3, <1>1, <1>2, <1>3, <1>7 DEF Stages
<1>14. TypeOK'
  <2>1. heap' \subseteq Blocks
    <3>1. heap \subseteq Blocks /\ ArrayBlock(f) \in Blocks
      BY <1>3, BlocksAre DEF Inv, TypeOK
    <3> QED
      BY <3>1, <1>1
  <2> QED
    BY <2>1, <1>1, <1>2, <1>3, <1>6 DEF Inv, TypeOK
<1> QED
  BY <1>2, <1>10, <1>11, <1>12, <1>13, <1>14 DEF Inv

\* Clearing counters does not change what is owned.
LEMMA FieldFailsStep ==
  ASSUME Inv, FieldFails
  PROVE  Inv'
<1> DEFINE c == ClearRemaining(f)
<1>1. phase = "fields" /\ f <= Len(desc) /\ FailWith(c, {})
  BY DEF FieldFails
<1>2. rv \in [Fields -> Slot]
  BY DEF Inv, TypeOK
<1>3. /\ Unparsed
      /\ \A k \in Fields : IF k < f THEN rv[k].n = 0 ELSE rv[k].room = 0
  BY <1>1 DEF Inv, Stages
<1>4. c \in [Fields -> Slot] /\ \A k \in Fields : /\ c[k].elements = rv[k].elements
                                                  /\ c[k].room = rv[k].room
                                                  /\ c[k].value = rv[k].value
                                                  /\ c[k].n = 0
  <2>1. DOMAIN c = Fields
    BY DEF ClearRemaining
  <2>2. ASSUME NEW k \in Fields
        PROVE  /\ c[k] \in Slot /\ c[k].elements = rv[k].elements
               /\ c[k].room = rv[k].room /\ c[k].value = rv[k].value /\ c[k].n = 0
    <3>1. c[k] = IF k >= f THEN [rv[k] EXCEPT !.n = 0] ELSE rv[k]
      BY DEF ClearRemaining
    <3>2. rv[k] \in Slot
      BY <1>2
    <3>3. CASE k >= f
      <4>1. [rv[k] EXCEPT !.n = 0] \in Slot
        BY <3>2, Zenon DEF Slot
      <4> QED
        BY <3>1, <3>2, <3>3, <4>1 DEF Slot
    <3>4. CASE ~(k >= f)
      <4>1. k < f
        BY <3>4, DescIs DEF Inv, TypeOK
      <4> QED
        BY <3>1, <3>2, <3>4, <4>1, <1>3
    <3> QED
      BY <3>3, <3>4
  <2>3. c = [k \in Fields |-> c[k]]
    BY DEF ClearRemaining
  <2> HIDE DEF c
  <2> QED
    BY <2>1, <2>2, <2>3
<1> HIDE DEF c
<1>5. \A x : x \in MessageBlocks(c) <=> x \in MessageBlocks(rv)
  <2>1. \A x : \A k \in Fields : HasBlock(c, k, x) <=> HasBlock(rv, k, x)
    BY <1>4, Zenon DEF HasBlock
  <2> QED
    BY <2>1, InMessageBlocks, Zenon
<1>6. {} \cup MessageBlocks(c) = MessageBlocks(rv) /\ {} \cap MessageBlocks(c) = {}
  BY <1>5
<1>7. ~ReadsTooFar(c)
  <2>1. \A k \in Fields : Len(c[k].elements) = 0 /\ c[k].n = 0
    BY <1>3, <1>4 DEF Unparsed
  <2> QED
    BY <2>1 DEF ReadsTooFar
<1> QED
  BY <1>1, <1>4, <1>6, <1>7, FailClears

LEMMA AllocateUnknownFailsStep ==
  ASSUME Inv, AllocateUnknownFails
  PROVE  Inv'
<1>1. phase = "fields" /\ f > Len(desc) /\ FailWith(rv, {})
  BY DEF AllocateUnknownFails
<1>2. Fields = 1 .. Len(desc) /\ Len(desc) \in Nat /\ f \in Nat
  BY DescIs DEF Inv, TypeOK
<1>3. \A k \in Fields : k < f
  BY <1>1, <1>2
<1>4. ~ReadsTooFar(rv)
  <2>1. \A k \in Fields : Len(rv[k].elements) = 0 /\ rv[k].n = 0
    BY <1>1, <1>3 DEF Inv, Stages, Unparsed
  <2> QED
    BY <2>1 DEF ReadsTooFar
<1> QED
  BY <1>1, <1>4, FailAsItStands

LEMMA AllocateUnknownStep ==
  ASSUME Inv, AllocateUnknown
  PROVE  Inv'
<1>1. /\ phase = "fields" /\ f > Len(desc) /\ phase' = "parse"
      /\ heap' = IF n_unknown > 0 THEN heap \cup {UnknownBlock} ELSE heap
  BY DEF AllocateUnknown
<1>2. UNCHANGED <<desc, input, required_fields_bitmap, last_field, slabs, n_unknown,
                  f, next, rv, unknown_fields, wild>>
  BY DEF AllocateUnknown
<1>3. Fields = 1 .. Len(desc) /\ Len(desc) \in Nat /\ f \in Nat /\ Fields' = Fields
  BY <1>2, DescIs DEF Inv, TypeOK, Fields
<1>4. /\ Unparsed /\ f \in 1 .. Len(desc) + 1
      /\ \A k \in Fields : IF k < f THEN rv[k].n = 0 ELSE rv[k].room = 0
      /\ \A k \in Fields : desc[k].label # "repeated" => rv[k].n = 0 /\ rv[k].room = 0
  BY <1>1 DEF Inv, Stages
<1>5. \A x : RvHolds(x)' <=> RvHolds(x) \/ (n_unknown > 0 /\ x = UnknownBlock)
  <2>1. \A x : \A k \in Fields : HasBlock(rv, k, x)' <=> HasBlock(rv, k, x)
    BY <1>2 DEF HasBlock, ValueBlock, ArrayBlock, Owns
  <2>2. ~Holding /\ (Holding' <=> n_unknown > 0)
    BY <1>1, <1>2 DEF Holding
  <2>3. \A x : RvHolds(x)' <=>
           \/ \E k \in Fields : HasBlock(rv, k, x)'
           \/ \E i \in DOMAIN unknown_fields : x = ValueBlock(unknown_fields[i])
           \/ Holding' /\ x = UnknownBlock
           \/ x = MessageBlock
    BY <1>2, <1>3 DEF RvHolds, ValueBlock, UnknownBlock, MessageBlock
  <2> QED
    BY <2>1, <2>2, <2>3, Zenon DEF RvHolds
<1>6. HeapOK'
  <2>1. heap = MessageBlocks(rv) \cup SlabBlocks
    BY <1>1 DEF Inv, HeapOK
  <2>2. SlabBlocks' = SlabBlocks
    BY <1>2 DEF SlabBlocks
  <2>3. \A x : x \in MessageBlocks(rv)' <=> x \in MessageBlocks(rv) \/ (n_unknown > 0 /\ x = UnknownBlock)
    BY <1>5, InRvBlocks, InRvBlocksNext
  <2>4. \A x : x \in heap' <=> x \in heap \/ (n_unknown > 0 /\ x = UnknownBlock)
    BY <1>1
  <2>5. (heap = MessageBlocks(rv) \cup SlabBlocks)'
    BY <2>1, <2>2, <2>3, <2>4
  <2> QED
    BY <1>1, <2>5 DEF HeapOK
<1>7. Tags' /\ SlabsOK'
  BY <1>2 DEF Inv, Tags, SlabsOK
<1>8. Sources'
  <2>1. Unparsed'
    BY <1>2, <1>3, <1>4 DEF Unparsed
  <2>2. \A i \in Fields' : DOMAIN rv'[i].elements = {} /\ rv'[i].value = 0
    BY <2>1 DEF Unparsed
  <2>3. DOMAIN unknown_fields' = {}
    BY <2>1 DEF Unparsed
  <2> QED
    BY <2>2, <2>3 DEF Sources
<1>9. Stages'
  <2>1. f = Len(desc) + 1
    BY <1>1, <1>3, <1>4
  <2>2. \A k \in Fields : k < f
    BY <2>1, <1>3
  <2>3. \A k \in Fields : rv[k].n = 0 /\ Len(rv[k].elements) = 0
    BY <2>2, <1>4 DEF Unparsed
  <2> QED
    BY <2>1, <2>3, <1>1, <1>2, <1>3, <1>4 DEF Stages
<1>10. TypeOK'
  <2>1. heap' \subseteq Blocks
    <3>1. heap \subseteq Blocks /\ UnknownBlock \in Blocks
      BY <1>3, BlocksAre DEF Inv, TypeOK
    <3> QED
      BY <3>1, <1>1
  <2> QED
    BY <2>1, <1>1, <1>2, <1>3 DEF Inv, TypeOK, Phases
<1> QED
  BY <1>2, <1>6, <1>7, <1>8, <1>9, <1>10 DEF Inv
-----------------------------------------------------------------------------
(* Third pass.                                                             *)

LEMMA AtIs ==
  ASSUME Inv, ~AtEnd
  PROVE  /\ next[1] \in 1 .. Len(slabs) /\ next[2] \in 1 .. Len(slabs[next[1]])
         /\ SlabMax(next[1]) = Len(slabs[next[1]])
         /\ At \in DOMAIN input /\ At \in Nat /\ input[At] \in Member
         /\ input[At].tag \in 0 .. Len(desc)
         /\ input[At].tag # 0 => input[At].tag \in Fields
<1>1. next \in Nat \X Nat /\ slabs \in Seq(Seq(Nat)) /\ input \in Seq(Member) /\ desc \in Descriptors
  BY DEF Inv, TypeOK
<1>2. next[1] \in Nat /\ next[2] \in Nat /\ next[1] > 0 /\ next[2] > 0 /\ Len(slabs) \in Nat
  BY <1>1 DEF Inv, SlabsOK
<1>3. ~(next[1] > Len(slabs)) /\ ~(next[2] > SlabMax(next[1]))
  BY DEF AtEnd
<1>4. next[1] \in 1 .. Len(slabs)
  BY <1>2, <1>3
<1>5. SlabMax(next[1]) = Len(slabs[next[1]])
  <2>1. CASE next[1] = Len(slabs)
    BY <2>1 DEF SlabMax
  <2>2. CASE next[1] # Len(slabs)
    <3>1. next[1] \in 1 .. Len(slabs) - 1
      BY <1>4, <2>2, <1>2
    <3> QED
      BY <2>2, <3>1 DEF SlabMax, Inv, SlabsOK
  <2> QED
    BY <2>1, <2>2
<1>6. Len(slabs[next[1]]) \in Nat
  BY <1>1, <1>4
<1>7. next[2] \in 1 .. Len(slabs[next[1]])
  BY <1>2, <1>3, <1>5, <1>6
<1>8. At \in DOMAIN input
  BY <1>4, <1>7 DEF At, Inv, SlabsOK
<1>9. At \in Nat /\ input[At] \in Member
  BY <1>1, <1>8
<1>10. input[At].tag \in 0 .. Len(desc)
  BY <1>8 DEF Inv, Tags
<1>11. input[At].tag # 0 => input[At].tag \in Fields
  BY <1>1, <1>10, DescIs
<1> QED
  BY <1>4, <1>5, <1>7, <1>8, <1>9, <1>10, <1>11

LEMMA NextPlaceIs ==
  ASSUME Inv
  PROVE  NextPlace(next) \in Nat \X Nat /\ NextPlace(next)[1] > 0 /\ NextPlace(next)[2] > 0
<1>1. next \in Nat \X Nat /\ next[1] > 0 /\ next[2] > 0
  BY DEF Inv, TypeOK, SlabsOK
<1> QED
  BY <1>1 DEF NextPlace

\* What the message holds outside field k.
Others(k, x) ==
  \/ \E i \in Fields : i # k /\ HasBlock(rv, i, x)
  \/ \E i \in DOMAIN unknown_fields : x = ValueBlock(unknown_fields[i])
  \/ Holding /\ x = UnknownBlock
  \/ x = MessageBlock

LEMMA HoldsOthers ==
  \A k \in Fields : \A x : RvHolds(x) <=> HasBlock(rv, k, x) \/ Others(k, x)
BY Zenon DEF RvHolds, Others

LEMMA HoldsOthersNext ==
  (\A k \in Fields : \A x : RvHolds(x) <=> HasBlock(rv, k, x) \/ Others(k, x))'
BY HoldsOthers, PTL

\* What the value of a field that is not repeated owns is nowhere else.
LEMMA ValueApart ==
  ASSUME Inv, phase \notin {"failed", "freed"}, NEW k \in Fields,
         desc[k].label # "repeated", NEW x, HasBlock(rv, k, x)
  PROVE  ~Others(k, x)
<1>1. /\ rv[k].value # 0 /\ x = ValueBlock(rv[k].value) /\ rv[k].value \in Given(k)
  BY DEF HasBlock, Inv, Sources
<1>2. k # 0
  BY DescIs DEF Inv, TypeOK
<1>3. \A i : i # k => rv[k].value \notin Given(i)
  BY <1>1 DEF Given
<1>4. ASSUME NEW i \in Fields, i # k PROVE ~HasBlock(rv, i, x)
  <2>1. \A l \in DOMAIN rv[i].elements : rv[i].elements[l][1] \in Given(i)
    BY DEF Inv, Sources
  <2>2. rv[i].value # 0 => rv[i].value \in Given(i)
    BY DEF Inv, Sources
  <2>3. rv[k].value \notin Given(i)
    BY <1>3, <1>4
  <2>4. x # ArrayBlock(i)
    BY <1>1, BlocksApart
  <2>5. \A l : x = ValueBlock(l) => l = rv[k].value
    BY <1>1, BlocksApart
  <2> QED
    BY <2>1, <2>2, <2>3, <2>4, <2>5, Zenon DEF HasBlock
<1>5. ASSUME NEW i \in DOMAIN unknown_fields PROVE x # ValueBlock(unknown_fields[i])
  <2>1. unknown_fields[i] \in Given(0)
    BY DEF Inv, Sources
  <2> QED
    BY <2>1, <1>1, <1>2, <1>3, BlocksApart
<1>6. x # UnknownBlock /\ x # MessageBlock
  BY <1>1, BlocksApart
<1> QED
  BY <1>4, <1>5, <1>6, Zenon DEF Others

\* What is left to show of a member that was parsed.
LEMMA ParseKeeps ==
  ASSUME Inv, phase = "parse", ~AtEnd, next' = NextPlace(next),
         UNCHANGED <<desc, input, phase, required_fields_bitmap, last_field, slabs,
                     n_unknown, f>>,
         rv' \in [Fields -> Slot], unknown_fields' \in Seq(Nat), wild' = FALSE, Sources',
         \A i \in Fields : /\ rv'[i].n = Len(rv'[i].elements)
                           /\ desc[i].label # "repeated" => rv'[i].n = 0 /\ rv'[i].room = 0,
         heap' \subseteq heap \cup {ValueBlock(At)},
         \A x : x \in heap' <=> RvHolds(x)' \/ x \in SlabBlocks
  PROVE  Inv'
<1>1. Fields' = Fields /\ SlabBlocks' = SlabBlocks /\ phase' = "parse"
  BY DEF Fields, SlabBlocks
<1>2. Tags'
  BY DEF Inv, Tags
<1>3. next' \in Nat \X Nat /\ next'[1] > 0 /\ next'[2] > 0
  BY NextPlaceIs
<1>4. SlabsOK'
  BY <1>3 DEF Inv, SlabsOK
<1>5. f = Len(desc) + 1
  BY DEF Inv, Stages
<1>6. Stages'
  BY <1>1, <1>5 DEF Stages
<1>7. HeapOK'
  <2>1. (heap = MessageBlocks(rv) \cup SlabBlocks)'
    BY <1>1, InRvBlocksNext
  <2> QED
    BY <1>1, <2>1 DEF HeapOK
<1>8. TypeOK'
  <2>1. heap' \subseteq Blocks
    <3>1. heap \subseteq Blocks /\ At \in Nat
      BY AtIs DEF Inv, TypeOK
    <3>2. ValueBlock(At) \in Blocks
      BY <3>1, BlocksAre
    <3> QED
      BY <3>1, <3>2
  <2> QED
    BY <2>1, <1>1, <1>3 DEF Inv, TypeOK
<1> QED
  BY <1>2, <1>4, <1>6, <1>7, <1>8 DEF Inv

LEMMA ParsedBefore ==
  ASSUME Inv, phase = "parse"
  PROVE  /\ rv \in [Fields -> Slot] /\ unknown_fields \in Seq(Nat) /\ wild = FALSE
         /\ \A i \in Fields : /\ rv[i] \in Slot /\ rv[i].n = Len(rv[i].elements)
                              /\ desc[i].label # "repeated" => rv[i].n = 0 /\ rv[i].room = 0
         /\ \A i \in Fields : \A l \in DOMAIN rv[i].elements : rv[i].elements[l][1] \in Given(i)
         /\ \A i \in Fields : rv[i].value # 0 => rv[i].value \in Given(i)
         /\ \A i \in DOMAIN unknown_fields : unknown_fields[i] \in Given(0)
         /\ \A x : x \in heap <=> RvHolds(x) \/ x \in SlabBlocks
<1>1. rv \in [Fields -> Slot] /\ unknown_fields \in Seq(Nat)
  BY DEF Inv, TypeOK
<1>2. wild = FALSE
  BY DEF Inv, TypeOK
<1>3. /\ \A i \in Fields : rv[i].n = Len(rv[i].elements)
      /\ \A i \in Fields : desc[i].label # "repeated" => rv[i].n = 0 /\ rv[i].room = 0
  BY DEF Inv, Stages
<1>4. /\ \A i \in Fields : \A l \in DOMAIN rv[i].elements : rv[i].elements[l][1] \in Given(i)
      /\ \A i \in Fields : rv[i].value # 0 => rv[i].value \in Given(i)
      /\ \A i \in DOMAIN unknown_fields : unknown_fields[i] \in Given(0)
  BY DEF Inv, Sources
<1>5. heap = MessageBlocks(rv) \cup SlabBlocks
  BY DEF Inv, HeapOK
<1>6. \A x : x \in heap <=> RvHolds(x) \/ x \in SlabBlocks
  BY <1>5, InRvBlocks
<1> QED
  BY <1>1, <1>2, <1>3, <1>4, <1>6

\* What the blocks outside a field depend on.
LEMMA SameOthers ==
  ASSUME UNCHANGED <<desc, input, phase, n_unknown, unknown_fields>>, NEW k \in Fields,
         \A i \in Fields : i # k => rv'[i] = rv[i]
  PROVE  \A x : Others(k, x)' <=> Others(k, x)
<1>1. Fields' = Fields /\ (Holding' <=> Holding)
  BY DEF Fields, Holding
<1>2. \A x : \A i \in Fields : i # k => (HasBlock(rv, i, x)' <=> HasBlock(rv, i, x))
  BY DEF HasBlock, ValueBlock, ArrayBlock, Owns
<1>3. \A x : Others(k, x)' <=>
           \/ \E i \in Fields : i # k /\ HasBlock(rv, i, x)'
           \/ \E i \in DOMAIN unknown_fields : x = ValueBlock(unknown_fields[i])
           \/ Holding' /\ x = UnknownBlock
           \/ x = MessageBlock
  BY <1>1 DEF Others, ValueBlock, UnknownBlock, MessageBlock
<1> QED
  BY <1>1, <1>2, <1>3, Zenon DEF Others

LEMMA ParseUnknownStep ==
  ASSUME Inv, phase = "parse", ~AtEnd, next' = NextPlace(next),
         UNCHANGED <<desc, input, phase, required_fields_bitmap, last_field, slabs,
                     n_unknown, f>>,
         input[At].tag = 0, ParseUnknown(At)
  PROVE  Inv'
<1> DEFINE j == At
<1>1. /\ unknown_fields' = Append(unknown_fields, j) /\ heap' = heap \cup {ValueBlock(j)}
      /\ rv' = rv /\ wild' = wild
  BY DEF ParseUnknown
<1>2. j \in DOMAIN input /\ j \in Nat /\ j \in Given(0)
  BY AtIs DEF Given
<1>3. /\ rv \in [Fields -> Slot] /\ unknown_fields \in Seq(Nat) /\ wild = FALSE
      /\ \A i \in Fields : rv[i].n = Len(rv[i].elements)
      /\ \A i \in Fields : desc[i].label # "repeated" => rv[i].n = 0 /\ rv[i].room = 0
  BY ParsedBefore
<1>4. /\ \A i \in Fields : \A l \in DOMAIN rv[i].elements : rv[i].elements[l][1] \in Given(i)
      /\ \A i \in Fields : rv[i].value # 0 => rv[i].value \in Given(i)
      /\ \A i \in DOMAIN unknown_fields : unknown_fields[i] \in Given(0)
  BY ParsedBefore
<1> HIDE DEF j
<1>5. /\ unknown_fields' \in Seq(Nat)
      /\ \A x : (\E i \in DOMAIN unknown_fields' : x = unknown_fields'[i]) <=>
                  (\E i \in DOMAIN unknown_fields : x = unknown_fields[i]) \/ x = j
  <2>1. unknown_fields' \in Seq(Nat) /\ Len(unknown_fields') = Len(unknown_fields) + 1
    BY <1>1, <1>2, <1>3
  <2>2. /\ DOMAIN unknown_fields' = 1 .. Len(unknown_fields) + 1
        /\ DOMAIN unknown_fields = 1 .. Len(unknown_fields) /\ Len(unknown_fields) \in Nat
    BY <2>1, <1>3
  <2>3. /\ \A i \in 1 .. Len(unknown_fields) : unknown_fields'[i] = unknown_fields[i]
        /\ unknown_fields'[Len(unknown_fields) + 1] = j
    BY <1>1, <1>2, <1>3
  <2>4. \A i : i \in 1 .. Len(unknown_fields) + 1 <=>
                 i \in 1 .. Len(unknown_fields) \/ i = Len(unknown_fields) + 1
    BY <2>2
  <2> QED
    BY <2>1, <2>2, <2>3, <2>4, Zenon
<1>6. Fields' = Fields /\ \A k : Given(k)' = Given(k)
  BY DEF Fields, Given
<1>7. Sources'
  <2>1. \A i \in DOMAIN unknown_fields' : unknown_fields'[i] \in Given(0)
    BY <1>2, <1>4, <1>5
  <2>2. \A i \in Fields' : \A l \in DOMAIN rv'[i].elements : rv'[i].elements[l][1] \in Given(i)'
    BY <1>1, <1>4, <1>6
  <2>3. \A i \in Fields' : rv'[i].value # 0 => rv'[i].value \in Given(i)'
    BY <1>1, <1>4, <1>6
  <2> QED
    BY <2>1, <2>2, <2>3, <1>6 DEF Sources
<1>8. \A x : RvHolds(x)' <=> RvHolds(x) \/ x = ValueBlock(j)
  <2>1. \A x : \A i \in Fields : HasBlock(rv, i, x)' <=> HasBlock(rv, i, x)
    BY <1>1 DEF HasBlock, ValueBlock, ArrayBlock, Owns
  <2>2. Holding' <=> Holding
    BY DEF Holding
  <2>3. \A x : RvHolds(x)' <=>
           \/ \E k \in Fields : HasBlock(rv, k, x)'
           \/ \E i \in DOMAIN unknown_fields' : x = ValueBlock(unknown_fields'[i])
           \/ Holding' /\ x = UnknownBlock
           \/ x = MessageBlock
    BY <1>6 DEF RvHolds, ValueBlock, UnknownBlock, MessageBlock
  <2>4. \A x : (\E i \in DOMAIN unknown_fields' : x = ValueBlock(unknown_fields'[i])) <=>
          (\E i \in DOMAIN unknown_fields : x = ValueBlock(unknown_fields[i])) \/ x = ValueBlock(j)
    BY <1>5, Zenon
  <2> QED
    BY <2>1, <2>2, <2>3, <2>4, Zenon DEF RvHolds
<1>9. \A x : x \in heap' <=> RvHolds(x)' \/ x \in SlabBlocks
  <2>1. \A x : x \in heap <=> RvHolds(x) \/ x \in SlabBlocks
    BY ParsedBefore
  <2> QED
    BY <2>1, <1>1, <1>8
<1>10. heap' \subseteq heap \cup {ValueBlock(At)} /\ wild' = FALSE /\ rv' \in [Fields -> Slot]
  BY <1>1, <1>3 DEF j
<1>11. \A i \in Fields : /\ rv'[i].n = Len(rv'[i].elements)
                         /\ desc[i].label # "repeated" => rv'[i].n = 0 /\ rv'[i].room = 0
  BY <1>1, <1>3
<1> QED
  BY <1>5, <1>7, <1>9, <1>10, <1>11, ParseKeeps

\* A member of field k that was parsed into slot s.
LEMMA ParseFieldStep ==
  ASSUME Inv, phase = "parse", ~AtEnd, next' = NextPlace(next),
         UNCHANGED <<desc, input, phase, required_fields_bitmap, last_field, slabs,
                     n_unknown, f, unknown_fields>>,
         NEW k \in Fields, NEW s \in Slot, rv' = [rv EXCEPT ![k] = s],
         s.n = Len(s.elements),
         desc[k].label # "repeated" => s.n = 0 /\ s.room = 0,
         \A l \in DOMAIN s.elements : s.elements[l][1] \in Given(k),
         s.value # 0 => s.value \in Given(k),
         wild' = FALSE, heap' \subseteq heap \cup {ValueBlock(At)},
         \A x : x \in heap' <=> HasBlock(rv, k, x)' \/ Others(k, x) \/ x \in SlabBlocks
  PROVE  Inv'
<1>1. /\ rv \in [Fields -> Slot] /\ unknown_fields \in Seq(Nat)
      /\ \A i \in Fields : rv[i].n = Len(rv[i].elements)
      /\ \A i \in Fields : desc[i].label # "repeated" => rv[i].n = 0 /\ rv[i].room = 0
  BY ParsedBefore
<1>2. /\ \A i \in Fields : \A l \in DOMAIN rv[i].elements : rv[i].elements[l][1] \in Given(i)
      /\ \A i \in Fields : rv[i].value # 0 => rv[i].value \in Given(i)
      /\ \A i \in DOMAIN unknown_fields : unknown_fields[i] \in Given(0)
  BY ParsedBefore
<1>3. rv' \in [Fields -> Slot] /\ rv'[k] = s /\ \A i \in Fields : i # k => rv'[i] = rv[i]
  BY <1>1
<1>4. Fields' = Fields /\ \A i : Given(i)' = Given(i)
  BY DEF Fields, Given
<1>5. Sources'
  <2>1. \A i \in Fields' : \A l \in DOMAIN rv'[i].elements : rv'[i].elements[l][1] \in Given(i)'
    BY <1>2, <1>3, <1>4
  <2>2. \A i \in Fields' : rv'[i].value # 0 => rv'[i].value \in Given(i)'
    BY <1>2, <1>3, <1>4
  <2>3. \A i \in DOMAIN unknown_fields' : unknown_fields'[i] \in Given(0)'
    BY <1>2, <1>4
  <2> QED
    BY <2>1, <2>2, <2>3 DEF Sources
<1>6. \A x : Others(k, x)' <=> Others(k, x)
  BY <1>3, SameOthers
<1>7. \A x : RvHolds(x)' <=> HasBlock(rv, k, x)' \/ Others(k, x)
  <2>1. k \in Fields'
    BY <1>4
  <2>2. \A x : RvHolds(x)' <=> HasBlock(rv, k, x)' \/ Others(k, x)'
    BY <2>1, HoldsOthersNext
  <2> QED
    BY <2>2, <1>6
<1>8. \A x : x \in heap' <=> RvHolds(x)' \/ x \in SlabBlocks
  BY <1>7
<1>9. \A i \in Fields : /\ rv'[i].n = Len(rv'[i].elements)
                        /\ desc[i].label # "repeated" => rv'[i].n = 0 /\ rv'[i].room = 0
  BY <1>1, <1>3
<1>10. unknown_fields' \in Seq(Nat)
  BY <1>1
<1> QED
  BY <1>3, <1>5, <1>8, <1>9, <1>10, ParseKeeps

\* The heap, field by field.
LEMMA HeapIs ==
  ASSUME Inv, phase = "parse", NEW k \in Fields
  PROVE  \A x : x \in heap <=> HasBlock(rv, k, x) \/ Others(k, x) \/ x \in SlabBlocks
<1>1. \A x : x \in heap <=> RvHolds(x) \/ x \in SlabBlocks
  BY ParsedBefore
<1>2. \A x : RvHolds(x) <=> HasBlock(rv, k, x) \/ Others(k, x)
  BY HoldsOthers
<1> QED
  BY <1>1, <1>2

\* A packed member yields numbers, which own nothing.
LEMMA PackedIs ==
  ASSUME Inv, NEW k \in Fields, NEW j \in DOMAIN input, j \in Given(k)
  PROVE  /\ PackedElements(k, j) \in Seq(Nat \X Nat)
         /\ \A l \in DOMAIN PackedElements(k, j) : PackedElements(k, j)[l][1] = j
         /\ Len(PackedElements(k, j)) <= Cardinality(Ends(input[j].data))
<1> DEFINE d    == input[j].data
           ends == {i \in Ends(d) : \A b \in Broken(desc[k].type, d) : b > i}
           num    == Cardinality(ends)
<1>1. input \in Seq(Member)
  BY DEF Inv, TypeOK
<1>2. d \in Seq(BOOLEAN) /\ j \in Nat
  <2>1. input[j] \in Member /\ j \in Nat
    BY <1>1
  <2> QED
    BY <2>1 DEF Member
<1>3. IsFiniteSet(Ends(d)) /\ ends \subseteq Ends(d)
  BY <1>2, EndsCounted
<1>4. IsFiniteSet(ends) /\ num <= Cardinality(Ends(d))
  BY <1>3, FS_Subset
<1>5. num \in Nat
  BY <1>4, FS_CardinalityType
<1>6. PackedElements(k, j) = [i \in 1 .. num |-> <<j, i>>]
  BY DEF PackedElements
<1> HIDE DEF num, d
<1> QED
  BY <1>2, <1>4, <1>5, <1>6 DEF d

LEMMA ParsePackedStep ==
  ASSUME Inv, phase = "parse", ~AtEnd, next' = NextPlace(next),
         UNCHANGED <<desc, input, phase, required_fields_bitmap, last_field, slabs,
                     n_unknown, f>>,
         NEW k \in Fields, k = input[At].tag, desc[k].label = "repeated",
         IsPacked(desc[k], input[At]), ParsePacked(k, At)
  PROVE  Inv'
<1> DEFINE j   == At
           new == PackedElements(k, j)
           old == rv[k].elements
           s   == [rv[k] EXCEPT !.elements = old \o new, !.n = rv[k].n + Len(new)]
<1>1. rv' = [rv EXCEPT ![k] = s]
  BY DEF ParsePacked
<1>2. UNCHANGED <<heap, wild, unknown_fields>>
  BY DEF ParsePacked
<1>3. j \in DOMAIN input /\ j \in Given(k)
  BY AtIs DEF Given
<1>4. new \in Seq(Nat \X Nat) /\ \A l \in DOMAIN new : new[l][1] = j
  BY <1>3, PackedIs
<1>5. /\ rv[k] \in Slot /\ rv[k].n = Len(old) /\ wild = FALSE /\ old \in Seq(Nat \X Nat)
      /\ \A l \in DOMAIN old : old[l][1] \in Given(k)
      /\ rv[k].value # 0 => rv[k].value \in Given(k)
  BY ParsedBefore DEF Slot
<1> HIDE DEF new, j
<1>6. /\ old \o new \in Seq(Nat \X Nat) /\ Len(old \o new) = Len(old) + Len(new)
      /\ Len(old) \in Nat /\ Len(new) \in Nat
      /\ \A l \in DOMAIN (old \o new) : (old \o new)[l][1] \in Given(k)
  <2> HIDE DEF old
  <2>1. old \o new \in Seq(Nat \X Nat) /\ Len(old \o new) = Len(old) + Len(new)
    BY <1>4, <1>5
  <2>2. ASSUME NEW l \in DOMAIN (old \o new) PROVE (old \o new)[l][1] \in Given(k)
    <3>1. CASE l <= Len(old)
      <4>1. l \in DOMAIN old /\ (old \o new)[l] = old[l]
        BY <1>4, <1>5, <2>1, <3>1
      <4> QED
        BY <4>1, <1>5
    <3>2. CASE l > Len(old)
      <4>1. l - Len(old) \in DOMAIN new /\ (old \o new)[l] = new[l - Len(old)]
        BY <1>4, <1>5, <2>1, <3>2
      <4> QED
        BY <4>1, <1>3, <1>4
    <3> QED
      BY <1>5, <2>1, <3>1, <3>2
  <2> QED
    BY <1>4, <1>5, <2>1, <2>2
<1>7. s \in Slot
  <2>1. rv[k].n + Len(new) \in Nat
    BY <1>5, <1>6, SMTT(30)
  <2> HIDE DEF old
  <2> QED
    BY <1>5, <1>6, <2>1, Zenon DEF Slot
<1>8. /\ s.elements = old \o new /\ s.n = rv[k].n + Len(new) /\ s.value = rv[k].value
      /\ s.room = rv[k].room
  BY <1>5 DEF Slot
<1>9. \A x : HasBlock(rv, k, x)' <=> HasBlock(rv, k, x)
  <2>1. \A m : ~Owns(desc[k].type, m)
    BY DEF IsPacked, Packable, Owns
  <2>2. rv'[k] = s
    BY <1>1, ParsedBefore
  <2>3. \A x : HasBlock(rv, k, x) <=> rv[k].room > 0 /\ x = ArrayBlock(k)
    BY <2>1, Zenon DEF HasBlock
  <2>4. (\A m : ~Owns(desc[k].type, m))'
    BY DEF IsPacked, Packable, Owns
  <2>5. rv'[k].room = rv[k].room /\ desc' = desc /\ desc'[k].label = "repeated"
    BY <1>8, <2>2
  <2> HIDE DEF s, old
  <2>6. \A x : HasBlock(rv, k, x)' <=> rv'[k].room > 0 /\ x = ArrayBlock(k)
    BY <2>4, <2>5 DEF HasBlock, ArrayBlock
  <2> QED
    BY <2>3, <2>5, <2>6
<1>10. \A x : x \in heap' <=> HasBlock(rv, k, x)' \/ Others(k, x) \/ x \in SlabBlocks
  BY <1>2, <1>9, HeapIs
<1> HIDE DEF s, old
<1>11. s.n = Len(s.elements) /\ \A l \in DOMAIN s.elements : s.elements[l][1] \in Given(k)
  BY <1>5, <1>6, <1>8
<1>12. s.value # 0 => s.value \in Given(k)
  BY <1>5, <1>8
<1>13. wild' = FALSE /\ heap' \subseteq heap \cup {ValueBlock(At)}
  BY <1>2, <1>5
<1> QED
  BY <1>1, <1>2, <1>7, <1>10, <1>11, <1>12, <1>13, ParseFieldStep

LEMMA ParseElementStep ==
  ASSUME Inv, phase = "parse", ~AtEnd, next' = NextPlace(next),
         UNCHANGED <<desc, input, phase, required_fields_bitmap, last_field, slabs,
                     n_unknown, f>>,
         NEW k \in Fields, k = input[At].tag, desc[k].label = "repeated",
         ParseElement(k, At)
  PROVE  Inv'
<1> DEFINE j   == At
           old == rv[k].elements
           s   == [rv[k] EXCEPT !.elements = Append(old, <<j, 1>>), !.n = rv[k].n + 1]
<1>1. rv' = [rv EXCEPT ![k] = s]
  BY DEF ParseElement
<1>2. heap' = heap \cup ValueBlocks(k, j) /\ UNCHANGED <<wild, unknown_fields>>
  BY DEF ParseElement
<1>3. j \in DOMAIN input /\ j \in Given(k) /\ j \in Nat
  BY AtIs DEF Given
<1>4. /\ rv[k] \in Slot /\ rv[k].n = Len(old) /\ wild = FALSE /\ old \in Seq(Nat \X Nat)
      /\ \A l \in DOMAIN old : old[l][1] \in Given(k)
      /\ rv[k].value # 0 => rv[k].value \in Given(k)
  BY ParsedBefore DEF Slot
<1> DEFINE new == Append(old, <<j, 1>>)
<1> HIDE DEF j
<1>5. /\ new \in Seq(Nat \X Nat) /\ Len(new) = Len(old) + 1 /\ Len(old) \in Nat
      /\ \A l \in DOMAIN old : l \in DOMAIN new /\ new[l] = old[l]
      /\ Len(old) + 1 \in DOMAIN new /\ new[Len(old) + 1] = <<j, 1>>
      /\ \A l \in DOMAIN new : l \in DOMAIN old \/ l = Len(old) + 1
  <2> DEFINE x == <<j, 1>>
  <2>1. old \in Seq(Nat \X Nat) /\ x \in Nat \X Nat
    BY <1>3, <1>4
  <2> HIDE DEF old, x
  <2>2. /\ Append(old, x) \in Seq(Nat \X Nat) /\ Len(Append(old, x)) = Len(old) + 1
        /\ \A l \in 1 .. Len(old) : Append(old, x)[l] = old[l]
        /\ Append(old, x)[Len(old) + 1] = x
    BY <2>1, AppendProperties
  <2> DEFINE o == Append(old, x)
             q == Len(old)
  <2>3. q \in Nat /\ DOMAIN old = 1 .. q /\ DOMAIN o = 1 .. q + 1
    BY <2>1, <2>2, LenProperties
  <2>4. o = new
    BY DEF x
  <2>5. /\ o \in Seq(Nat \X Nat) /\ Len(o) = q + 1 /\ o[q + 1] = x
        /\ \A l \in 1 .. q : o[l] = old[l]
    BY <2>2
  <2> HIDE DEF o, q, new
  <2>6. /\ \A l \in 1 .. q : l \in 1 .. q + 1
        /\ q + 1 \in 1 .. q + 1 /\ \A l \in 1 .. q + 1 : l \in 1 .. q \/ l = q + 1
    BY <2>3
  <2> QED
    BY <2>3, <2>4, <2>5, <2>6 DEF q, x
<1>6. \A l \in DOMAIN new : new[l][1] \in Given(k)
  <2> HIDE DEF new, old
  <2>1. <<j, 1>>[1] = j
    OBVIOUS
  <2> QED
    BY <2>1, <1>3, <1>4, <1>5
<1>7. s \in Slot
  <2>1. rv[k].n + 1 \in Nat
    <3> HIDE DEF old, new, s
    <3>1. rv[k].n = Len(old) /\ Len(old) \in Nat
      BY <1>4, <1>5, Zenon
    <3> QED
      BY <3>1
  <2>2. s = [rv[k] EXCEPT !.elements = new, !.n = rv[k].n + 1]
    OBVIOUS
  <2> HIDE DEF old, new, s
  <2> QED
    BY <1>4, <1>5, <2>1, <2>2, Zenon DEF Slot
<1>8. /\ s.elements = new /\ s.n = rv[k].n + 1 /\ s.value = rv[k].value
      /\ s.room = rv[k].room
  BY <1>4 DEF Slot
<1> HIDE DEF s, new, old
<1>9. \A x : HasBlock(rv, k, x)' <=> HasBlock(rv, k, x) \/ x \in ValueBlocks(k, j)
  <2>1. rv'[k] = s
    BY <1>1, ParsedBefore
  <2>2. rv'[k].room = rv[k].room /\ rv'[k].elements = new
    BY <1>8, <2>1
  <2>3. \A x : HasBlock(rv, k, x)' <=>
           \/ \E i \in DOMAIN new : /\ Owns(desc[k].type, input[new[i][1]])
                                    /\ x = ValueBlock(new[i][1])
           \/ rv[k].room > 0 /\ x = ArrayBlock(k)
    BY <2>2 DEF HasBlock, ValueBlock, ArrayBlock, Owns
  <2>4. \A x : HasBlock(rv, k, x) <=>
           \/ \E i \in DOMAIN old : /\ Owns(desc[k].type, input[old[i][1]])
                                    /\ x = ValueBlock(old[i][1])
           \/ rv[k].room > 0 /\ x = ArrayBlock(k)
    BY Zenon DEF HasBlock, old
  <2>5. new[Len(old) + 1][1] = j
    BY <1>5
  <2>6. \A x : (\E i \in DOMAIN new : /\ Owns(desc[k].type, input[new[i][1]])
                                      /\ x = ValueBlock(new[i][1]))
           <=> \/ \E i \in DOMAIN old : /\ Owns(desc[k].type, input[old[i][1]])
                                        /\ x = ValueBlock(old[i][1])
               \/ Owns(desc[k].type, input[j]) /\ x = ValueBlock(j)
    BY <2>5, <1>5, Zenon
  <2> QED
    BY <2>3, <2>4, <2>6, InValueBlocks, ZenonT(30)
<1>10. \A x : x \in heap' <=> HasBlock(rv, k, x)' \/ Others(k, x) \/ x \in SlabBlocks
  <2>1. \A x : x \in heap <=> HasBlock(rv, k, x) \/ Others(k, x) \/ x \in SlabBlocks
    BY HeapIs
  <2> QED
    BY <1>2, <1>9, <2>1
<1>11. s.n = Len(s.elements) /\ \A l \in DOMAIN s.elements : s.elements[l][1] \in Given(k)
  BY <1>4, <1>5, <1>6, <1>8
<1>12. s.value # 0 => s.value \in Given(k)
  BY <1>4, <1>8
<1>13. wild' = FALSE /\ heap' \subseteq heap \cup {ValueBlock(At)}
  <2>1. ValueBlocks(k, j) \subseteq {ValueBlock(At)}
    BY InValueBlocks DEF j
  <2> QED
    BY <1>2, <1>4, <2>1
<1> QED
  BY <1>1, <1>2, <1>7, <1>10, <1>11, <1>12, <1>13, ParseFieldStep

LEMMA ParseSingleStep ==
  ASSUME Inv, phase = "parse", ~AtEnd, next' = NextPlace(next),
         UNCHANGED <<desc, input, phase, required_fields_bitmap, last_field, slabs,
                     n_unknown, f>>,
         NEW k \in Fields, k = input[At].tag, desc[k].label # "repeated",
         ParseSingle(k, At)
  PROVE  Inv'
<1> DEFINE j   == At
           has == HasFlag(k)
           s   == [rv[k] EXCEPT !.value = j, !.has = has]
<1>1. rv' = [rv EXCEPT ![k] = s]
  BY DEF ParseSingle
<1>2. /\ heap' = (heap \ Replaced(k)) \cup ValueBlocks(k, j)
      /\ wild' = (wild \/ ~(Replaced(k) \subseteq heap))
      /\ UNCHANGED unknown_fields
  BY DEF ParseSingle
<1>3. j \in DOMAIN input /\ j \in Given(k) /\ j \in Nat /\ has \in BOOLEAN
  BY AtIs DEF Given, HasFlag
<1>4. /\ rv[k] \in Slot /\ rv[k].n = Len(rv[k].elements) /\ wild = FALSE
      /\ \A l \in DOMAIN rv[k].elements : rv[k].elements[l][1] \in Given(k)
      /\ rv[k].n = 0 /\ rv[k].room = 0
  BY ParsedBefore
<1>0. j # 0
  BY <1>3 DEF Inv, TypeOK
<1> HIDE DEF j, has
<1>5. s \in Slot
  BY <1>3, <1>4, Zenon DEF Slot
<1>6. /\ s.elements = rv[k].elements /\ s.n = rv[k].n /\ s.value = j
      /\ s.room = rv[k].room
  BY <1>4 DEF Slot
<1> HIDE DEF s
<1>7. \A x : HasBlock(rv, k, x)' <=> x \in ValueBlocks(k, j)
  <2>1. rv'[k] = s
    BY <1>1, ParsedBefore
  <2>2. rv'[k].value = j
    BY <1>6, <2>1
  <2>3. \A x : HasBlock(rv, k, x)' <=> Owns(desc[k].type, input[j]) /\ x = ValueBlock(j)
    BY <2>2, <1>0 DEF HasBlock, ValueBlock, Owns
  <2> QED
    BY <2>3, InValueBlocks, Zenon
<1>8. \A x : x \in Replaced(k) <=> HasBlock(rv, k, x)
  BY InFieldBlocks DEF Replaced
<1>9. \A x : x \in heap <=> HasBlock(rv, k, x) \/ Others(k, x) \/ x \in SlabBlocks
  BY HeapIs
<1>10. \A x : HasBlock(rv, k, x) => ~Others(k, x) /\ x \notin SlabBlocks
  <2> SUFFICES ASSUME NEW x, HasBlock(rv, k, x) PROVE ~Others(k, x) /\ x \notin SlabBlocks
    OBVIOUS
  <2>1. ~Others(k, x)
    BY ValueApart
  <2>2. RvHolds(x)
    BY HoldsOthers
  <2> QED
    BY <2>1, <2>2, SlabsApart, InSlabBlocks
<1>11. \A x : x \in heap' <=> HasBlock(rv, k, x)' \/ Others(k, x) \/ x \in SlabBlocks
  BY <1>2, <1>7, <1>8, <1>9, <1>10
<1>12. wild' = FALSE /\ heap' \subseteq heap \cup {ValueBlock(At)}
  <2>1. ValueBlocks(k, j) \subseteq {ValueBlock(At)}
    BY InValueBlocks DEF j
  <2>2. Replaced(k) \subseteq heap
    BY <1>8, <1>9
  <2> QED
    BY <1>2, <1>4, <2>1, <2>2
<1>13. s.n = Len(s.elements) /\ \A l \in DOMAIN s.elements : s.elements[l][1] \in Given(k)
  BY <1>4, <1>6
<1>14. s.value # 0 => s.value \in Given(k)
  BY <1>3, <1>6
<1>15. s.n = 0 /\ s.room = 0
  BY <1>4, <1>6
<1> QED
  BY <1>1, <1>2, <1>5, <1>11, <1>12, <1>13, <1>14, <1>15, ParseFieldStep

LEMMA ParseMemberStep ==
  ASSUME Inv, ParseMember
  PROVE  Inv'
<1> DEFINE j == At
           m == input[j]
           k == m.tag
<1>1. phase = "parse" /\ ~AtEnd /\ next' = NextPlace(next)
  BY DEF ParseMember
<1>2. UNCHANGED <<desc, input, phase, required_fields_bitmap, last_field, slabs, n_unknown, f>>
  BY DEF ParseMember
<1>3. k # 0 => k \in Fields
  BY <1>1, AtIs
<1>4. \/ k = 0 /\ ParseUnknown(j)
      \/ k # 0 /\ desc[k].label = "repeated" /\ IsPacked(desc[k], m) /\ ParsePacked(k, j)
      \/ k # 0 /\ desc[k].label = "repeated" /\ ParseElement(k, j)
      \/ k # 0 /\ desc[k].label # "repeated" /\ ParseSingle(k, j)
  BY DEF ParseMember
<1>5. CASE k = 0 /\ ParseUnknown(j)
  BY <1>1, <1>2, <1>5, ParseUnknownStep
<1>6. CASE k # 0 /\ desc[k].label = "repeated" /\ IsPacked(desc[k], m) /\ ParsePacked(k, j)
  BY <1>1, <1>2, <1>3, <1>6, ParsePackedStep
<1>7. CASE k # 0 /\ desc[k].label = "repeated" /\ ParseElement(k, j)
  BY <1>1, <1>2, <1>3, <1>7, ParseElementStep
<1>8. CASE k # 0 /\ desc[k].label # "repeated" /\ ParseSingle(k, j)
  BY <1>1, <1>2, <1>3, <1>8, ParseSingleStep
<1> QED
  BY <1>4, <1>5, <1>6, <1>7, <1>8

\* The counters fit the arrays once the third pass has begun.
LEMMA ReadsRight ==
  ASSUME Inv, phase \in {"parse", "done"}
  PROVE  ~ReadsTooFar(rv)
<1>1. \A k \in Fields : rv[k] \in Slot /\ rv[k].n = Len(rv[k].elements)
  BY DEF Inv, TypeOK, Stages
<1>2. \A k \in Fields : Len(rv[k].elements) \in Nat
  BY <1>1 DEF Slot
<1> QED
  BY <1>1, <1>2 DEF ReadsTooFar

LEMMA ParseFailsStep ==
  ASSUME Inv, ParseFails
  PROVE  Inv'
<1> DEFINE j   == At
           m   == input[j]
           k   == m.tag
           new == PackedElements(k, j)
           old == rv[k].elements
           s   == [rv[k] EXCEPT !.elements = old \o new]
           b   == [rv EXCEPT ![k] = s]
<1>1. phase = "parse" /\ ~AtEnd /\ k # 0
  BY DEF ParseFails
<1>2. \/ /\ desc[k].label = "repeated" /\ IsPacked(desc[k], m) /\ FailWith(b, {})
      \/ FailWith(rv, {})
  BY DEF ParseFails
<1>3. CASE FailWith(rv, {})
  BY <1>1, <1>3, ReadsRight, FailAsItStands
<1>4. CASE desc[k].label = "repeated" /\ IsPacked(desc[k], m) /\ FailWith(b, {})
  <2>1. k \in Fields /\ j \in DOMAIN input /\ j \in Given(k)
    BY <1>1, AtIs DEF Given
  <2>2. new \in Seq(Nat \X Nat)
    BY <2>1, PackedIs
  <2>3. rv \in [Fields -> Slot] /\ rv[k] \in Slot /\ old \in Seq(Nat \X Nat)
    BY <1>1, <2>1, ParsedBefore DEF Slot
  <2> HIDE DEF new, old, j
  <2>4. s \in Slot
    <3>1. old \o new \in Seq(Nat \X Nat)
      BY <2>2, <2>3
    <3> QED
      BY <2>3, <3>1, Zenon DEF Slot
  <2>5. s.room = rv[k].room
    BY <2>3 DEF Slot
  <2> HIDE DEF s
  <2>6. b \in [Fields -> Slot] /\ b[k] = s /\ \A i \in Fields : i # k => b[i] = rv[i]
    BY <2>1, <2>3, <2>4
  <2>7. \A c : ~Owns(desc[k].type, c)
    BY <1>4 DEF IsPacked, Packable, Owns
  <2>9. desc[k].type \notin {"string", "bytes", "message"}
    BY <1>4 DEF IsPacked, Packable
  <2>12. desc[k].label = "repeated" /\ FailWith(b, {})
    BY <1>4
  <2> HIDE DEF b, k
  <2>8. \A x : x \in MessageBlocks(b) <=> x \in MessageBlocks(rv)
    <3>1. \A x : HasBlock(rv, k, x) <=> rv[k].room > 0 /\ x = ArrayBlock(k)
      BY <2>7, <2>12, Zenon DEF HasBlock
    <3>2. \A x : HasBlock(b, k, x) <=> s.room > 0 /\ x = ArrayBlock(k)
      BY <2>6, <2>7, <2>12, Zenon DEF HasBlock
    <3>3. \A x : \A i \in Fields : i # k => (HasBlock(b, i, x) <=> HasBlock(rv, i, x))
      BY <2>6, Zenon DEF HasBlock
    <3>4. \A x : \A i \in Fields : HasBlock(b, i, x) <=> HasBlock(rv, i, x)
      BY <2>5, <3>1, <3>2, <3>3, Zenon
    <3> QED
      BY <3>4, InMessageBlocks, Zenon
  <2>10. ~ReadsTooFar(b)
    <3>1. ~ReadsTooFar(rv)
      BY <1>1, ReadsRight
    <3> QED
      BY <3>1, <2>6, <2>9 DEF ReadsTooFar
  <2>11. {} \cup MessageBlocks(b) = MessageBlocks(rv) /\ {} \cap MessageBlocks(b) = {}
    BY <2>8
  <2> QED
    BY <1>1, <2>6, <2>10, <2>11, <2>12, FailClears
<1> QED
  BY <1>2, <1>3, <1>4

LEMMA ValueFailsStep ==
  ASSUME Inv, ValueFails
  PROVE  Inv'
<1> DEFINE k == input[At].tag
           s == [rv[k] EXCEPT !.value = 0]
           d == DropValue(k)
<1>1. phase = "parse" /\ ~AtEnd /\ k # 0
  BY DEF ValueFails
<1>2. \/ FailWith(rv, {})
      \/ desc[k].label # "repeated" /\ FailWith(d, Replaced(k))
  BY DEF ValueFails
<1>3. CASE FailWith(rv, {})
  BY <1>1, <1>3, ReadsRight, FailAsItStands
<1>4. CASE desc[k].label # "repeated" /\ FailWith(d, Replaced(k))
  <2>1. k \in Fields
    BY <1>1, AtIs
  <2>2. rv \in [Fields -> Slot] /\ rv[k] \in Slot
    BY <1>1, <2>1, ParsedBefore
  <2>3. d = [rv EXCEPT ![k] = s]
    BY DEF DropValue
  <2>4. desc[k].label # "repeated" /\ FailWith(d, Replaced(k))
    BY <1>4
  <2> HIDE DEF k, d
  <2>5. s \in Slot
    BY <2>2, Zenon DEF Slot
  <2>6. s.value = 0 /\ s.n = rv[k].n /\ s.elements = rv[k].elements
    BY <2>2 DEF Slot
  <2> HIDE DEF s
  <2>7. d \in [Fields -> Slot] /\ d[k] = s /\ \A i \in Fields : i # k => d[i] = rv[i]
    BY <2>1, <2>2, <2>3, <2>5
  <2>8. \A x : x \in MessageBlocks(d) <=> Others(k, x)
    <3>1. \A x : ~HasBlock(d, k, x)
      BY <2>4, <2>6, <2>7, Zenon DEF HasBlock
    <3>2. \A x : \A i \in Fields : i # k => (HasBlock(d, i, x) <=> HasBlock(rv, i, x))
      BY <2>7, Zenon DEF HasBlock
    <3>3. \A x : (\E i \in Fields : HasBlock(d, i, x)) <=>
                 (\E i \in Fields : i # k /\ HasBlock(rv, i, x))
      BY <2>1, <3>1, <3>2, Zenon
    <3> QED
      BY <3>3, InMessageBlocks, Zenon DEF Others
  <2>9. \A x : x \in Replaced(k) <=> HasBlock(rv, k, x)
    BY InFieldBlocks DEF Replaced
  <2>10. \A x : x \in MessageBlocks(rv) <=> HasBlock(rv, k, x) \/ Others(k, x)
    BY <2>1, InRvBlocks, HoldsOthers
  <2>11. \A x : HasBlock(rv, k, x) => ~Others(k, x)
    BY <1>1, <2>1, <2>4, ValueApart
  <2>12. Replaced(k) \cup MessageBlocks(d) = MessageBlocks(rv) /\ Replaced(k) \cap MessageBlocks(d) = {}
    BY <2>8, <2>9, <2>10, <2>11
  <2>13. ~ReadsTooFar(d)
    <3>1. ~ReadsTooFar(rv)
      BY <1>1, ReadsRight
    <3> QED
      BY <3>1, <2>4, <2>7 DEF ReadsTooFar
  <2> QED
    BY <1>1, <2>4, <2>7, <2>12, <2>13, FailClears
<1> QED
  BY <1>2, <1>3, <1>4

LEMMA SucceedStep ==
  ASSUME Inv, Succeed
  PROVE  Inv'
<1>1. phase = "parse" /\ phase' = "done" /\ Free(SlabBlocks)
  BY DEF Succeed
<1>2. UNCHANGED <<desc, input, required_fields_bitmap, last_field, slabs, n_unknown,
                  f, next, rv, unknown_fields>>
  BY DEF Succeed
<1>3. /\ rv \in [Fields -> Slot] /\ unknown_fields \in Seq(Nat) /\ wild = FALSE
      /\ \A i \in Fields : rv[i].n = Len(rv[i].elements)
      /\ \A i \in Fields : desc[i].label # "repeated" => rv[i].n = 0 /\ rv[i].room = 0
  BY <1>1, ParsedBefore
<1>4. heap = MessageBlocks(rv) \cup SlabBlocks /\ MessageBlocks(rv) \cap SlabBlocks = {}
  <2>1. MessageBlocks(rv) \cap SlabBlocks = {}
    BY InRvBlocks, InSlabBlocks, SlabsApart
  <2> QED
    BY <1>1, <2>1 DEF Inv, HeapOK
<1>5. heap' = MessageBlocks(rv) /\ wild' = FALSE
  BY <1>1, <1>3, <1>4 DEF Free
<1>6. Fields' = Fields
  BY <1>2 DEF Fields
<1>7. HeapOK'
  <2>1. \A x : \A i \in Fields : HasBlock(rv, i, x)' <=> HasBlock(rv, i, x)
    BY <1>2 DEF HasBlock, ValueBlock, ArrayBlock, Owns
  <2>2. Holding' <=> Holding
    BY <1>1, <1>2 DEF Holding
  <2>3. \A x : RvHolds(x)' <=>
           \/ \E k \in Fields : HasBlock(rv, k, x)'
           \/ \E i \in DOMAIN unknown_fields : x = ValueBlock(unknown_fields[i])
           \/ Holding' /\ x = UnknownBlock
           \/ x = MessageBlock
    BY <1>2, <1>6 DEF RvHolds, ValueBlock, UnknownBlock, MessageBlock
  <2>4. \A x : RvHolds(x)' <=> RvHolds(x)
    BY <2>1, <2>2, <2>3, Zenon DEF RvHolds
  <2>5. MessageBlocks(rv)' = MessageBlocks(rv)
    BY <2>4, InRvBlocks, InRvBlocksNext
  <2> QED
    BY <1>1, <1>5, <2>5 DEF HeapOK
<1>8. Tags' /\ SlabsOK'
  BY <1>2 DEF Inv, Tags, SlabsOK
<1>9. Sources'
  BY <1>1, <1>2 DEF Inv, Sources, Fields, Given
<1>10. Stages'
  <2>1. f = Len(desc) + 1
    BY <1>1 DEF Inv, Stages
  <2> QED
    BY <1>1, <1>2, <1>3, <1>6, <2>1 DEF Stages
<1>11. TypeOK'
  <2>1. heap' \subseteq Blocks
    BY <1>4, <1>5 DEF Inv, TypeOK
  <2> QED
    BY <2>1, <1>1, <1>2, <1>5, <1>6 DEF Inv, TypeOK, Phases
<1> QED
  BY <1>5, <1>7, <1>8, <1>9, <1>10, <1>11 DEF Inv

LEMMA FreeUnpackedStep ==
  ASSUME Inv, FreeUnpacked
  PROVE  Inv'
<1>1. /\ phase = "done" /\ phase' = "freed" /\ heap' = heap \ MessageBlocks(rv)
      /\ wild' = (wild \/ ReadsTooFar(rv) \/ ~(MessageBlocks(rv) \subseteq heap))
  BY DEF FreeUnpacked
<1>2. UNCHANGED <<desc, input, required_fields_bitmap, last_field, slabs, n_unknown,
                  f, next, rv, unknown_fields>>
  BY DEF FreeUnpacked
<1>3. heap = MessageBlocks(rv) /\ ~ReadsTooFar(rv) /\ wild = FALSE
  <2>1. ~ReadsTooFar(rv)
    BY <1>1, ReadsRight
  <2> QED
    BY <2>1, <1>1 DEF Inv, HeapOK, TypeOK
<1>4. heap' = {} /\ wild' = FALSE
  BY <1>1, <1>3
<1>5. Tags' /\ SlabsOK'
  BY <1>2 DEF Inv, Tags, SlabsOK
<1>6. Sources' /\ Stages' /\ HeapOK'
  BY <1>1, <1>4 DEF Sources, Stages, HeapOK
<1>7. TypeOK'
  BY <1>1, <1>2, <1>4 DEF Inv, TypeOK, Fields, Phases
<1> QED
  BY <1>4, <1>5, <1>6, <1>7 DEF Inv

LEMMA InvStep == Inv /\ [Next]_vars => Inv'
<1> SUFFICES ASSUME Inv, [Next]_vars PROVE Inv'
  OBVIOUS
<1>1. CASE \E k \in 0 .. Len(desc) : \E m \in MembersOf(k) : ScanMember(m)
  BY <1>1, ScanStep
<1>2. CASE ScanFails
  BY <1>2, ScanFailsStep
<1>3. CASE EndOfInput
  BY <1>3, EndOfInputStep
<1>4. CASE FieldSucceeds
  BY <1>4, FieldSucceedsStep
<1>5. CASE FieldFails
  BY <1>5, FieldFailsStep
<1>6. CASE AllocateUnknown
  BY <1>6, AllocateUnknownStep
<1>7. CASE AllocateUnknownFails
  BY <1>7, AllocateUnknownFailsStep
<1>8. CASE ParseMember
  BY <1>8, ParseMemberStep
<1>9. CASE ParseFails
  BY <1>9, ParseFailsStep
<1>10. CASE ValueFails
  BY <1>10, ValueFailsStep
<1>11. CASE UnknownFails
  <2>1. phase = "parse" /\ FailWith(rv, {})
    BY <1>11 DEF UnknownFails
  <2> QED
    BY <2>1, ReadsRight, FailAsItStands
<1>12. CASE Succeed
  BY <1>12, SucceedStep
<1>13. CASE FreeUnpacked
  BY <1>13, FreeUnpackedStep
<1>14. CASE UNCHANGED vars
  <2>1. UNCHANGED <<desc, input, phase, required_fields_bitmap, last_field, slabs,
                    n_unknown, f, next, rv, unknown_fields, heap, wild>>
    BY <1>14 DEF vars
  <2>2. TypeOK' /\ Tags' /\ SlabsOK' /\ ~wild'
    BY <2>1 DEF Inv, TypeOK, Fields, Tags, SlabsOK
  <2>3. Sources'
    BY <2>1 DEF Inv, Sources, Fields, Given
  <2>4. Stages'
    BY <2>1 DEF Inv, Stages, Unparsed, Fields
  <2>5. MessageBlocks(rv)' = MessageBlocks(rv) /\ SlabBlocks' = SlabBlocks
    BY <2>1 DEF MessageBlocks, SlabBlocks, FieldBlocks, ValueBlocks, Fields, ValueBlock,
                ArrayBlock, UnknownBlock, MessageBlock, SlabBlock, Owns
  <2>6. HeapOK'
    BY <2>1, <2>5 DEF Inv, HeapOK
  <2> QED
    BY <2>2, <2>3, <2>4, <2>6 DEF Inv
<1>15. CASE Returned
  BY <1>15, <1>14 DEF Returned
<1> QED
  BY <1>1, <1>2, <1>3, <1>4, <1>5, <1>6, <1>7, <1>8, <1>9, <1>10, <1>11, <1>12, <1>13,
     <1>14, <1>15 DEF Next

LEMMA InvHolds == Spec => []Inv
BY InvInit, InvStep, PTL DEF Spec

\* Through every way out of unpack and through free_unpacked, whichever
\* allocation fails and whatever the members are, what was allocated is freed
\* once, and nothing else is; a message that is returned owns what is allocated.
THEOREM UnpackKeepsMemory == Spec => []MemorySound
<1>1. Inv => MemorySound
  BY DEF Inv, HeapOK, MemorySound, NothingLeaks, NoWildFree
<1> QED
  BY <1>1, InvHolds, PTL
-----------------------------------------------------------------------------
(* Required fields.  Fields share bits of the bitmap, but a field that was *)
(* met has its bit set, and the test for a missing one looks at its word.  *)

BitsOK == \A k \in Fields :
            desc[k].label = "required" /\ Given(k) # {} =>
              Bit(k) \in required_fields_bitmap[Word(k)]

\* Only the scan changes what was read and recorded.
LEMMA OnlyScanRecords ==
  ASSUME [Next]_vars
  PROVE  \/ \E k \in 0 .. Len(desc) : \E m \in MembersOf(k) : ScanMember(m)
         \/ UNCHANGED <<desc, input, required_fields_bitmap, slabs, n_unknown>>
<1> SUFFICES ASSUME ~\E k \in 0 .. Len(desc) : \E m \in MembersOf(k) : ScanMember(m)
             PROVE  UNCHANGED <<desc, input, required_fields_bitmap, slabs, n_unknown>>
  OBVIOUS
<1>1. CASE ScanFails
  BY <1>1 DEF ScanFails, FailScan
<1>2. CASE EndOfInput \/ FieldSucceeds \/ AllocateUnknown \/ Succeed \/ FreeUnpacked
  BY <1>2 DEF EndOfInput, FieldSucceeds, AllocateUnknown, Succeed, FreeUnpacked
<1>3. CASE FieldFails \/ AllocateUnknownFails \/ UnknownFails
  BY <1>3 DEF FieldFails, AllocateUnknownFails, UnknownFails, FailWith
<1>4. CASE ParseMember
  BY <1>4 DEF ParseMember
<1>5. CASE ParseFails
  BY <1>5, Zenon DEF ParseFails, FailWith
<1>6. CASE ValueFails
  BY <1>6, Zenon DEF ValueFails, FailWith
<1>7. CASE Returned \/ UNCHANGED vars
  BY <1>7 DEF Returned, vars
<1> QED
  BY <1>1, <1>2, <1>3, <1>4, <1>5, <1>6, <1>7 DEF Next

LEMMA BitsStep ==
  ASSUME Inv, BitsOK, [Next]_vars
  PROVE  BitsOK'
<1>1. CASE \E k \in 0 .. Len(desc) : \E m \in MembersOf(k) : ScanMember(m)
  <2>0. PICK k \in 0 .. Len(desc) : \E m \in MembersOf(k) : ScanMember(m)
    BY <1>1
  <2>1. PICK m \in MembersOf(k) : ScanMember(m)
    BY <2>0
  <2>2. /\ desc \in Descriptors /\ input \in Seq(Member)
        /\ required_fields_bitmap \in [0 .. BitmapSize - 1 -> SUBSET (0 .. WordBits - 1)]
    BY DEF Inv, TypeOK
  <2>3. m \in Member /\ m.tag = k
    BY <2>2, MemberIs
  <2>4. input' = Append(input, m) /\ RecordRequired(k) /\ desc' = desc
    BY <2>1, <2>3 DEF ScanMember, Scanned
  <2>5. Fields' = Fields /\ Fields = 1 .. Len(desc) /\ Len(desc) \in Nat
    BY <2>2, <2>4, DescIs DEF Fields
  <2> SUFFICES ASSUME NEW i \in Fields, desc[i].label = "required", Given(i)' # {}
               PROVE  Bit(i) \in required_fields_bitmap'[Word(i)]
    BY <2>4, <2>5 DEF BitsOK, Word, Bit
  <2>6. i \in Nat \ {0}
    BY <2>5
  <2>7. Word(i) \in 0 .. BitmapSize - 1
    BY <2>6, BitIs
  <2>8. CASE i = k
    <3>1. required_fields_bitmap' =
            [required_fields_bitmap EXCEPT ![Word(i)] = required_fields_bitmap[Word(i)] \cup {Bit(i)}]
      BY <2>4, <2>6, <2>8 DEF RecordRequired
    <3> QED
      BY <3>1, <2>2, <2>7
  <2>9. CASE i # k
    <3>1. Given(i) # {}
      <4>1. PICK j \in DOMAIN input' : input'[j].tag = i
        BY DEF Given
      <4>2. j \in DOMAIN input /\ input[j].tag = i
        <5>1. DOMAIN input' = 1 .. Len(input) + 1 /\ DOMAIN input = 1 .. Len(input) /\ Len(input) \in Nat
          BY <2>2, <2>3, <2>4
        <5>2. input'[Len(input) + 1] = m /\ \A l \in 1 .. Len(input) : input'[l] = input[l]
          BY <2>2, <2>3, <2>4
        <5> QED
          BY <5>1, <5>2, <4>1, <2>3, <2>9
      <4> QED
        BY <4>2 DEF Given
    <3>2. Bit(i) \in required_fields_bitmap[Word(i)]
      BY <3>1 DEF BitsOK
    <3>3. required_fields_bitmap[Word(i)] \subseteq required_fields_bitmap'[Word(i)]
      <4>1. CASE k # 0 /\ desc[k].label = "required"
        <5>1. k \in Nat \ {0}
          BY <4>1, <2>5
        <5>2. Word(k) \in 0 .. BitmapSize - 1
          BY <5>1, BitIs
        <5>3. required_fields_bitmap' =
            [required_fields_bitmap EXCEPT ![Word(k)] = required_fields_bitmap[Word(k)] \cup {Bit(k)}]
          BY <2>4, <4>1 DEF RecordRequired
        <5> QED
          BY <5>2, <5>3, <2>2, <2>7
      <4>2. CASE ~(k # 0 /\ desc[k].label = "required")
        BY <2>4, <4>2 DEF RecordRequired
      <4> QED
        BY <4>1, <4>2
    <3> QED
      BY <3>2, <3>3
  <2> QED
    BY <2>8, <2>9
<1>2. CASE UNCHANGED <<desc, input, required_fields_bitmap, slabs, n_unknown>>
  BY <1>2 DEF BitsOK, Fields, Given, Bit, Word
<1> QED
  BY <1>1, <1>2, OnlyScanRecords

\* What fails in the second pass is not a required field that was met.
LEMMA AlarmStep ==
  ASSUME Inv, BitsOK, NoFalseAlarm, [Next]_vars
  PROVE  NoFalseAlarm'
<1>1. Fields = 1 .. Len(desc) /\ Len(desc) \in Nat
  BY DescIs DEF Inv, TypeOK
<1>2. phase = "scan" => f \notin Fields
  BY <1>1 DEF Inv, Stages
<1>3. phase = "parse" => f \notin Fields
  BY <1>1 DEF Inv, Stages
<1>4. CASE \E k \in 0 .. Len(desc) : \E m \in MembersOf(k) : ScanMember(m)
  BY <1>4 DEF ScanMember, Scanned, NoFalseAlarm
<1>5. CASE ScanFails
  BY <1>2, <1>5 DEF ScanFails, FailScan, NoFalseAlarm, Fields
<1>6. CASE EndOfInput \/ FieldSucceeds \/ AllocateUnknown \/ ParseMember \/ Succeed \/ FreeUnpacked
  BY <1>6 DEF EndOfInput, FieldSucceeds, AllocateUnknown, ParseMember, Succeed, FreeUnpacked, NoFalseAlarm
<1>7. CASE FieldFails
  <2>1. /\ f <= Len(desc) /\ phase = "fields" /\ (Missing(f) \/ NeedsArray(f))
        /\ UNCHANGED <<desc, input, f>>
    BY <1>7 DEF FieldFails, FailWith
  <2>2. f \in Fields
    BY <2>1, <1>1 DEF Inv, Stages
  <2>3. desc[f].label = "required" => Given(f) = {}
    BY <2>1, <2>2 DEF NeedsArray, Missing, NotSet, BitsOK
  <2>4. Given(f)' = Given(f) /\ desc'[f'] = desc[f]
    BY <2>1 DEF Given
  <2> QED
    BY <2>3, <2>4 DEF NoFalseAlarm
<1>8. CASE AllocateUnknownFails
  <2>1. f > Len(desc) /\ f \in Nat /\ UNCHANGED <<desc, f>>
    BY <1>8 DEF AllocateUnknownFails, FailWith, Inv, TypeOK
  <2>2. f' \notin Fields'
    BY <2>1, <1>1 DEF Fields
  <2> QED
    BY <2>2 DEF NoFalseAlarm
<1>9. CASE ParseFails \/ ValueFails \/ UnknownFails
  <2>1. phase = "parse"
    BY <1>9 DEF ParseFails, ValueFails, UnknownFails
  <2>2. UNCHANGED <<desc, f>>
    BY <1>9, Zenon DEF ParseFails, ValueFails, UnknownFails, FailWith
  <2>3. f' \notin Fields'
    BY <2>1, <2>2, <1>3 DEF Fields
  <2> QED
    BY <2>3 DEF NoFalseAlarm
<1>10. CASE Returned \/ UNCHANGED vars
  BY <1>10 DEF Returned, vars, NoFalseAlarm, Fields, Given
<1> QED
  BY <1>4, <1>5, <1>6, <1>7, <1>8, <1>9, <1>10 DEF Next

\* unpack fails for want of a required field only if no member is that field's,
\* however many fields share a bit of required_fields_bitmap.
THEOREM NoFieldMissedWrongly == Spec => []NoFalseAlarm
<1>1. Init => BitsOK /\ NoFalseAlarm
  <2> SUFFICES ASSUME Init PROVE BitsOK /\ NoFalseAlarm
    OBVIOUS
  <2>1. \A k : Given(k) = {}
    BY DEF Init, Given
  <2> QED
    BY <2>1 DEF Init, BitsOK, NoFalseAlarm
<1>2. Inv /\ (BitsOK /\ NoFalseAlarm) /\ [Next]_vars => (BitsOK /\ NoFalseAlarm)'
  BY BitsStep, AlarmStep
<1> QED
  BY <1>1, <1>2, InvHolds, PTL DEF Spec
-----------------------------------------------------------------------------
(* The slabs hold the members in order, and the third pass takes them one  *)
(* after the other.                                                        *)

InOrder ==
  LET num == Len(slabs)
  IN  /\ Len(input) = 0 => num = 1 /\ Len(slabs[1]) = 0
      /\ Len(input) > 0 => Len(slabs[num]) > 0 /\ slabs[num][Len(slabs[num])] = Len(input)
      /\ Len(slabs[1]) > 0 => slabs[1][1] = 1
      /\ \A i \in 1 .. num : \A l \in 1 .. Len(slabs[i]) - 1 : slabs[i][l + 1] = slabs[i][l] + 1
      /\ \A i \in 1 .. num - 1 : slabs[i + 1][1] = slabs[i][Len(slabs[i])] + 1

OrderInv == InOrder /\ (phase \in {"scan", "fields"} => next = <<1, 1>>)

\* The member the third pass takes next, by its place in the input.
Upcoming == IF AtEnd THEN Len(input) + 1 ELSE At

LEMMA ScanSlabs ==
  ASSUME Inv, NEW m, ScanMember(m)
  PROVE  LET num == Len(slabs)
             j == Len(input) + 1
         IN  \/ /\ SlabIsFull /\ Len(slabs') = num + 1
                /\ \A i \in 1 .. num : slabs'[i] = slabs[i]
                /\ slabs'[num + 1] = <<j>>
             \/ /\ ~SlabIsFull /\ Len(slabs') = num
                /\ \A i \in 1 .. num - 1 : slabs'[i] = slabs[i]
                /\ Len(slabs'[num]) = Len(slabs[num]) + 1
                /\ \A l \in 1 .. Len(slabs[num]) : slabs'[num][l] = slabs[num][l]
                /\ slabs'[num][Len(slabs[num]) + 1] = j
<1> DEFINE num == Len(slabs)
           j == Len(input) + 1
<1>1. /\ input \in Seq(Member) /\ slabs \in Seq(Seq(Nat)) /\ num \in Nat /\ num > 0
      /\ num \in DOMAIN slabs
  BY DEF Inv, TypeOK
<1>2. j \in Nat /\ slabs[num] \in Seq(Nat)
  BY <1>1
<1>3. CASE SlabIsFull
  <2>1. slabs' = Append(slabs, <<j>>)
    BY <1>3 DEF ScanMember, Scanned
  <2> HIDE DEF j
  <2>2. Len(slabs') = num + 1 /\ slabs'[num + 1] = <<j>> /\ \A i \in 1 .. num : slabs'[i] = slabs[i]
    BY <1>1, <2>1
  <2> QED
    BY <1>3, <2>2 DEF j
<1>4. CASE ~SlabIsFull
  <2>1. slabs' = [slabs EXCEPT ![num] = Append(slabs[num], j)]
    BY <1>4 DEF ScanMember, Scanned
  <2> HIDE DEF j
  <2>2. Len(slabs') = num /\ slabs'[num] = Append(slabs[num], j)
    BY <1>1, <2>1
  <2>3. \A i \in 1 .. num - 1 : slabs'[i] = slabs[i]
    <3> SUFFICES ASSUME NEW i \in 1 .. num - 1 PROVE slabs'[i] = slabs[i]
      OBVIOUS
    <3>1. i # num /\ i \in DOMAIN slabs
      BY <1>1
    <3> QED
      BY <3>1, <2>1
  <2>4. /\ Len(slabs'[num]) = Len(slabs[num]) + 1
        /\ \A l \in 1 .. Len(slabs[num]) : slabs'[num][l] = slabs[num][l]
        /\ slabs'[num][Len(slabs[num]) + 1] = j
    BY <1>2, <2>2
  <2> QED
    BY <1>4, <2>2, <2>3, <2>4 DEF j
<1> QED
  BY <1>3, <1>4

LEMMA SlabsNonempty ==
  ASSUME Inv
  PROVE  \A i \in 1 .. Len(slabs) - 1 : Len(slabs[i]) > 0
<1>1. Len(slabs) \in 1 .. MaxSlab + 1 /\ MaxSlab \in Nat
  BY UnpackAssumption DEF Inv, TypeOK
<1>2. \A i \in 1 .. Len(slabs) - 1 : i \in 1 .. MaxSlab + 1
  BY <1>1
<1>3. \A i \in 1 .. Len(slabs) - 1 : Len(slabs[i]) = SlabSize(i)
  BY DEF Inv, SlabsOK
<1>4. \A i \in 1 .. Len(slabs) - 1 : SlabSize(i) \in Nat \ {0}
  BY <1>2, SlabAssumption
<1> HIDE DEF SlabSize
<1> QED
  BY <1>3, <1>4

LEMMA ScanOrder ==
  ASSUME Inv, OrderInv, NEW k \in 0 .. Len(desc), NEW m \in MembersOf(k), ScanMember(m)
  PROVE  OrderInv'
<1> DEFINE num == Len(slabs)
           j == Len(input) + 1
<1>1. /\ input \in Seq(Member) /\ slabs \in Seq(Seq(Nat)) /\ num \in Nat /\ num > 0
      /\ num \in 1 .. MaxSlab + 1
  BY DEF Inv, TypeOK
<1>2. Len(input) \in Nat /\ \A i \in 1 .. num : Len(slabs[i]) \in Nat
  BY <1>1
<1>3. Len(input') = j /\ next' = next /\ phase' = phase
  <2>1. m \in Member
    BY MemberIs DEF Inv, TypeOK
  <2> QED
    BY <1>1, <2>1 DEF ScanMember, Scanned
<1>4. /\ Len(input) = 0 => num = 1 /\ Len(slabs[1]) = 0
      /\ Len(input) > 0 => Len(slabs[num]) > 0 /\ slabs[num][Len(slabs[num])] = Len(input)
      /\ Len(slabs[1]) > 0 => slabs[1][1] = 1
      /\ \A i \in 1 .. num : \A l \in 1 .. Len(slabs[i]) - 1 : slabs[i][l + 1] = slabs[i][l] + 1
      /\ \A i \in 1 .. num - 1 : slabs[i + 1][1] = slabs[i][Len(slabs[i])] + 1
  BY DEF OrderInv, InOrder
<1>5. CASE /\ SlabIsFull /\ Len(slabs') = num + 1
           /\ \A i \in 1 .. num : slabs'[i] = slabs[i]
           /\ slabs'[num + 1] = <<j>>
  <2>1. Len(slabs[num]) > 0 /\ Len(input) > 0 /\ slabs[num][Len(slabs[num])] = Len(input)
    <3>1. Len(slabs[num]) = SlabSize(num)
      BY <1>5 DEF SlabIsFull
    <3>2. SlabSize(num) \in Nat \ {0}
      BY <1>1, SlabAssumption
    <3>3. Len(slabs[num]) > 0
      <4> HIDE DEF SlabSize
      <4> QED
        BY <3>1, <3>2
    <3> QED
      BY <3>3, <1>2, <1>4
  <2>2. Len(<<j>>) = 1 /\ <<j>>[1] = j /\ slabs'[num + 1] = <<j>>
    BY <1>5
  <2> DEFINE t == slabs'
  <2>3. /\ Len(t) = num + 1 /\ Len(t[num + 1]) = 1 /\ t[num + 1][1] = j
        /\ \A i \in 1 .. num : t[i] = slabs[i]
    BY <1>5, <2>2
  <2> HIDE DEF j, num, t
  <2>4. Len(t[Len(t)]) > 0 /\ t[Len(t)][Len(t[Len(t)])] = j
    BY <2>3
  <2>5. t[1] = slabs[1]
    BY <2>3, <1>1
  <2>6. ASSUME NEW i \in 1 .. num + 1, NEW l \in 1 .. Len(t[i]) - 1
        PROVE  t[i][l + 1] = t[i][l] + 1
    <3>1. CASE i = num + 1
      BY <3>1, <2>3, <1>1
    <3>2. CASE i # num + 1
      <4>1. i \in 1 .. num
        BY <3>2, <1>1
      <4> QED
        BY <4>1, <2>3, <1>4
    <3> QED
      BY <3>1, <3>2
  <2>7. ASSUME NEW i \in 1 .. num PROVE t[i + 1][1] = t[i][Len(t[i])] + 1
    <3>1. CASE i = num
      BY <3>1, <2>1, <2>3 DEF j
    <3>2. CASE i # num
      <4>1. i \in 1 .. num - 1 /\ i + 1 \in 1 .. num
        BY <3>2, <1>1
      <4> QED
        BY <4>1, <2>3, <1>4
    <3> QED
      BY <3>1, <3>2
  <2>8. num + 1 - 1 = num /\ ~(Len(input') = 0)
    BY <1>1, <1>2, <1>3 DEF j
  <2>9. /\ \A i \in 1 .. Len(t) : \A l \in 1 .. Len(t[i]) - 1 : t[i][l + 1] = t[i][l] + 1
        /\ \A i \in 1 .. Len(t) - 1 : t[i + 1][1] = t[i][Len(t[i])] + 1
    <3>1. Len(t) = num + 1 /\ Len(t) - 1 = num
      <4>1. Len(t) = num + 1 /\ num \in Nat
        BY <2>3, <1>1
      <4> QED
        BY <4>1
    <3>2. \A i \in 1 .. num + 1 : \A l \in 1 .. Len(t[i]) - 1 : t[i][l + 1] = t[i][l] + 1
      BY <2>6
    <3>3. \A i \in 1 .. num : t[i + 1][1] = t[i][Len(t[i])] + 1
      BY <2>7
    <3> QED
      BY <3>1, <3>2, <3>3, Zenon
  <2>10. InOrder'
    <3>1. Len(t[1]) > 0 => t[1][1] = 1
      BY <2>5, <1>4
    <3> QED
      BY <2>4, <2>8, <2>9, <3>1, <1>3 DEF InOrder, t
  <2> QED
    BY <2>10, <1>3 DEF OrderInv
<1>6. CASE /\ ~SlabIsFull /\ Len(slabs') = num
           /\ \A i \in 1 .. num - 1 : slabs'[i] = slabs[i]
           /\ Len(slabs'[num]) = Len(slabs[num]) + 1
           /\ \A l \in 1 .. Len(slabs[num]) : slabs'[num][l] = slabs[num][l]
           /\ slabs'[num][Len(slabs[num]) + 1] = j
  <2> DEFINE t == slabs'
             q == Len(slabs[num])
  <2>1. q \in Nat /\ \A i \in 1 .. num - 1 : Len(slabs[i]) > 0
    BY <1>1, <1>2, SlabsNonempty
  <2>2. /\ Len(t) = num /\ Len(t[num]) = q + 1 /\ t[num][q + 1] = j
        /\ \A i \in 1 .. num - 1 : t[i] = slabs[i]
        /\ \A l \in 1 .. q : t[num][l] = slabs[num][l]
    BY <1>6
  <2>3. q = 0 => num = 1 /\ j = 1
    BY <1>2, <1>4
  <2>4. q > 0 => slabs[num][q] = Len(input)
    BY <1>2, <1>4
  <2> HIDE DEF num, t, q, j
  <2>5. Len(t[Len(t)]) > 0 /\ t[Len(t)][Len(t[Len(t)])] = j
    BY <2>1, <2>2
  <2>6. Len(t[1]) > 0 => t[1][1] = 1
    <3>1. CASE num = 1
      <4>1. CASE q = 0
        BY <3>1, <4>1, <2>2, <2>3
      <4>2. CASE q > 0
        <5>1. 1 \in 1 .. q /\ Len(slabs[1]) > 0
          BY <4>2, <3>1, <2>1 DEF q
        <5> QED
          BY <5>1, <3>1, <2>2, <1>4
      <4> QED
        BY <4>1, <4>2, <2>1
    <3>2. CASE num # 1
      <4>1. 1 \in 1 .. num - 1
        BY <3>2, <1>1
      <4> QED
        BY <4>1, <2>2, <1>4
    <3> QED
      BY <3>1, <3>2
  <2>7. ASSUME NEW i \in 1 .. num, NEW l \in 1 .. Len(t[i]) - 1
        PROVE  t[i][l + 1] = t[i][l] + 1
    <3>1. CASE i = num
      <4>1. l \in 1 .. q /\ l \in Nat
        BY <3>1, <2>1, <2>2
      <4>2. CASE l = q
        <5>1. t[num][q + 1] = j /\ t[num][q] = Len(input)
          BY <4>1, <4>2, <2>1, <2>2, <2>4
        <5> QED
          BY <5>1, <4>2, <3>1 DEF j
      <4>3. CASE l # q
        <5>1. l + 1 \in 1 .. q /\ l \in 1 .. q - 1
          BY <4>1, <4>3, <2>1
        <5>2. slabs[num][l + 1] = slabs[num][l] + 1
          <6>1. num \in 1 .. num
            BY <1>1
          <6>2. \A x \in 1 .. Len(slabs[num]) - 1 : slabs[num][x + 1] = slabs[num][x] + 1
            BY <6>1, <1>4, Zenon
          <6> QED
            BY <5>1, <6>2 DEF q
        <5> QED
          BY <5>1, <5>2, <4>1, <3>1, <2>2
      <4> QED
        BY <4>2, <4>3
    <3>2. CASE i # num
      <4>1. i \in 1 .. num - 1
        BY <3>2, <1>1
      <4> QED
        BY <4>1, <2>2, <1>4, SMTT(30)
    <3> QED
      BY <3>1, <3>2
  <2>8. ASSUME NEW i \in 1 .. num - 1 PROVE t[i + 1][1] = t[i][Len(t[i])] + 1
    <3>1. t[i] = slabs[i] /\ slabs[i + 1][1] = slabs[i][Len(slabs[i])] + 1
      BY <2>2, <1>4
    <3>2. t[i + 1][1] = slabs[i + 1][1]
      <4>1. CASE i + 1 = num
        <5>1. q # 0
          BY <4>1, <2>3, <1>1
        <5>2. 1 \in 1 .. q
          BY <5>1, <2>1
        <5> QED
          BY <5>2, <4>1, <2>2
      <4>2. CASE i + 1 # num
        <5>1. i + 1 \in 1 .. num - 1
          BY <4>2, <1>1
        <5> QED
          BY <5>1, <2>2
      <4> QED
        BY <4>1, <4>2
    <3> QED
      BY <3>1, <3>2
  <2>9. ~(Len(input') = 0)
    BY <1>2, <1>3 DEF j
  <2>10. InOrder'
    BY <2>2, <2>5, <2>6, <2>7, <2>8, <2>9, <1>3 DEF InOrder, t
  <2> QED
    BY <2>10, <1>3 DEF OrderInv
<1> QED
  BY <1>5, <1>6, ScanSlabs

LEMMA OrderStep ==
  ASSUME Inv, OrderInv, [Next]_vars
  PROVE  OrderInv'
<1>1. CASE \E k \in 0 .. Len(desc) : \E m \in MembersOf(k) : ScanMember(m)
  BY <1>1, ScanOrder
<1>2. CASE ~\E k \in 0 .. Len(desc) : \E m \in MembersOf(k) : ScanMember(m)
  <2>1. UNCHANGED <<input, slabs>>
    BY <1>2, OnlyScanRecords
  <2>2. InOrder'
    BY <2>1 DEF OrderInv, InOrder
  <2>3. CASE ScanFails
    BY <2>2, <2>3 DEF ScanFails, FailScan, OrderInv
  <2>4. CASE EndOfInput \/ FieldSucceeds \/ AllocateUnknown \/ Succeed \/ FreeUnpacked
    BY <2>2, <2>4 DEF EndOfInput, FieldSucceeds, AllocateUnknown, Succeed, FreeUnpacked, OrderInv
  <2>5. CASE FieldFails \/ AllocateUnknownFails \/ UnknownFails
    BY <2>2, <2>5 DEF FieldFails, AllocateUnknownFails, UnknownFails, FailWith, OrderInv
  <2>6. CASE ParseMember
    <3>1. phase' = "parse"
      BY <2>6 DEF ParseMember
    <3> QED
      BY <2>2, <3>1 DEF OrderInv
  <2>7. CASE ParseFails \/ ValueFails
    <3>1. phase' = "failed"
      BY <2>7, Zenon DEF ParseFails, ValueFails, FailWith
    <3> QED
      BY <2>2, <3>1 DEF OrderInv
  <2>8. CASE Returned \/ UNCHANGED vars
    BY <2>2, <2>8 DEF Returned, vars, OrderInv
  <2> QED
    BY <1>2, <2>3, <2>4, <2>5, <2>6, <2>7, <2>8 DEF Next
<1> QED
  BY <1>1, <1>2

LEMMA OrderHolds == Spec => []OrderInv
<1>1. Init => OrderInv
  BY DEF Init, OrderInv, InOrder
<1>2. Inv /\ OrderInv /\ [Next]_vars => OrderInv'
  BY OrderStep
<1> QED
  BY <1>1, <1>2, InvHolds, PTL DEF Spec

\* The last slab ends where SlabMax says, and so do the others.
LEMMA SlabMaxIs ==
  ASSUME Inv, NEW i \in 1 .. Len(slabs)
  PROVE  SlabMax(i) = Len(slabs[i]) /\ Len(slabs[i]) \in Nat
<1>1. slabs \in Seq(Seq(Nat)) /\ Len(slabs) \in Nat
  BY DEF Inv, TypeOK
<1>2. CASE i = Len(slabs)
  BY <1>1, <1>2 DEF SlabMax
<1>3. CASE i # Len(slabs)
  <2>1. i \in 1 .. Len(slabs) - 1
    BY <1>1, <1>3
  <2>2. Len(slabs[i]) = SlabSize(i) /\ SlabMax(i) = SlabSize(i)
    BY <1>3, <2>1 DEF SlabMax, Inv, SlabsOK
  <2>3. Len(slabs[i]) \in Nat
    BY <1>1
  <2> QED
    BY <2>2, <2>3, Zenon
<1> QED
  BY <1>2, <1>3

\* The third pass begins with the first member.
LEMMA StartIs ==
  ASSUME Inv, OrderInv, phase = "fields"
  PROVE  Upcoming = 1
<1>1. next[1] = 1 /\ next[2] = 1
  BY DEF OrderInv
<1>2. Len(slabs) \in Nat /\ 1 \in 1 .. Len(slabs) /\ Len(input) \in Nat
  BY DEF Inv, TypeOK
<1>3. SlabMax(1) = Len(slabs[1]) /\ Len(slabs[1]) \in Nat
  BY <1>2, SlabMaxIs
<1>4. CASE Len(input) = 0
  <2>1. Len(slabs[1]) = 0
    BY <1>4 DEF OrderInv, InOrder
  <2>2. AtEnd
    BY <1>1, <1>3, <2>1 DEF AtEnd
  <2> QED
    BY <1>4, <2>2 DEF Upcoming
<1>5. CASE Len(input) # 0
  <2>1. Len(slabs[1]) > 0
    <3>1. CASE Len(slabs) = 1
      BY <1>2, <1>5, <3>1 DEF OrderInv, InOrder
    <3>2. CASE Len(slabs) # 1
      <4>1. 1 \in 1 .. Len(slabs) - 1
        <5> DEFINE num == Len(slabs)
        <5>1. num \in Nat /\ num >= 1 /\ num # 1
          BY <1>2, <3>2
        <5> HIDE DEF num
        <5>2. 1 \in 1 .. num - 1
          BY <5>1
        <5> QED
          BY <5>2 DEF num
      <4> QED
        BY <4>1, SlabsNonempty
    <3> QED
      BY <3>1, <3>2
  <2>2. slabs[1][1] = 1
    BY <2>1 DEF OrderInv, InOrder
  <2>3. ~AtEnd
    BY <1>1, <1>2, <1>3, <2>1 DEF AtEnd
  <2> QED
    BY <1>1, <2>2, <2>3 DEF Upcoming, At
<1> QED
  BY <1>4, <1>5

\* And goes on with the one after the last.
LEMMA AdvanceIs ==
  ASSUME Inv, OrderInv, ~AtEnd, next' = NextPlace(next), UNCHANGED <<input, slabs>>
  PROVE  /\ At \in 1 .. Len(input) /\ Upcoming = At /\ Upcoming' = At + 1
<1> DEFINE i == next[1]
           l == next[2]
           num == Len(slabs)
<1>1. /\ i \in 1 .. num /\ l \in 1 .. Len(slabs[i]) /\ SlabMax(i) = Len(slabs[i])
      /\ At \in DOMAIN input
  BY AtIs
<1>2. input \in Seq(Member) /\ Len(input) \in Nat /\ num \in Nat /\ num > 0 /\ next \in Nat \X Nat
  BY DEF Inv, TypeOK
<1>3. At \in 1 .. Len(input) /\ Upcoming = At /\ Len(slabs[i]) \in Nat
  BY <1>1, <1>2, SlabMaxIs DEF Upcoming
<1>4. \A a : SlabMax(a)' = SlabMax(a)
  BY DEF SlabMax, SlabSize
<1>5. At = slabs[i][l]
  BY DEF At
<1>6. CASE l < Len(slabs[i])
  <2>1. next' = <<i, l + 1>>
    BY <1>1, <1>6 DEF NextPlace
  <2>2. next'[1] = i /\ next'[2] = l + 1
    BY <2>1
  <2>3. ~(i > num) /\ ~(l + 1 > SlabMax(i))
    <3> HIDE DEF i, l, num
    <3>1. i \in Nat /\ l \in Nat /\ i <= num
      BY <1>1, <1>2
    <3> QED
      BY <3>1, <1>1, <1>2, <1>3, <1>6
  <2>4. ~AtEnd'
    BY <2>2, <2>3, <1>4 DEF AtEnd
  <2>5. slabs[i][l + 1] = slabs[i][l] + 1
    <3>1. l \in 1 .. Len(slabs[i]) - 1
      BY <1>1, <1>3, <1>6
    <3> QED
      BY <3>1, <1>1 DEF OrderInv, InOrder
  <2>6. At' = At + 1
    BY <2>2, <2>5, <1>5 DEF At
  <2> QED
    BY <1>3, <2>4, <2>6 DEF Upcoming
<1>7. CASE ~(l < Len(slabs[i]))
  <2>1. l = Len(slabs[i])
    BY <1>1, <1>3, <1>7
  <2>2. next' = <<i + 1, 1>>
    BY <1>1, <1>7 DEF NextPlace
  <2>3. next'[1] = i + 1 /\ next'[2] = 1
    BY <2>2
  <2>4. CASE i = num
    <3>1. AtEnd'
      BY <2>3, <2>4, <1>2 DEF AtEnd
    <3>2. At = Len(input)
      <4>1. Len(input) > 0
        BY <1>2, <1>3
      <4> QED
        BY <4>1, <2>1, <2>4, <1>5 DEF OrderInv, InOrder
    <3> QED
      BY <1>3, <3>1, <3>2 DEF Upcoming
  <2>5. CASE i # num
    <3>1. i \in 1 .. num - 1 /\ i + 1 \in 1 .. num
      BY <2>5, <1>1, <1>2
    <3>2. SlabMax(i + 1) = Len(slabs[i + 1]) /\ Len(slabs[i + 1]) \in Nat
      BY <3>1, SlabMaxIs
    <3>3. Len(slabs[i + 1]) > 0
      <4>1. CASE i + 1 = num
        <5>1. Len(input) > 0
          BY <1>2, <1>3
        <5> QED
          BY <4>1, <5>1 DEF OrderInv, InOrder
      <4>2. CASE i + 1 # num
        <5>1. i + 1 \in 1 .. num - 1
          <6> HIDE DEF i, num
          <6> QED
            BY <4>2, <3>1, <1>2
        <5> QED
          BY <5>1, SlabsNonempty
      <4> QED
        BY <4>1, <4>2
    <3>4. ~(i + 1 > num) /\ ~(1 > SlabMax(i + 1))
      BY <3>1, <3>2, <3>3, <1>2
    <3>5. ~AtEnd'
      BY <2>3, <3>4, <1>4 DEF AtEnd
    <3>6. slabs[i + 1][1] = slabs[i][Len(slabs[i])] + 1
      BY <3>1 DEF OrderInv, InOrder
    <3>7. At' = At + 1
      BY <2>1, <2>3, <3>6, <1>5 DEF At
    <3> QED
      BY <1>3, <3>5, <3>7 DEF Upcoming
  <2> QED
    BY <2>4, <2>5
<1> QED
  BY <1>6, <1>7
-----------------------------------------------------------------------------
(* Arrays.  The scan announces what the members it has seen can add to a   *)
(* repeated field; what the third pass has stored and what the members it  *)
(* has not yet taken can still add never exceed that.                      *)

\* 0 stands for the unknown fields.
Counted == {0} \cup {k \in Fields : desc[k].label = "repeated"}

\* What member p can add, and the sums of that from each member on.
Weight(k, p) ==
  IF input[p].tag # k THEN 0 ELSE IF k = 0 THEN 1 ELSE CountElements(k, input[p])

Remaining(k, d) ==
  /\ d[Len(input)] = 0
  /\ \A p \in 1 .. Len(input) : d[p - 1] = d[p] + Weight(k, p)

Announced(k) ==
  IF k = 0 THEN n_unknown
  ELSE IF phase = "scan" \/ (phase = "fields" /\ k >= f) THEN rv[k].n ELSE rv[k].room

Used(k) == IF k = 0 THEN Len(unknown_fields) ELSE Len(rv[k].elements)

RoomOK ==
  /\ phase \in {"scan", "fields"} =>
       \A k \in Counted : \E d \in [0 .. Len(input) -> Nat] :
         Remaining(k, d) /\ Announced(k) = d[0]
  /\ phase = "parse" =>
       \A k \in Counted : \E d \in [0 .. Len(input) -> Nat] :
         Remaining(k, d) /\ Used(k) + d[Upcoming - 1] <= Announced(k)

LEMMA UpcomingIs ==
  ASSUME Inv
  PROVE  Upcoming \in 1 .. Len(input) + 1
<1>1. Len(input) \in Nat /\ DOMAIN input = 1 .. Len(input)
  BY DEF Inv, TypeOK
<1>2. CASE AtEnd
  BY <1>1, <1>2 DEF Upcoming
<1>3. CASE ~AtEnd
  <2>1. At \in DOMAIN input
    BY <1>3, AtIs
  <2> QED
    BY <1>1, <1>3, <2>1 DEF Upcoming
<1> QED
  BY <1>2, <1>3

\* That is enough while unpack is at work.
LEMMA RoomGives == Inv /\ RoomOK /\ phase \in {"scan", "fields", "parse"} => ArraysInBounds
<1> SUFFICES ASSUME Inv, RoomOK, phase \in {"scan", "fields", "parse"} PROVE ArraysInBounds
  OBVIOUS
<1>1. /\ Fields = 1 .. Len(desc) /\ Len(desc) \in Nat /\ rv \in [Fields -> Slot] /\ n_unknown \in Nat
      /\ unknown_fields \in Seq(Nat)
  BY DescIs DEF Inv, TypeOK
<1>2. \A k \in Fields : rv[k].room \in Nat /\ rv[k].elements \in Seq(Nat \X Nat)
  BY <1>1 DEF Slot
<1>3. CASE phase \in {"scan", "fields"}
  <2>1. Unparsed
    BY <1>3 DEF Inv, Stages
  <2>2. Len(unknown_fields) = 0 /\ \A k \in Fields : Len(rv[k].elements) = 0
    BY <2>1 DEF Unparsed
  <2> QED
    BY <1>1, <1>2, <2>2 DEF ArraysInBounds
<1>4. CASE phase = "parse"
  <2>0. Len(input) \in Nat /\ Upcoming \in 1 .. Len(input) + 1
    BY UpcomingIs DEF Inv, TypeOK
  <2>1. ASSUME NEW k \in Counted, Used(k) \in Nat PROVE Used(k) <= Announced(k)
    <3>1. PICK d \in [0 .. Len(input) -> Nat] : Used(k) + d[Upcoming - 1] <= Announced(k)
      BY <1>4 DEF RoomOK
    <3>2. Upcoming - 1 \in 0 .. Len(input)
      BY <2>0
    <3>3. d[Upcoming - 1] \in Nat
      BY <3>2
    <3>4. Announced(k) \in Nat
      BY <1>1, <1>2, <1>4 DEF Announced, Counted
    <3> QED
      BY <2>1, <3>1, <3>3, <3>4
  <2>2. Len(unknown_fields) <= n_unknown
    <3>1. 0 \in Counted /\ Used(0) = Len(unknown_fields) /\ Announced(0) = n_unknown
      BY DEF Counted, Used, Announced
    <3> QED
      BY <3>1, <2>1, <1>1
  <2>3. ASSUME NEW k \in Fields PROVE Len(rv[k].elements) <= rv[k].room
    <3>1. CASE desc[k].label = "repeated"
      <4>0. k # 0
        BY <1>1
      <4>1. k \in Counted /\ Used(k) = Len(rv[k].elements) /\ Announced(k) = rv[k].room
        BY <3>1, <4>0, <1>4 DEF Counted, Used, Announced
      <4>2. Used(k) \in Nat
        BY <4>1, <1>2
      <4> QED
        BY <4>1, <4>2, <2>1
    <3>2. CASE desc[k].label # "repeated"
      BY <3>2, <1>2, <1>4 DEF Inv, Stages
    <3> QED
      BY <3>1, <3>2
  <2> QED
    BY <2>2, <2>3 DEF ArraysInBounds
<1> QED
  BY <1>3, <1>4

LEMMA RoomGivesNext == (Inv /\ RoomOK /\ phase \in {"scan", "fields", "parse"} => ArraysInBounds)'
BY RoomGives, PTL

LEMMA ScanRoom ==
  ASSUME Inv, RoomOK, NEW c \in 0 .. Len(desc), NEW m \in MembersOf(c), ScanMember(m)
  PROVE  RoomOK'
<1>1. /\ desc \in Descriptors /\ input \in Seq(Member) /\ Len(input) \in Nat /\ n_unknown \in Nat
      /\ rv \in [Fields -> Slot] /\ phase = "scan"
  BY DEF Inv, TypeOK, ScanMember
<1>2. m \in Member /\ m.tag = c
  BY <1>1, MemberIs
<1>3. Fields = 1 .. Len(desc) /\ Len(desc) \in Nat
  BY <1>1, DescIs
<1>4. /\ input' = Append(input, m) /\ phase' = phase /\ desc' = desc
      /\ n_unknown' = IF c = 0 THEN n_unknown + 1 ELSE n_unknown
      /\ rv' = IF c # 0 /\ desc[c].label = "repeated"
               THEN [rv EXCEPT ![c].n = @ + CountElements(c, m)] ELSE rv
  BY <1>2 DEF ScanMember, Scanned
<1>0. PICK num \in Nat : num = Len(input)
  BY <1>1
<1>5. /\ Len(input') = num + 1 /\ input'[num + 1] = m
      /\ \A p \in 1 .. num : input'[p] = input[p]
  BY <1>0, <1>1, <1>2, <1>4
<1>6. Fields' = Fields /\ Counted' = Counted
  BY <1>4 DEF Fields, Counted
<1> SUFFICES ASSUME NEW k \in Counted
             PROVE  \E e \in [0 .. Len(input') -> Nat] : Remaining(k, e)' /\ Announced(k)' = e[0]
  BY <1>1, <1>4, <1>6 DEF RoomOK
<1> DEFINE w == IF c # k THEN 0 ELSE IF k = 0 THEN 1 ELSE CountElements(k, m)
<1>7. w \in Nat
  <2>1. k # 0 => k \in Fields
    BY DEF Counted
  <2>2. k # 0 => CountElements(k, m) \in Nat
    BY <2>1, <1>1, <1>2, CountIs
  <2> QED
    BY <2>2
<1>8. Weight(k, num + 1)' = w /\ \A p \in 1 .. num : Weight(k, p)' = Weight(k, p)
  <2>1. CountElements(k, m)' = CountElements(k, m) /\
        \A p : CountElements(k, input[p])' = IF ~IsPacked(desc[k], input'[p]) THEN 1
                 ELSE IF desc[k].type = "varint" THEN Cardinality(Ends(input'[p].data))
                 ELSE Len(input'[p].data)
    BY <1>4 DEF CountElements, IsPacked, Packable, Ends
  <2>2. ASSUME NEW p PROVE Weight(k, p)' = IF input'[p].tag # k THEN 0 ELSE IF k = 0 THEN 1
                                          ELSE CountElements(k, input'[p])
    BY <2>1 DEF Weight, CountElements
  <2>3. Weight(k, num + 1)' = w
    BY <2>2, <1>2, <1>5
  <2>4. \A p \in 1 .. num : Weight(k, p)' = Weight(k, p)
    BY <2>2, <1>5 DEF Weight
  <2> QED
    BY <2>3, <2>4
<1>9. Announced(k)' = Announced(k) + w
  <2>1. CASE k = 0
    <3>1. Announced(k) = n_unknown /\ Announced(k)' = n_unknown'
      BY <2>1 DEF Announced
    <3> QED
      BY <2>1, <3>1, <1>1, <1>4
  <2>2. CASE k # 0
    <3>1. k \in Fields /\ desc[k].label = "repeated"
      BY <2>2 DEF Counted
    <3>2. Announced(k) = rv[k].n /\ Announced(k)' = rv'[k].n
      BY <2>2, <1>1, <1>4 DEF Announced
    <3>3. rv[k] \in Slot /\ rv[k].n \in Nat
      BY <1>1, <3>1 DEF Slot
    <3>4. CASE c = k
      <4> DEFINE s == [rv[k] EXCEPT !.n = rv[k].n + CountElements(k, m)]
      <4>1. rv' = [rv EXCEPT ![k] = s]
        BY <1>4, <2>2, <3>1, <3>4
      <4>2. s.n = rv[k].n + CountElements(k, m)
        BY <3>3 DEF Slot
      <4> HIDE DEF s
      <4>3. rv'[k] = s
        BY <4>1, <3>1, <1>1
      <4> QED
        BY <4>2, <4>3, <3>2, <3>4, <2>2
    <3>5. CASE c # k
      <4>1. rv'[k] = rv[k]
        BY <1>1, <1>4, <3>1, <3>5
      <4> QED
        BY <4>1, <3>2, <3>3, <3>5
    <3> QED
      BY <3>4, <3>5
  <2> QED
    BY <2>1, <2>2
<1>10. PICK d \in [0 .. num -> Nat] : Remaining(k, d) /\ Announced(k) = d[0]
  BY <1>0, <1>1 DEF RoomOK
<1>11. num \in Nat /\ d[num] = 0 /\ \A p \in 1 .. num : d[p - 1] = d[p] + Weight(k, p)
  BY <1>0, <1>1, <1>10 DEF Remaining
<1> HIDE DEF w
<1> DEFINE e == [p \in 0 .. num + 1 |-> IF p = num + 1 THEN 0 ELSE d[p] + w]
<1>12. e \in [0 .. num + 1 -> Nat]
  <2>1. \A p \in 0 .. num + 1 : p # num + 1 => d[p] \in Nat
    BY <1>11
  <2> QED
    BY <2>1, <1>7
<1>13. e[num + 1] = 0 /\ e[0] = d[0] + w
  BY <1>11
<1>14. ASSUME NEW p \in 1 .. num + 1 PROVE e[p - 1] = e[p] + Weight(k, p)'
  <2>1. CASE p = num + 1
    <3>1. e[p - 1] = d[num] + w /\ e[p] = 0
      BY <2>1, <1>11
    <3> QED
      BY <3>1, <2>1, <1>7, <1>8, <1>11
  <2>2. CASE p # num + 1
    <3>1. p \in 1 .. num /\ e[p - 1] = d[p - 1] + w /\ e[p] = d[p] + w
      BY <2>2, <1>11
    <3>2. d[p - 1] = d[p] + Weight(k, p) /\ Weight(k, p)' = Weight(k, p)
      BY <3>1, <1>8, <1>11
    <3>3. d[p] \in Nat /\ d[p - 1] \in Nat
      BY <3>1, <1>11
    <3>4. Weight(k, p) \in Nat
      <4>1. k # 0 => k \in Fields
        BY DEF Counted
      <4>2. input[p] \in Member
        BY <3>1, <1>0, <1>1
      <4>3. k # 0 => CountElements(k, input[p]) \in Nat
        BY <4>1, <4>2, <1>1, CountIs
      <4> QED
        BY <4>3 DEF Weight
    <3> QED
      BY <3>1, <3>2, <3>3, <3>4, <1>7
  <2> QED
    BY <2>1, <2>2
<1> HIDE DEF e
<1>18. PICK g : g = e
  OBVIOUS
<1>15. Remaining(k, g)'
  <2>1. g[num + 1] = 0 /\ \A p \in 1 .. num + 1 : g[p - 1] = g[p] + Weight(k, p)'
    BY <1>13, <1>14, <1>18
  <2> QED
    BY <2>1, <1>5 DEF Remaining
<1>16. Announced(k)' = g[0]
  BY <1>9, <1>10, <1>13, <1>18
<1>17. g \in [0 .. Len(input') -> Nat]
  BY <1>5, <1>12, <1>18
<1> QED
  BY <1>15, <1>16, <1>17

LEMMA SameRemaining ==
  ASSUME UNCHANGED <<desc, input>>
  PROVE  /\ Counted' = Counted
         /\ \A k, d : Remaining(k, d)' <=> Remaining(k, d)
<1>1. Counted' = Counted
  BY DEF Counted, Fields
<1>2. \A k, p : Weight(k, p)' = Weight(k, p)
  BY DEF Weight, CountElements, IsPacked, Packable, Ends
<1>3. \A k, d : Remaining(k, d)' <=> Remaining(k, d)
  BY <1>2 DEF Remaining
<1> QED
  BY <1>1, <1>3

\* A pass over the fields moves what the scan announced from n to the room.
LEMMA FieldsRoom ==
  ASSUME Inv, RoomOK, EndOfInput \/ FieldSucceeds
  PROVE  RoomOK'
<1>1. UNCHANGED <<desc, input, n_unknown>> /\ phase \in {"scan", "fields"} /\ phase' = "fields"
  BY DEF EndOfInput, FieldSucceeds
<1>2. /\ Fields = 1 .. Len(desc) /\ Len(desc) \in Nat /\ rv \in [Fields -> Slot] /\ f \in Nat
  BY DescIs DEF Inv, TypeOK
<1>3. ASSUME NEW k \in Counted PROVE Announced(k)' = Announced(k)
  <2>1. CASE k = 0
    BY <2>1, <1>1 DEF Announced
  <2>2. CASE k # 0
    <3>1. k \in Fields /\ desc[k].label = "repeated" /\ k \in Nat /\ k >= 1
      BY <2>2, <1>2 DEF Counted
    <3>2. CASE EndOfInput
      <4>1. f' = 1 /\ rv' = rv /\ phase = "scan"
        BY <3>2 DEF EndOfInput
      <4> QED
        BY <4>1, <3>1, <2>2, <1>1 DEF Announced
    <3>3. CASE FieldSucceeds
      <4>1. /\ phase = "fields" /\ f' = f + 1 /\ f <= Len(desc)
            /\ rv' = IF NeedsArray(f) THEN [rv EXCEPT ![f].room = rv[f].n, ![f].n = 0] ELSE rv
        BY <3>3 DEF FieldSucceeds
      <4>2. f \in Fields /\ \A i \in Fields : i >= f => rv[i].room = 0
        <5>1. f \in 1 .. Len(desc) + 1 /\ \A i \in Fields : IF i < f THEN rv[i].n = 0 ELSE rv[i].room = 0
          BY <4>1 DEF Inv, Stages
        <5>2. \A i \in Fields : i >= f => ~(i < f)
          BY <1>2
        <5> QED
          BY <5>1, <5>2, <4>1, <1>2
      <4>3. CASE k # f
        <5>1. k >= f + 1 <=> k >= f
          BY <4>3, <3>1, <1>2
        <5>2. rv'[k] = rv[k]
          BY <4>1, <4>2, <4>3, <3>1, <1>2
        <5> QED
          BY <5>1, <5>2, <4>1, <2>2, <1>1 DEF Announced
      <4>4. CASE k = f
        <5>1. k >= f /\ ~(k >= f + 1)
          BY <4>4, <3>1, <1>2
        <5>2. Announced(k) = rv[f].n /\ Announced(k)' = rv'[f].room
          BY <5>1, <4>1, <4>4, <2>2, <1>1 DEF Announced
        <5>3. rv[f] \in Slot /\ rv[f].n \in Nat
          BY <4>2, <1>2 DEF Slot
        <5>4. CASE NeedsArray(f)
          <6> DEFINE s == [rv[f] EXCEPT !.room = rv[f].n, !.n = 0]
          <6>1. rv' = [rv EXCEPT ![f] = s]
            BY <4>1, <5>4
          <6>2. s.room = rv[f].n
            BY <5>3 DEF Slot
          <6> HIDE DEF s
          <6>3. rv'[f] = s
            BY <6>1, <4>2, <1>2
          <6> QED
            BY <6>2, <6>3, <5>2
        <5>5. CASE ~NeedsArray(f)
          <6>1. rv[f].n = 0
            BY <5>3, <5>5, <4>4, <3>1 DEF NeedsArray
          <6>2. rv[f].room = 0
            BY <4>2, <5>1, <4>4
          <6> QED
            BY <6>1, <6>2, <5>2, <5>5, <4>1
        <5> QED
          BY <5>4, <5>5
      <4> QED
        BY <4>3, <4>4
    <3> QED
      BY <3>2, <3>3
  <2> QED
    BY <2>1, <2>2
<1>4. Counted' = Counted /\ \A k, d : Remaining(k, d)' <=> Remaining(k, d)
  BY <1>1, SameRemaining
<1>5. ASSUME NEW k \in Counted'
      PROVE  \E d \in [0 .. Len(input') -> Nat] : Remaining(k, d)' /\ Announced(k)' = d[0]
  <2>1. k \in Counted
    BY <1>4
  <2>2. PICK d \in [0 .. Len(input) -> Nat] : Remaining(k, d) /\ Announced(k) = d[0]
    BY <2>1, <1>1 DEF RoomOK
  <2>3. d \in [0 .. Len(input') -> Nat] /\ Remaining(k, d)' /\ Announced(k)' = d[0]
    BY <2>1, <2>2, <1>1, <1>3, <1>4
  <2> QED
    BY <2>3
<1> QED
  BY <1>1, <1>5 DEF RoomOK

LEMMA AllocateRoom ==
  ASSUME Inv, OrderInv, RoomOK, AllocateUnknown
  PROVE  RoomOK'
<1>1. /\ phase = "fields" /\ f > Len(desc) /\ phase' = "parse"
      /\ UNCHANGED <<desc, input, slabs, n_unknown, f, next, rv, unknown_fields>>
  BY DEF AllocateUnknown
<1>2. /\ Fields = 1 .. Len(desc) /\ Len(desc) \in Nat /\ rv \in [Fields -> Slot] /\ f \in Nat
      /\ n_unknown \in Nat
  BY DescIs DEF Inv, TypeOK
<1>3. Unparsed
  BY <1>1 DEF Inv, Stages
<1>4. Counted' = Counted /\ \A k, d : Remaining(k, d)' <=> Remaining(k, d)
  BY <1>1, SameRemaining
<1>5. Upcoming' = 1
  <2>1. Upcoming = 1
    BY <1>1, StartIs
  <2>2. AtEnd' <=> AtEnd
    BY <1>1 DEF AtEnd, SlabMax, SlabSize
  <2> QED
    BY <2>1, <2>2, <1>1 DEF Upcoming, At
<1>6. ASSUME NEW k \in Counted
      PROVE  Announced(k)' = Announced(k) /\ Used(k)' = 0
  <2>1. CASE k = 0
    BY <2>1, <1>1, <1>3 DEF Announced, Used, Unparsed
  <2>2. CASE k # 0
    <3>1. k \in Fields /\ ~(k >= f)
      BY <2>2, <1>1, <1>2 DEF Counted
    <3>2. Len(rv[k].elements) = 0
      BY <3>1, <1>3 DEF Unparsed
    <3> QED
      BY <3>1, <3>2, <2>2, <1>1 DEF Announced, Used
  <2> QED
    BY <2>1, <2>2
<1>7. ASSUME NEW k \in Counted'
      PROVE  \E d \in [0 .. Len(input') -> Nat] :
               Remaining(k, d)' /\ Used(k)' + d[Upcoming' - 1] <= Announced(k)'
  <2>1. k \in Counted
    BY <1>4
  <2>2. PICK d \in [0 .. Len(input) -> Nat] : Remaining(k, d) /\ Announced(k) = d[0]
    BY <2>1, <1>1 DEF RoomOK
  <2>3. d \in [0 .. Len(input') -> Nat] /\ Remaining(k, d)'
    BY <2>2, <1>1, <1>4
  <2>4. d[0] \in Nat
    <3>1. 0 \in 0 .. Len(input)
      BY DEF Inv, TypeOK
    <3> QED
      BY <3>1
  <2>5. Used(k)' = 0 /\ Announced(k)' = d[0] /\ Upcoming' - 1 = 0
    BY <2>1, <2>2, <1>5, <1>6
  <2>6. Used(k)' + d[Upcoming' - 1] <= Announced(k)'
    BY <2>4, <2>5
  <2> QED
    BY <2>3, <2>6
<1> QED
  BY <1>1, <1>7 DEF RoomOK

\* What a member adds is no more than the scan counted for it.
LEMMA AddsNoMore ==
  ASSUME Inv, phase = "parse", ~AtEnd, ParseMember, NEW k \in Counted
  PROVE  /\ Used(k)' \in Nat /\ Used(k) \in Nat /\ Weight(k, At) \in Nat
         /\ Used(k)' <= Used(k) + Weight(k, At)
         /\ Announced(k)' = Announced(k)
<1> DEFINE j == At
           m == input[j]
           t == m.tag
<1>1. /\ j \in DOMAIN input /\ j \in Nat /\ m \in Member /\ (t # 0 => t \in Fields)
  BY AtIs
<1>2. UNCHANGED <<desc, input, phase, n_unknown, f>>
  BY DEF ParseMember
<1>3. /\ Fields = 1 .. Len(desc) /\ Len(desc) \in Nat /\ rv \in [Fields -> Slot]
      /\ unknown_fields \in Seq(Nat) /\ desc \in Descriptors
  BY DescIs DEF Inv, TypeOK
<1>4. k # 0 => k \in Fields /\ desc[k].label = "repeated" /\ rv[k] \in Slot
              /\ rv[k].elements \in Seq(Nat \X Nat)
  BY <1>3 DEF Counted, Slot
<1>5. Used(k) \in Nat
  BY <1>3, <1>4 DEF Used
<1>6. Weight(k, j) = IF t # k THEN 0 ELSE IF k = 0 THEN 1 ELSE CountElements(k, m)
  BY DEF Weight
<1>7. Weight(k, j) \in Nat
  <2>1. k # 0 => CountElements(k, m) \in Nat
    BY <1>1, <1>3, <1>4, CountIs
  <2> QED
    BY <2>1, <1>6
<1>8. \/ t = 0 /\ ParseUnknown(j)
      \/ t # 0 /\ desc[t].label = "repeated" /\ IsPacked(desc[t], m) /\ ParsePacked(t, j)
      \/ t # 0 /\ desc[t].label = "repeated" /\ ~IsPacked(desc[t], m) /\ ParseElement(t, j)
      \/ t # 0 /\ desc[t].label # "repeated" /\ ParseSingle(t, j)
  BY DEF ParseMember
<1>9. \A i \in Fields : rv[i] \in Slot
  BY <1>3
<1>10. CASE t = 0 /\ ParseUnknown(j)
  <2>1. unknown_fields' = Append(unknown_fields, j) /\ rv' = rv
    BY <1>10 DEF ParseUnknown
  <2>2. Len(unknown_fields') = Len(unknown_fields) + 1
    BY <2>1, <1>1, <1>3
  <2>3. CASE k = 0
    BY <2>2, <2>3, <1>2, <1>3, <1>6, <1>10 DEF Used, Announced
  <2>4. CASE k # 0
    <3>1. Used(k)' = Used(k) /\ Announced(k)' = Announced(k)
      BY <2>1, <2>4, <1>2 DEF Used, Announced
    <3> QED
      BY <3>1, <1>5, <1>7
  <2> QED
    BY <2>3, <2>4
<1>11. ASSUME t # 0, NEW s \in Slot, rv' = [rv EXCEPT ![t] = s], unknown_fields' = unknown_fields,
              s.room = rv[t].room,
              Len(s.elements) <= Len(rv[t].elements) +
                (IF desc[t].label = "repeated" THEN CountElements(t, m) ELSE 0)
       PROVE  /\ Used(k)' \in Nat /\ Used(k)' <= Used(k) + Weight(k, j)
              /\ Announced(k)' = Announced(k)
  <2>1. t \in Fields
    BY <1>1, <1>11
  <2>2. rv'[t] = s /\ \A i \in Fields : i # t => rv'[i] = rv[i]
    BY <1>3, <1>11, <2>1
  <2>3. CASE k # t
    <3>1. Used(k)' = Used(k) /\ Announced(k)' = Announced(k)
      <4>1. CASE k = 0
        BY <4>1, <1>2, <1>11 DEF Used, Announced
      <4>2. CASE k # 0
        BY <4>2, <2>2, <2>3, <1>2, <1>4 DEF Used, Announced
      <4> QED
        BY <4>1, <4>2
    <3> QED
      BY <3>1, <1>5, <1>7
  <2>4. CASE k = t
    <3>1. Used(k)' = Len(s.elements) /\ Used(k) = Len(rv[t].elements) /\ Weight(k, j) = CountElements(t, m)
      BY <2>2, <2>4, <1>6, <1>11 DEF Used
    <3>2. desc[t].label = "repeated"
      BY <2>4, <1>4, <1>11
    <3>3. Len(s.elements) \in Nat
      BY DEF Slot
    <3>4. Announced(k)' = Announced(k)
      BY <2>2, <2>4, <1>2, <1>11, phase = "parse" DEF Announced
    <3> QED
      BY <3>1, <3>2, <3>3, <3>4, <1>11
  <2> QED
    BY <2>3, <2>4
<1>12. CASE t # 0 /\ desc[t].label = "repeated" /\ IsPacked(desc[t], m) /\ ParsePacked(t, j)
  <2> DEFINE new == PackedElements(t, j)
             old == rv[t].elements
             s   == [rv[t] EXCEPT !.elements = old \o new, !.n = rv[t].n + Len(new)]
  <2>1. rv' = [rv EXCEPT ![t] = s] /\ unknown_fields' = unknown_fields
    BY <1>12 DEF ParsePacked
  <2>2. t \in Fields /\ j \in Given(t) /\ m.data \in Seq(BOOLEAN)
    BY <1>1, <1>12 DEF Given, Member
  <2>3. new \in Seq(Nat \X Nat) /\ Len(new) <= Cardinality(Ends(m.data))
    BY <1>1, <2>2, PackedIs
  <2>4. rv[t] \in Slot /\ old \in Seq(Nat \X Nat) /\ rv[t].n \in Nat
    BY <1>9, <2>2 DEF Slot
  <2>5. Len(new) <= CountElements(t, m) /\ CountElements(t, m) \in Nat
    <3>1. Cardinality(Ends(m.data)) \in Nat /\ Cardinality(Ends(m.data)) <= Len(m.data)
      BY <2>2, EndsCounted
    <3>2. Len(m.data) \in Nat /\ Len(new) \in Nat
      BY <2>2, <2>3
    <3>3. CountElements(t, m) \in {Cardinality(Ends(m.data)), Len(m.data)}
      BY <1>12 DEF CountElements
    <3> HIDE DEF new
    <3> QED
      BY <2>3, <3>1, <3>2, <3>3
  <2> HIDE DEF new
  <2>6. old \o new \in Seq(Nat \X Nat) /\ Len(old \o new) = Len(old) + Len(new) /\ Len(old) \in Nat
    <3> HIDE DEF old
    <3> QED
      BY <2>3, <2>4
  <2>7. s \in Slot
    <3>1. rv[t].n + Len(new) \in Nat
      BY <2>3, <2>4
    <3> HIDE DEF old
    <3> QED
      BY <2>4, <2>6, <3>1, Zenon DEF Slot
  <2>8. s.elements = old \o new /\ s.room = rv[t].room
    BY <2>4 DEF Slot
  <2>9. Len(s.elements) <= Len(rv[t].elements) +
                (IF desc[t].label = "repeated" THEN CountElements(t, m) ELSE 0)
    <3>1. Len(s.elements) = Len(old) + Len(new)
      BY <2>6, <2>8, Zenon
    <3>2. Len(old) + Len(new) <= Len(old) + CountElements(t, m)
      <4> HIDE DEF old
      <4> QED
        BY <2>3, <2>5, <2>6
    <3> HIDE DEF s
    <3> QED
      BY <1>12, <3>1, <3>2
  <2> HIDE DEF s
  <2> QED
    BY <1>5, <1>7, <1>11, <1>12, <2>1, <2>7, <2>8, <2>9
<1>13. CASE t # 0 /\ desc[t].label = "repeated" /\ ~IsPacked(desc[t], m) /\ ParseElement(t, j)
  <2> DEFINE old == rv[t].elements
             s   == [rv[t] EXCEPT !.elements = Append(old, <<j, 1>>), !.n = rv[t].n + 1]
  <2>1. rv' = [rv EXCEPT ![t] = s] /\ unknown_fields' = unknown_fields
    BY <1>13 DEF ParseElement
  <2>2. rv[t] \in Slot /\ old \in Seq(Nat \X Nat) /\ rv[t].n \in Nat
    BY <1>1, <1>9, <1>13 DEF Slot
  <2>3. Append(old, <<j, 1>>) \in Seq(Nat \X Nat) /\ Len(Append(old, <<j, 1>>)) = Len(old) + 1
        /\ Len(old) \in Nat
    <3> HIDE DEF old, j
    <3> QED
      BY <2>2, <1>1
  <2>4. s \in Slot
    <3>1. rv[t].n + 1 \in Nat
      BY <2>2
    <3> DEFINE new == Append(old, <<j, 1>>)
    <3>2. new \in Seq(Nat \X Nat)
      BY <2>3
    <3>3. s = [rv[t] EXCEPT !.elements = new, !.n = rv[t].n + 1]
      OBVIOUS
    <3> HIDE DEF new, s
    <3> QED
      BY <2>2, <3>1, <3>2, <3>3, Zenon DEF Slot
  <2>5. s.elements = Append(old, <<j, 1>>) /\ s.room = rv[t].room
    BY <2>2 DEF Slot
  <2>6. CountElements(t, m) = 1
    BY <1>13 DEF CountElements
  <2>7. Len(s.elements) <= Len(rv[t].elements) +
                (IF desc[t].label = "repeated" THEN CountElements(t, m) ELSE 0)
    <3>1. Len(s.elements) = Len(old) + 1 /\ Len(old) \in Nat
      BY <2>3, <2>5, Zenon
    <3> HIDE DEF s
    <3> QED
      BY <1>13, <3>1, <2>6
  <2> HIDE DEF s
  <2> QED
    BY <1>5, <1>7, <1>11, <1>13, <2>1, <2>4, <2>5, <2>7
<1>14. CASE t # 0 /\ desc[t].label # "repeated" /\ ParseSingle(t, j)
  <2> DEFINE has == HasFlag(t)
             s   == [rv[t] EXCEPT !.value = j, !.has = has]
  <2>1. rv' = [rv EXCEPT ![t] = s] /\ unknown_fields' = unknown_fields
    BY <1>14 DEF ParseSingle
  <2>2. rv[t] \in Slot /\ has \in BOOLEAN
    BY <1>1, <1>9, <1>14 DEF HasFlag
  <2>3. Len(rv[t].elements) \in Nat
    BY <2>2 DEF Slot
  <2>4. s \in Slot
    <3> HIDE DEF has, j
    <3> QED
      BY <2>2, <1>1, Zenon DEF Slot
  <2>5. s.elements = rv[t].elements /\ s.room = rv[t].room
    BY <2>2 DEF Slot
  <2>6. Len(s.elements) <= Len(rv[t].elements) +
                (IF desc[t].label = "repeated" THEN CountElements(t, m) ELSE 0)
    BY <1>14, <2>3, <2>5
  <2> HIDE DEF s
  <2> QED
    BY <1>5, <1>7, <1>11, <1>14, <2>1, <2>4, <2>5, <2>6
<1> QED
  BY <1>5, <1>7, <1>8, <1>10, <1>12, <1>13, <1>14

LEMMA ParseRoom ==
  ASSUME Inv, OrderInv, RoomOK, ParseMember
  PROVE  RoomOK'
<1>1. phase = "parse" /\ ~AtEnd /\ next' = NextPlace(next) /\ UNCHANGED <<desc, input, phase, slabs>>
  BY DEF ParseMember
<1>2. At \in 1 .. Len(input) /\ Upcoming = At /\ Upcoming' = At + 1 /\ Len(input) \in Nat
  BY <1>1, AdvanceIs DEF Inv, TypeOK
<1>3. Counted' = Counted /\ \A k, d : Remaining(k, d)' <=> Remaining(k, d)
  BY <1>1, SameRemaining
<1>4. ASSUME NEW k \in Counted'
      PROVE  \E d \in [0 .. Len(input') -> Nat] :
               Remaining(k, d)' /\ Used(k)' + d[Upcoming' - 1] <= Announced(k)'
  <2>1. k \in Counted
    BY <1>3
  <2>2. PICK d \in [0 .. Len(input) -> Nat] : Remaining(k, d) /\ Used(k) + d[Upcoming - 1] <= Announced(k)
    BY <2>1, <1>1 DEF RoomOK
  <2>3. d \in [0 .. Len(input') -> Nat] /\ Remaining(k, d)'
    BY <2>2, <1>1, <1>3
  <2>4. /\ Used(k)' \in Nat /\ Used(k) \in Nat /\ Weight(k, At) \in Nat
        /\ Used(k)' <= Used(k) + Weight(k, At) /\ Announced(k)' = Announced(k)
    BY <2>1, <1>1, AddsNoMore
  <2>5. d[At - 1] = d[At] + Weight(k, At)
    BY <2>2, <1>2 DEF Remaining
  <2>6. At \in 0 .. Len(input) /\ At - 1 \in 0 .. Len(input) /\ At + 1 - 1 = At
    BY <1>2
  <2>7. d[At] \in Nat /\ d[At - 1] \in Nat
    BY <2>6
  <2>8. Announced(k) \in Nat
    <3>1. rv \in [Fields -> Slot] /\ n_unknown \in Nat
      BY DEF Inv, TypeOK
    <3>2. k # 0 => k \in Fields
      BY <2>1 DEF Counted
    <3>3. k # 0 => rv[k].room \in Nat
      BY <3>1, <3>2 DEF Slot
    <3> QED
      BY <3>1, <3>3, <1>1 DEF Announced
  <2>9. Used(k)' + d[At] <= Announced(k)
    <3>1. Used(k) + d[At - 1] <= Announced(k)
      BY <2>2, <1>2
    <3> QED
      BY <3>1, <2>4, <2>5, <2>7, <2>8
  <2>10. Used(k)' + d[Upcoming' - 1] <= Announced(k)'
    BY <2>4, <2>6, <2>9, <1>2
  <2> QED
    BY <2>3, <2>10
<1> QED
  BY <1>1, <1>4 DEF RoomOK

LEMMA RoomStep ==
  ASSUME Inv, OrderInv, RoomOK, [Next]_vars
  PROVE  RoomOK'
<1>1. CASE \E k \in 0 .. Len(desc) : \E m \in MembersOf(k) : ScanMember(m)
  BY <1>1, ScanRoom
<1>2. CASE EndOfInput \/ FieldSucceeds
  BY <1>2, FieldsRoom
<1>3. CASE AllocateUnknown
  BY <1>3, AllocateRoom
<1>4. CASE ParseMember
  BY <1>4, ParseRoom
<1>5. CASE phase' \in {"done", "failed", "freed"}
  BY <1>5 DEF RoomOK
<1>6. CASE ScanFails \/ FieldFails \/ AllocateUnknownFails \/ UnknownFails \/ Succeed \/ FreeUnpacked
  <2>1. phase' \in {"done", "failed", "freed"}
    BY <1>6 DEF ScanFails, FailScan, FieldFails, AllocateUnknownFails, UnknownFails, FailWith,
                Succeed, FreeUnpacked
  <2> QED
    BY <2>1, <1>5
<1>7. CASE ParseFails \/ ValueFails
  <2>1. phase' = "failed"
    BY <1>7, Zenon DEF ParseFails, ValueFails, FailWith
  <2> QED
    BY <2>1, <1>5
<1>8. CASE Returned
  BY <1>5, <1>8 DEF Returned, vars
<1>9. CASE UNCHANGED vars
  <2>1. UNCHANGED <<desc, input, phase, slabs, n_unknown, f, next, rv, unknown_fields>>
    BY <1>9 DEF vars
  <2>2. Counted' = Counted /\ \A k, d : Remaining(k, d)' <=> Remaining(k, d)
    BY <2>1, SameRemaining
  <2>3. \A k : Announced(k)' = Announced(k) /\ Used(k)' = Used(k)
    BY <2>1 DEF Announced, Used
  <2>4. Upcoming' = Upcoming
    BY <2>1 DEF Upcoming, At, AtEnd, SlabMax, SlabSize
  <2> QED
    BY <2>1, <2>2, <2>3, <2>4, Zenon DEF RoomOK
<1> QED
  BY <1>1, <1>2, <1>3, <1>4, <1>6, <1>7, <1>8, <1>9 DEF Next

\* A message that is given up keeps its arrays, and what a broken packed member
\* left in one was counted by the scan.
LEMMA FailBounds ==
  ASSUME Inv, OrderInv, RoomOK, ArraysInBounds, ParseFails
  PROVE  ArraysInBounds'
<1> DEFINE j   == At
           m   == input[j]
           k   == m.tag
           new == PackedElements(k, j)
           old == rv[k].elements
           s   == [rv[k] EXCEPT !.elements = old \o new]
<1>1. phase = "parse" /\ ~AtEnd /\ k # 0
  BY DEF ParseFails
<1>2. UNCHANGED <<desc, n_unknown, unknown_fields>>
  BY Zenon DEF ParseFails, FailWith
<1>3. \/ /\ desc[k].label = "repeated" /\ IsPacked(desc[k], m) /\ rv' = [rv EXCEPT ![k] = s]
      \/ rv' = rv
  BY DEF ParseFails, FailWith
<1>4. CASE rv' = rv
  BY <1>2, <1>4 DEF ArraysInBounds, Fields
<1>5. CASE desc[k].label = "repeated" /\ IsPacked(desc[k], m) /\ rv' = [rv EXCEPT ![k] = s]
  <2>1. k \in Fields /\ j \in DOMAIN input /\ j \in Given(k) /\ m \in Member /\ Upcoming = j
    BY <1>1, AtIs DEF Given, Upcoming
  <2>2. new \in Seq(Nat \X Nat) /\ Len(new) <= Cardinality(Ends(m.data)) /\ m.data \in Seq(BOOLEAN)
    BY <2>1, PackedIs DEF Member
  <2>3. rv \in [Fields -> Slot] /\ rv[k] \in Slot /\ old \in Seq(Nat \X Nat) /\ rv[k].room \in Nat
    BY <2>1 DEF Slot, Inv, TypeOK
  <2>4. Len(new) <= CountElements(k, m) /\ CountElements(k, m) \in Nat
    <3>1. Cardinality(Ends(m.data)) \in Nat /\ Cardinality(Ends(m.data)) <= Len(m.data)
      BY <2>2, EndsCounted
    <3>2. Len(m.data) \in Nat /\ Len(new) \in Nat
      BY <2>2
    <3>3. CountElements(k, m) \in {Cardinality(Ends(m.data)), Len(m.data)}
      BY <1>5 DEF CountElements
    <3> HIDE DEF new
    <3> QED
      BY <2>2, <3>1, <3>2, <3>3
  <2>5. k \in Counted /\ Used(k) = Len(old) /\ Announced(k) = rv[k].room /\ Weight(k, j) = CountElements(k, m)
    BY <2>1, <1>1, <1>5 DEF Counted, Used, Announced, Weight
  <2>6. PICK d \in [0 .. Len(input) -> Nat] : Remaining(k, d) /\ Used(k) + d[Upcoming - 1] <= Announced(k)
    BY <2>5, <1>1 DEF RoomOK
  <2>7. Len(input) \in Nat /\ j \in 1 .. Len(input)
    BY <2>1 DEF Inv, TypeOK
  <2>8. d[j - 1] = d[j] + CountElements(k, m)
    BY <2>5, <2>6, <2>7 DEF Remaining
  <2>9. d[j] \in Nat /\ d[j - 1] \in Nat /\ Len(old) + d[j - 1] <= rv[k].room
    <3>1. j \in 0 .. Len(input) /\ j - 1 \in 0 .. Len(input)
      BY <2>7
    <3>2. Len(old) + d[j - 1] <= rv[k].room
      BY <2>1, <2>5, <2>6
    <3> QED
      BY <3>1, <3>2
  <2> HIDE DEF new, old, j
  <2>10. Len(old \o new) = Len(old) + Len(new) /\ Len(old) \in Nat /\ Len(new) \in Nat
    BY <2>2, <2>3
  <2>11. Len(old \o new) <= rv[k].room
    <3> HIDE DEF k, m
    <3> QED
      BY <2>3, <2>4, <2>8, <2>9, <2>10
  <2>12. s.elements = old \o new /\ s.room = rv[k].room
    BY <2>3 DEF Slot
  <2> HIDE DEF s, k, m
  <2>13. rv'[k] = s /\ \A i \in Fields : i # k => rv'[i] = rv[i]
    BY <1>5, <2>1, <2>3
  <2>14. \A i \in Fields : Len(rv'[i].elements) <= rv'[i].room
    BY <2>11, <2>12, <2>13 DEF ArraysInBounds
  <2> QED
    BY <2>14, <1>2 DEF ArraysInBounds, Fields
<1> QED
  BY <1>3, <1>4, <1>5

LEMMA BoundsStep ==
  ASSUME Inv, OrderInv, RoomOK, ArraysInBounds, [Next]_vars
  PROVE  ArraysInBounds'
<1>1. Inv' /\ RoomOK'
  BY InvStep, RoomStep
<1>2. CASE phase' \in {"scan", "fields", "parse"}
  BY <1>1, <1>2, RoomGivesNext
<1>3. CASE \/ \E k \in 0 .. Len(desc) : \E m \in MembersOf(k) : ScanMember(m)
           \/ EndOfInput \/ FieldSucceeds \/ AllocateUnknown \/ ParseMember
  <2>1. phase' \in {"scan", "fields", "parse"}
    BY <1>3 DEF ScanMember, Scanned, EndOfInput, FieldSucceeds, AllocateUnknown, ParseMember
  <2> QED
    BY <2>1, <1>2
<1>4. CASE \/ ScanFails \/ AllocateUnknownFails \/ UnknownFails \/ Succeed \/ FreeUnpacked
           \/ Returned \/ UNCHANGED vars
  <2>1. UNCHANGED <<desc, rv, n_unknown, unknown_fields>>
    BY <1>4 DEF ScanFails, FailScan, AllocateUnknownFails, UnknownFails, FailWith,
                Succeed, FreeUnpacked, Returned, vars
  <2> QED
    BY <2>1 DEF ArraysInBounds, Fields
<1>5. CASE FieldFails
  <2>1. UNCHANGED <<desc, n_unknown, unknown_fields>> /\ rv' = ClearRemaining(f)
    BY <1>5 DEF FieldFails, FailWith
  <2>2. \A k \in Fields : rv[k] \in Slot
    BY DEF Inv, TypeOK
  <2>3. \A k \in Fields : rv'[k].elements = rv[k].elements /\ rv'[k].room = rv[k].room
    BY <2>1, <2>2 DEF ClearRemaining, Slot
  <2> QED
    BY <2>1, <2>3 DEF ArraysInBounds, Fields
<1>6. CASE ParseFails
  BY <1>6, FailBounds
<1>7. CASE ValueFails
  <2> DEFINE k == input[At].tag
             s == [rv[k] EXCEPT !.value = 0]
  <2>1. UNCHANGED <<desc, n_unknown, unknown_fields>> /\ ~AtEnd /\ k # 0
    BY <1>7, Zenon DEF ValueFails, FailWith
  <2>2. rv' = rv \/ rv' = [rv EXCEPT ![k] = s]
    BY <1>7 DEF ValueFails, FailWith, DropValue
  <2>3. k \in Fields
    BY <2>1, AtIs
  <2>4. rv \in [Fields -> Slot] /\ rv[k] \in Slot
    BY <2>3 DEF Inv, TypeOK
  <2>5. s.elements = rv[k].elements /\ s.room = rv[k].room
    BY <2>4 DEF Slot
  <2> HIDE DEF s, k
  <2>6. \A i \in Fields : rv'[i].elements = rv[i].elements /\ rv'[i].room = rv[i].room
    BY <2>2, <2>3, <2>4, <2>5
  <2> QED
    BY <2>1, <2>6 DEF ArraysInBounds, Fields
<1> QED
  BY <1>3, <1>4, <1>5, <1>6, <1>7 DEF Next

\* The arrays that were allocated from the scan's counts are never overrun, of
\* packed members that break off too, and neither is the one of unknown fields.
THEOREM ArraysNeverOverrun == Spec => []ArraysInBounds
<1>1. Init => RoomOK /\ ArraysInBounds
  <2> SUFFICES ASSUME Init PROVE RoomOK /\ ArraysInBounds
    OBVIOUS
  <2>1. Inv
    BY InvInit
  <2>2. Len(input) = 0 /\ phase = "scan" /\ n_unknown = 0 /\ \A k \in Fields : rv[k].n = 0
    BY DEF Init, EmptySlot
  <2>3. \A k \in Counted : Announced(k) = 0
    BY <2>2 DEF Counted, Announced
  <2> DEFINE d == [p \in 0 .. 0 |-> 0]
  <2>4. d \in [0 .. Len(input) -> Nat] /\ d[0] = 0
    BY <2>2
  <2>5. \A k : Remaining(k, d)
    BY <2>2, <2>4 DEF Remaining
  <2> HIDE DEF d
  <2>6. RoomOK
    BY <2>2, <2>3, <2>4, <2>5 DEF RoomOK
  <2> QED
    BY <2>1, <2>2, <2>6, RoomGives
<1>2. Inv /\ OrderInv /\ (RoomOK /\ ArraysInBounds) /\ [Next]_vars => (RoomOK /\ ArraysInBounds)'
  BY RoomStep, BoundsStep
<1> QED
  BY <1>1, <1>2, InvHolds, OrderHolds, PTL DEF Spec
-----------------------------------------------------------------------------
(* The result.  After p members the message holds what they say.           *)

ElementsUpTo(k, p) == FlattenSeq([j \in 1 .. p |-> ElementsOf(k, j)])
UnknownUpTo(p)     == FlattenSeq([j \in 1 .. p |-> UnknownOf(j)])

GivenUpTo(k, p) == {j \in Given(k) : j <= p}

LatestUpTo(k, p) ==
  /\ IF GivenUpTo(k, p) = {} THEN rv[k].value = 0
     ELSE rv[k].value \in GivenUpTo(k, p) /\ \A j \in GivenUpTo(k, p) : j <= rv[k].value
  /\ rv[k].has = (HasFlag(k) /\ GivenUpTo(k, p) # {})

ExactTo(p) ==
  /\ \A k \in Fields : IF desc[k].label = "repeated" THEN rv[k].elements = ElementsUpTo(k, p)
                       ELSE LatestUpTo(k, p)
  /\ unknown_fields = UnknownUpTo(p)

ExactInv ==
  /\ phase \in {"scan", "fields"} => \A k \in Fields : rv[k].has = FALSE
  /\ phase = "parse" => \A p \in Nat : p = Upcoming - 1 => ExactTo(p)
  /\ phase = "done" => \A p \in Nat : p = Len(input) => ExactTo(p)

\* One member more.
LEMMA OneMore ==
  ASSUME NEW S, NEW e, NEW num \in Nat, NEW p \in 1 .. num,
         \A j \in 1 .. num : e[j] \in Seq(S)
  PROVE  /\ FlattenSeq([j \in 1 .. p |-> e[j]]) = FlattenSeq([j \in 1 .. p - 1 |-> e[j]]) \o e[p]
         /\ FlattenSeq([j \in 1 .. p - 1 |-> e[j]]) \in Seq(S)
<1> DEFINE ss == [j \in 1 .. p - 1 |-> e[j]]
           g  == [j \in 1 .. p |-> e[j]]
<1>1. p - 1 \in Nat /\ p \in Nat /\ e[p] \in Seq(S)
  OBVIOUS
<1>2. \A j \in 1 .. p - 1 : e[j] \in Seq(S)
  OBVIOUS
<1>3. ss \in Seq(Seq(S)) /\ Len(ss) = p - 1
  BY <1>1, <1>2
<1>4. g = Append(ss, e[p])
  <2>1. Append(ss, e[p]) \in Seq(Seq(S)) /\ Len(Append(ss, e[p])) = p
    <3> HIDE DEF ss
    <3> QED
      BY <1>1, <1>3
  <2>2. g \in Seq(Seq(S)) /\ Len(g) = p
    BY <1>1
  <2>3. ASSUME NEW j \in 1 .. p PROVE g[j] = Append(ss, e[p])[j]
    <3>1. CASE j = p
      <4>1. Append(ss, e[p])[Len(ss) + 1] = e[p]
        <5> HIDE DEF ss
        <5> QED
          BY <1>1, <1>3
      <4> QED
        BY <3>1, <4>1, <1>1, <1>3
    <3>2. CASE j # p
      <4>1. j \in 1 .. p - 1 /\ j \in 1 .. Len(ss)
        BY <3>2, <1>1, <1>3
      <4>2. Append(ss, e[p])[j] = ss[j]
        <5> HIDE DEF ss
        <5> QED
          BY <1>1, <1>3, <4>1
      <4> QED
        BY <4>1, <4>2
    <3> QED
      BY <3>1, <3>2
  <2> HIDE DEF g, ss
  <2> QED
    BY <2>1, <2>2, <2>3, SeqEqual
<1> HIDE DEF g, ss
<1>5. FlattenSeq(ss) \in Seq(S) /\ FlattenSeq(Append(ss, e[p])) = FlattenSeq(ss) \o e[p]
  BY <1>1, <1>3, FlattenAppend
<1> QED
  BY <1>4, <1>5 DEF g, ss

LEMMA ElementsTyped ==
  ASSUME Inv, NEW k \in Fields, NEW j \in DOMAIN input
  PROVE  ElementsOf(k, j) \in Seq(Nat \X Nat)
<1>1. input \in Seq(Member)
  BY DEF Inv, TypeOK
<1>2. input[j] \in Member /\ j \in Nat
  BY <1>1
<1>3. input[j].data \in Seq(BOOLEAN)
  BY <1>2 DEF Member
<1> DEFINE num == Cardinality(Ends(input[j].data))
<1>4. num \in Nat
  BY <1>3, EndsCounted
<1> HIDE DEF num
<1>5. [i \in 1 .. num |-> <<j, i>>] \in Seq(Nat \X Nat)
  BY <1>2, <1>4
<1>6. << <<j, 1>> >> \in Seq(Nat \X Nat) /\ <<>> \in Seq(Nat \X Nat)
  BY <1>2
<1> QED
  BY <1>5, <1>6, Zenon DEF ElementsOf, num

LEMMA ElementsMore ==
  ASSUME Inv, NEW k \in Fields, NEW p \in 1 .. Len(input)
  PROVE  ElementsUpTo(k, p) = ElementsUpTo(k, p - 1) \o ElementsOf(k, p)
         /\ ElementsUpTo(k, p - 1) \in Seq(Nat \X Nat)
<1> DEFINE num == Len(input)
           e == [j \in 1 .. num |-> ElementsOf(k, j)]
<1>1. num \in Nat /\ DOMAIN input = 1 .. num
  BY DEF Inv, TypeOK
<1>2. \A j \in 1 .. num : e[j] = ElementsOf(k, j) /\ e[j] \in Seq(Nat \X Nat)
  BY <1>1, ElementsTyped
<1>3. \A q \in 0 .. num : [j \in 1 .. q |-> ElementsOf(k, j)] = [j \in 1 .. q |-> e[j]]
  <2> SUFFICES ASSUME NEW q \in 0 .. num
               PROVE  [j \in 1 .. q |-> ElementsOf(k, j)] = [j \in 1 .. q |-> e[j]]
    OBVIOUS
  <2>1. \A j \in 1 .. q : j \in 1 .. num
    BY <1>1
  <2> HIDE DEF e
  <2> QED
    BY <2>1, <1>2
<1>4. p \in 0 .. num /\ p - 1 \in 0 .. num
  BY <1>1
<1> HIDE DEF e, num
<1>5. /\ FlattenSeq([j \in 1 .. p |-> e[j]]) = FlattenSeq([j \in 1 .. p - 1 |-> e[j]]) \o e[p]
      /\ FlattenSeq([j \in 1 .. p - 1 |-> e[j]]) \in Seq(Nat \X Nat)
  <2>1. p \in 1 .. num
    BY DEF num
  <2> QED
    BY <1>1, <1>2, <2>1, OneMore
<1>6. e[p] = ElementsOf(k, p)
  BY <1>2 DEF num
<1> QED
  BY <1>3, <1>4, <1>5, <1>6, Zenon DEF ElementsUpTo

LEMMA UnknownMore ==
  ASSUME Inv, NEW p \in 1 .. Len(input)
  PROVE  UnknownUpTo(p) = UnknownUpTo(p - 1) \o UnknownOf(p)
         /\ UnknownUpTo(p - 1) \in Seq(Nat)
<1> DEFINE num == Len(input)
           e == [j \in 1 .. num |-> UnknownOf(j)]
<1>1. num \in Nat
  BY DEF Inv, TypeOK
<1>2. \A j \in 1 .. num : e[j] = UnknownOf(j) /\ e[j] \in Seq(Nat)
  BY <1>1 DEF UnknownOf
<1>3. \A q \in 0 .. num : [j \in 1 .. q |-> UnknownOf(j)] = [j \in 1 .. q |-> e[j]]
  <2> SUFFICES ASSUME NEW q \in 0 .. num
               PROVE  [j \in 1 .. q |-> UnknownOf(j)] = [j \in 1 .. q |-> e[j]]
    OBVIOUS
  <2>1. \A j \in 1 .. q : j \in 1 .. num
    BY <1>1
  <2> HIDE DEF e
  <2> QED
    BY <2>1, <1>2
<1>4. p \in 0 .. num /\ p - 1 \in 0 .. num
  BY <1>1
<1> HIDE DEF e, num
<1>5. /\ FlattenSeq([j \in 1 .. p |-> e[j]]) = FlattenSeq([j \in 1 .. p - 1 |-> e[j]]) \o e[p]
      /\ FlattenSeq([j \in 1 .. p - 1 |-> e[j]]) \in Seq(Nat)
  <2>1. p \in 1 .. num
    BY DEF num
  <2> QED
    BY <1>1, <1>2, <2>1, OneMore
<1>6. e[p] = UnknownOf(p)
  BY <1>2 DEF num
<1> QED
  BY <1>3, <1>4, <1>5, <1>6, Zenon DEF UnknownUpTo

LEMMA SameUpTo ==
  ASSUME UNCHANGED <<desc, input>>
  PROVE  /\ \A k, p : ElementsUpTo(k, p)' = ElementsUpTo(k, p)
         /\ \A p : UnknownUpTo(p)' = UnknownUpTo(p)
         /\ \A k, p : GivenUpTo(k, p)' = GivenUpTo(k, p)
         /\ \A k : HasFlag(k)' = HasFlag(k)
         /\ Fields' = Fields
<1>1. \A k, j : ElementsOf(k, j)' = ElementsOf(k, j)
  BY DEF ElementsOf, IsPacked, Packable, Ends
<1>2. \A j : UnknownOf(j)' = UnknownOf(j)
  BY DEF UnknownOf
<1>3. \A k, p : ElementsUpTo(k, p)' = ElementsUpTo(k, p)
  BY <1>1, Zenon DEF ElementsUpTo
<1>4. \A p : UnknownUpTo(p)' = UnknownUpTo(p)
  BY <1>2, Zenon DEF UnknownUpTo
<1>5. \A k, p : GivenUpTo(k, p)' = GivenUpTo(k, p)
  BY DEF GivenUpTo, Given
<1>6. \A k : HasFlag(k)' = HasFlag(k)
  BY DEF HasFlag
<1>7. Fields' = Fields
  BY DEF Fields
<1> QED
  BY <1>3, <1>4, <1>5, <1>6, <1>7

\* Nothing has been parsed when the third pass begins.
LEMMA ExactStart ==
  ASSUME Inv, OrderInv, ExactInv, AllocateUnknown
  PROVE  ExactInv'
<1>1. /\ phase = "fields" /\ phase' = "parse"
      /\ UNCHANGED <<desc, input, slabs, next, rv, unknown_fields>>
  BY DEF AllocateUnknown
<1>2. Unparsed /\ \A k \in Fields : rv[k].has = FALSE
  BY <1>1 DEF Inv, Stages, ExactInv
<1>3. Upcoming' = 1
  <2>1. Upcoming = 1
    BY <1>1, StartIs
  <2>2. AtEnd' <=> AtEnd
    BY <1>1 DEF AtEnd, SlabMax, SlabSize
  <2> QED
    BY <2>1, <2>2, <1>1 DEF Upcoming, At
<1>4. /\ \A k, p : ElementsUpTo(k, p)' = ElementsUpTo(k, p)
      /\ \A p : UnknownUpTo(p)' = UnknownUpTo(p)
      /\ \A k, p : GivenUpTo(k, p)' = GivenUpTo(k, p)
      /\ \A k : HasFlag(k)' = HasFlag(k)
      /\ Fields' = Fields
  BY <1>1, SameUpTo
<1>5. \A k : ElementsUpTo(k, 0) = <<>>
  <2> SUFFICES ASSUME NEW k PROVE ElementsUpTo(k, 0) = <<>>
    OBVIOUS
  <2>1. [j \in 1 .. 0 |-> ElementsOf(k, j)] = <<>>
    OBVIOUS
  <2> QED
    BY <2>1, FlattenEmpty DEF ElementsUpTo
<1>6. UnknownUpTo(0) = <<>>
  <2>1. [j \in 1 .. 0 |-> UnknownOf(j)] = <<>>
    OBVIOUS
  <2> QED
    BY <2>1, FlattenEmpty DEF UnknownUpTo
<1>7. \A k : GivenUpTo(k, 0) = {}
  <2>1. \A j \in DOMAIN input : j \in Nat /\ j > 0
    BY DEF Inv, TypeOK
  <2> QED
    BY <2>1 DEF GivenUpTo, Given
<1>8. ExactTo(0)'
  <2>1. ASSUME NEW k \in Fields, desc[k].label # "repeated" PROVE LatestUpTo(k, 0)'
    <3>1. rv'[k].value = 0 /\ rv'[k].has = FALSE
      BY <1>1, <1>2 DEF Unparsed
    <3>2. GivenUpTo(k, 0)' = {}
      BY <1>4, <1>7
    <3> QED
      BY <3>1, <3>2 DEF LatestUpTo
  <2>2. ASSUME NEW k \in Fields PROVE rv'[k].elements = ElementsUpTo(k, 0)'
    BY <1>1, <1>2, <1>4, <1>5 DEF Unparsed
  <2>3. unknown_fields' = UnknownUpTo(0)'
    BY <1>1, <1>2, <1>4, <1>6 DEF Unparsed
  <2> QED
    BY <2>1, <2>2, <2>3, <1>1, <1>4 DEF ExactTo
<1>9. ASSUME NEW p \in Nat, p = Upcoming' - 1 PROVE ExactTo(p)'
  <2>1. p = 0
    BY <1>3, <1>9
  <2> QED
    BY <2>1, <1>8
<1> QED
  BY <1>1, <1>9 DEF ExactInv

\* A field whose slot is not touched by the member that is parsed.
LEMMA OtherField ==
  ASSUME Inv, NEW p \in 1 .. Len(input), NEW k \in Fields, input[p].tag # k,
         UNCHANGED <<desc, input>>, rv'[k] = rv[k],
         IF desc[k].label = "repeated" THEN rv[k].elements = ElementsUpTo(k, p - 1)
         ELSE LatestUpTo(k, p - 1)
  PROVE  (IF desc[k].label = "repeated" THEN rv[k].elements = ElementsUpTo(k, p)
          ELSE LatestUpTo(k, p))'
<1>1. /\ \A q : ElementsUpTo(k, q)' = ElementsUpTo(k, q)
      /\ \A q : GivenUpTo(k, q)' = GivenUpTo(k, q)
      /\ HasFlag(k)' = HasFlag(k)
  BY SameUpTo
<1>2. CASE desc[k].label = "repeated"
  <2>1. ElementsOf(k, p) = <<>>
    BY DEF ElementsOf
  <2>2. ElementsUpTo(k, p) = ElementsUpTo(k, p - 1) \o ElementsOf(k, p)
        /\ ElementsUpTo(k, p - 1) \in Seq(Nat \X Nat)
    BY ElementsMore
  <2>3. ElementsUpTo(k, p) = ElementsUpTo(k, p - 1)
    BY <2>1, <2>2, ConcatEmptySeq
  <2> QED
    BY <1>1, <1>2, <2>3
<1>3. CASE desc[k].label # "repeated"
  <2>1. GivenUpTo(k, p) = GivenUpTo(k, p - 1)
    <3>1. \A j \in Given(k) : j \in Nat /\ j # p
      BY DEF Given, Inv, TypeOK
    <3>2. \A j \in Given(k) : j <= p <=> j <= p - 1
      BY <3>1
    <3> QED
      BY <3>2 DEF GivenUpTo
  <2>2. LatestUpTo(k, p - 1)
    BY <1>3
  <2>3. GivenUpTo(k, p)' = GivenUpTo(k, p - 1)
    BY <1>1, <2>1
  <2>4. LatestUpTo(k, p)'
    BY <2>2, <2>3, <1>1, Zenon DEF LatestUpTo
  <2> QED
    BY <2>4, <1>3
<1> QED
  BY <1>2, <1>3

\* A member of field t adds what it says to that field and nothing else.
LEMMA FieldExact ==
  ASSUME Inv, NEW p \in 1 .. Len(input), NEW t \in Fields, input[p].tag = t,
         UNCHANGED <<desc, input, unknown_fields>>, ExactTo(p - 1),
         \A i \in Fields : i # t => rv'[i] = rv[i],
         (IF desc[t].label = "repeated" THEN rv[t].elements = ElementsUpTo(t, p)
          ELSE LatestUpTo(t, p))'
  PROVE  ExactTo(p)'
<1>1. (\A q : UnknownUpTo(q)' = UnknownUpTo(q)) /\ Fields' = Fields
  BY SameUpTo
<1>2. t # 0
  BY DescIs DEF Inv, TypeOK
<1>3. unknown_fields' = UnknownUpTo(p)'
  <2>1. UnknownOf(p) = <<>>
    BY <1>2 DEF UnknownOf
  <2>2. UnknownUpTo(p) = UnknownUpTo(p - 1) \o UnknownOf(p) /\ UnknownUpTo(p - 1) \in Seq(Nat)
    BY UnknownMore
  <2>3. UnknownUpTo(p) = UnknownUpTo(p - 1)
    BY <2>1, <2>2, ConcatEmptySeq
  <2> QED
    BY <2>3, <1>1 DEF ExactTo
<1>4. ASSUME NEW k \in Fields
      PROVE  (IF desc[k].label = "repeated" THEN rv[k].elements = ElementsUpTo(k, p)
              ELSE LatestUpTo(k, p))'
  <2>1. CASE k = t
    BY <2>1
  <2>2. CASE k # t
    <3>1. IF desc[k].label = "repeated" THEN rv[k].elements = ElementsUpTo(k, p - 1)
          ELSE LatestUpTo(k, p - 1)
      BY DEF ExactTo
    <3>2. rv'[k] = rv[k] /\ input[p].tag # k
      BY <2>2
    <3> QED
      BY <3>1, <3>2, OtherField
  <2> QED
    BY <2>1, <2>2
<1> QED
  BY <1>1, <1>3, <1>4, Zenon DEF ExactTo

LEMMA UnknownExact ==
  ASSUME Inv, NEW p \in 1 .. Len(input), input[p].tag = 0,
         UNCHANGED <<desc, input, rv>>, ExactTo(p - 1),
         unknown_fields' = Append(unknown_fields, p)
  PROVE  ExactTo(p)'
<1>1. (\A q : UnknownUpTo(q)' = UnknownUpTo(q)) /\ Fields' = Fields
  BY SameUpTo
<1>2. \A k \in Fields : k # 0
  BY DescIs DEF Inv, TypeOK
<1>3. unknown_fields' = UnknownUpTo(p)'
  <2>1. UnknownOf(p) = <<p>>
    BY DEF UnknownOf
  <2>2. UnknownUpTo(p) = UnknownUpTo(p - 1) \o UnknownOf(p) /\ UnknownUpTo(p - 1) \in Seq(Nat)
    BY UnknownMore
  <2>3. unknown_fields = UnknownUpTo(p - 1)
    BY DEF ExactTo
  <2> DEFINE u == UnknownUpTo(p - 1)
  <2>4. Append(u, p) = u \o <<p>>
    <3>1. u \in Seq(Nat) /\ p \in Nat
      BY <2>2 DEF Inv, TypeOK
    <3> HIDE DEF u
    <3> QED
      BY <3>1
  <2> QED
    BY <2>1, <2>2, <2>3, <2>4, <1>1
<1>4. ASSUME NEW k \in Fields
      PROVE  (IF desc[k].label = "repeated" THEN rv[k].elements = ElementsUpTo(k, p)
              ELSE LatestUpTo(k, p))'
  <2>1. IF desc[k].label = "repeated" THEN rv[k].elements = ElementsUpTo(k, p - 1)
        ELSE LatestUpTo(k, p - 1)
    BY DEF ExactTo
  <2>2. rv'[k] = rv[k] /\ input[p].tag # k
    BY <1>2
  <2> QED
    BY <2>1, <2>2, OtherField
<1> QED
  BY <1>1, <1>3, <1>4, Zenon DEF ExactTo

\* Elements that are added at the end of the array.
LEMMA RepeatedExact ==
  ASSUME Inv, NEW p \in 1 .. Len(input), NEW t \in Fields, input[p].tag = t,
         desc[t].label = "repeated", UNCHANGED <<desc, input, unknown_fields>>, ExactTo(p - 1),
         \A i \in Fields : i # t => rv'[i] = rv[i],
         rv'[t].elements = rv[t].elements \o ElementsOf(t, p)
  PROVE  ExactTo(p)'
<1>1. ElementsUpTo(t, p)' = ElementsUpTo(t, p)
  BY SameUpTo
<1>2. ElementsUpTo(t, p) = ElementsUpTo(t, p - 1) \o ElementsOf(t, p)
  BY ElementsMore
<1>3. rv[t].elements = ElementsUpTo(t, p - 1)
  BY DEF ExactTo
<1>4. rv'[t].elements = ElementsUpTo(t, p)'
  BY <1>1, <1>2, <1>3
<1>5. (IF desc[t].label = "repeated" THEN rv[t].elements = ElementsUpTo(t, p)
       ELSE LatestUpTo(t, p))'
  BY <1>4
<1> QED
  BY <1>5, FieldExact

\* A value that replaces the one before it.
LEMMA SingleExact ==
  ASSUME Inv, NEW p \in 1 .. Len(input), NEW t \in Fields, input[p].tag = t,
         desc[t].label # "repeated", UNCHANGED <<desc, input, unknown_fields>>, ExactTo(p - 1),
         \A i \in Fields : i # t => rv'[i] = rv[i],
         rv'[t].value = p, rv'[t].has = HasFlag(t)
  PROVE  ExactTo(p)'
<1>1. GivenUpTo(t, p)' = GivenUpTo(t, p) /\ HasFlag(t)' = HasFlag(t)
  BY SameUpTo
<1>2. p \in DOMAIN input /\ p \in Nat
  BY DEF Inv, TypeOK
<1>3. p \in GivenUpTo(t, p) /\ \A j \in GivenUpTo(t, p) : j <= p
  BY <1>2 DEF GivenUpTo, Given
<1>4. HasFlag(t) \in BOOLEAN
  BY DEF HasFlag
<1>5. LatestUpTo(t, p)'
  <2>1. GivenUpTo(t, p)' # {} /\ p \in GivenUpTo(t, p)' /\ \A j \in GivenUpTo(t, p)' : j <= p
    BY <1>1, <1>3
  <2>2. rv'[t].has = (HasFlag(t)' /\ GivenUpTo(t, p)' # {})
    BY <1>1, <1>4, <2>1
  <2> QED
    BY <2>1, <2>2 DEF LatestUpTo
<1>6. (IF desc[t].label = "repeated" THEN rv[t].elements = ElementsUpTo(t, p)
       ELSE LatestUpTo(t, p))'
  BY <1>5
<1> QED
  BY <1>6, FieldExact

LEMMA ParseExact ==
  ASSUME Inv, OrderInv, ExactInv, ParseMember
  PROVE  ExactInv'
<1>1. phase = "parse" /\ ~AtEnd /\ next' = NextPlace(next) /\ UNCHANGED <<desc, input, phase, slabs>>
  BY DEF ParseMember
<1>2. At \in 1 .. Len(input) /\ Upcoming = At /\ Upcoming' = At + 1 /\ Len(input) \in Nat
  BY <1>1, AdvanceIs DEF Inv, TypeOK
<1>3. PICK p \in 1 .. Len(input) : p = At
  BY <1>2
<1>4. PICK t : t = input[p].tag
  OBVIOUS
<1>5. t # 0 => t \in Fields
  BY <1>1, <1>3, <1>4, AtIs
<1>6. ExactTo(p - 1)
  <2>1. p - 1 \in Nat /\ p - 1 = Upcoming - 1
    BY <1>2, <1>3
  <2> QED
    BY <2>1, <1>1 DEF ExactInv
<1>7. /\ rv \in [Fields -> Slot] /\ p \in DOMAIN input /\ p \in Nat /\ input[p] \in Member
  BY <1>2 DEF Inv, TypeOK
<1>8. \/ t = 0 /\ ParseUnknown(p)
      \/ t # 0 /\ desc[t].label = "repeated" /\ IsPacked(desc[t], input[p]) /\ ~IsBroken(t, input[p])
         /\ ParsePacked(t, p)
      \/ t # 0 /\ desc[t].label = "repeated" /\ ~IsPacked(desc[t], input[p]) /\ ParseElement(t, p)
      \/ t # 0 /\ desc[t].label # "repeated" /\ ParseSingle(t, p)
  BY <1>3, <1>4 DEF ParseMember
<1>9. ASSUME ExactTo(p)' PROVE ExactInv'
  <2>1. ASSUME NEW q \in Nat, q = Upcoming' - 1 PROVE ExactTo(q)'
    <3>1. q = p
      BY <2>1, <1>2, <1>3
    <3> QED
      BY <3>1, <1>9
  <2> QED
    BY <2>1, <1>1 DEF ExactInv
<1>10. CASE t = 0 /\ ParseUnknown(p)
  <2>1. unknown_fields' = Append(unknown_fields, p) /\ rv' = rv
    BY <1>10 DEF ParseUnknown
  <2>2. ExactTo(p)'
    BY <2>1, <1>1, <1>4, <1>6, <1>10, UnknownExact
  <2> QED
    BY <2>2, <1>9
<1>11. CASE t # 0 /\ desc[t].label = "repeated" /\ IsPacked(desc[t], input[p])
            /\ ~IsBroken(t, input[p]) /\ ParsePacked(t, p)
  <2> DEFINE new == PackedElements(t, p)
             s   == [rv[t] EXCEPT !.elements = rv[t].elements \o new, !.n = rv[t].n + Len(new)]
  <2>1. rv' = [rv EXCEPT ![t] = s] /\ unknown_fields' = unknown_fields
    BY <1>11 DEF ParsePacked
  <2>2. t \in Fields /\ rv[t] \in Slot
    BY <1>5, <1>7, <1>11
  <2>3. new = ElementsOf(t, p)
    <3> DEFINE d    == input[p].data
               ends == {i \in Ends(d) : \A b \in Broken(desc[t].type, d) : b > i}
    <3>1. Broken(desc[t].type, d) = {}
      BY <1>11 DEF IsBroken
    <3>2. ends = Ends(d)
      BY <3>1, Zenon
    <3>3. new = [i \in 1 .. Cardinality(ends) |-> <<p, i>>]
      BY DEF PackedElements
    <3>4. ElementsOf(t, p) = [i \in 1 .. Cardinality(Ends(d)) |-> <<p, i>>]
      BY <1>4, <1>11 DEF ElementsOf
    <3> HIDE DEF ends, new
    <3> QED
      BY <3>2, <3>3, <3>4
  <2> HIDE DEF new
  <2>4. s.elements = rv[t].elements \o new
    BY <2>2 DEF Slot
  <2> HIDE DEF s
  <2>5. rv'[t] = s /\ \A i \in Fields : i # t => rv'[i] = rv[i]
    BY <2>1, <2>2, <1>7
  <2>6. rv'[t].elements = rv[t].elements \o ElementsOf(t, p)
    BY <2>3, <2>4, <2>5
  <2>7. ExactTo(p)'
    BY <2>1, <2>2, <2>5, <2>6, <1>1, <1>4, <1>6, <1>11, RepeatedExact
  <2> QED
    BY <2>7, <1>9
<1>12. CASE t # 0 /\ desc[t].label = "repeated" /\ ~IsPacked(desc[t], input[p]) /\ ParseElement(t, p)
  <2> DEFINE s == [rv[t] EXCEPT !.elements = Append(rv[t].elements, <<p, 1>>), !.n = rv[t].n + 1]
  <2>1. rv' = [rv EXCEPT ![t] = s] /\ unknown_fields' = unknown_fields
    BY <1>12 DEF ParseElement
  <2>2. t \in Fields /\ rv[t] \in Slot
    BY <1>5, <1>7, <1>12
  <2>3. s.elements = Append(rv[t].elements, <<p, 1>>)
    BY <2>2 DEF Slot
  <2> HIDE DEF s
  <2>4. rv'[t] = s /\ \A i \in Fields : i # t => rv'[i] = rv[i]
    BY <2>1, <2>2, <1>7
  <2>5. ElementsOf(t, p) = << <<p, 1>> >>
    BY <1>4, <1>12 DEF ElementsOf
  <2> DEFINE old == rv[t].elements
             x   == <<p, 1>>
  <2>6. Append(old, x) = old \o <<x>>
    <3>1. old \in Seq(Nat \X Nat) /\ x \in Nat \X Nat
      BY <2>2, <1>7 DEF Slot
    <3> HIDE DEF old, x
    <3> QED
      BY <3>1, AppendIsConcat
  <2>7. rv'[t].elements = rv[t].elements \o ElementsOf(t, p)
    BY <2>3, <2>4, <2>5, <2>6
  <2>8. ExactTo(p)'
    BY <2>1, <2>2, <2>4, <2>7, <1>1, <1>4, <1>6, <1>12, RepeatedExact
  <2> QED
    BY <2>8, <1>9
<1>13. CASE t # 0 /\ desc[t].label # "repeated" /\ ParseSingle(t, p)
  <2> DEFINE has == HasFlag(t)
             s   == [rv[t] EXCEPT !.value = p, !.has = has]
  <2>1. rv' = [rv EXCEPT ![t] = s] /\ unknown_fields' = unknown_fields
    BY <1>13 DEF ParseSingle
  <2>2. t \in Fields /\ rv[t] \in Slot
    BY <1>5, <1>7, <1>13
  <2> HIDE DEF has
  <2>3. s.value = p /\ s.has = has
    BY <2>2, Zenon DEF Slot
  <2> HIDE DEF s
  <2>4. rv'[t] = s /\ \A i \in Fields : i # t => rv'[i] = rv[i]
    BY <2>1, <2>2, <1>7
  <2>5. rv'[t].value = p /\ rv'[t].has = HasFlag(t)
    BY <2>3, <2>4, Zenon DEF has
  <2>6. ExactTo(p)'
    BY <2>1, <2>2, <2>4, <2>5, <1>1, <1>4, <1>6, <1>13, SingleExact
  <2> QED
    BY <2>6, <1>9
<1> QED
  BY <1>8, <1>10, <1>11, <1>12, <1>13

\* Nothing that ExactTo speaks of changes.
LEMMA SameExact ==
  ASSUME UNCHANGED <<desc, input, rv, unknown_fields>>
  PROVE  \A p : ExactTo(p)' <=> ExactTo(p)
<1> SUFFICES ASSUME NEW p PROVE ExactTo(p)' <=> ExactTo(p)
  OBVIOUS
<1>1. /\ \A k : ElementsUpTo(k, p)' = ElementsUpTo(k, p)
      /\ UnknownUpTo(p)' = UnknownUpTo(p)
      /\ \A k : GivenUpTo(k, p)' = GivenUpTo(k, p)
      /\ \A k : HasFlag(k)' = HasFlag(k)
      /\ Fields' = Fields
  BY SameUpTo
<1>2. \A k : LatestUpTo(k, p)' <=> LatestUpTo(k, p)
  BY <1>1, Zenon DEF LatestUpTo
<1> QED
  BY <1>1, <1>2 DEF ExactTo

\* The first two passes give no field its value.
LEMMA FlagsStay ==
  ASSUME Inv, ExactInv, phase \in {"scan", "fields"},
         \/ \E k \in 0 .. Len(desc) : \E m \in MembersOf(k) : ScanMember(m)
         \/ EndOfInput \/ FieldSucceeds
  PROVE  ExactInv'
<1>1. \A k \in Fields : rv[k].has = FALSE
  BY DEF ExactInv
<1>2. rv \in [Fields -> Slot] /\ Fields' = Fields
  BY DEF Inv, TypeOK, ScanMember, Scanned, EndOfInput, FieldSucceeds, Fields
<1>3. phase' \in {"scan", "fields"}
  BY DEF ScanMember, Scanned, EndOfInput, FieldSucceeds
<1>4. \A k \in Fields : rv'[k].has = FALSE
  <2>1. CASE \E k \in 0 .. Len(desc) : \E m \in MembersOf(k) : ScanMember(m)
    <3>1. PICK m : ScanMember(m)
      BY <2>1
    <3>2. PICK t : t = m.tag
      OBVIOUS
    <3>3. rv' = rv \/ \E c : rv' = [rv EXCEPT ![t] = [rv[t] EXCEPT !.n = c]]
      BY <3>1, <3>2, Zenon DEF ScanMember, Scanned
    <3> QED
      BY <3>3, <1>1, <1>2 DEF Slot
  <2>2. CASE EndOfInput
    BY <2>2, <1>1 DEF EndOfInput
  <2>3. CASE FieldSucceeds
    <3>1. rv' = rv \/ \E c : rv' = [rv EXCEPT ![f] = [rv[f] EXCEPT !.room = c, !.n = 0]]
      BY <2>3, Zenon DEF FieldSucceeds
    <3> QED
      BY <3>1, <1>1, <1>2 DEF Slot
  <2> QED
    BY <2>1, <2>2, <2>3
<1> QED
  BY <1>2, <1>3, <1>4 DEF ExactInv

LEMMA ExactStep ==
  ASSUME Inv, OrderInv, ExactInv, [Next]_vars
  PROVE  ExactInv'
<1>1. CASE \/ \E k \in 0 .. Len(desc) : \E m \in MembersOf(k) : ScanMember(m)
           \/ EndOfInput \/ FieldSucceeds
  <2>1. phase \in {"scan", "fields"}
    BY <1>1 DEF ScanMember, EndOfInput, FieldSucceeds
  <2> QED
    BY <1>1, <2>1, FlagsStay
<1>2. CASE AllocateUnknown
  BY <1>2, ExactStart
<1>3. CASE ParseMember
  BY <1>3, ParseExact
<1>4. CASE Succeed
  <2>1. /\ phase = "parse" /\ phase' = "done" /\ AtEnd
        /\ UNCHANGED <<desc, input, rv, unknown_fields>>
    BY <1>4 DEF Succeed
  <2>2. PICK num \in Nat : num = Len(input)
    BY DEF Inv, TypeOK
  <2>3. num = Upcoming - 1
    BY <2>1, <2>2 DEF Upcoming
  <2>4. ExactTo(num)
    BY <2>1, <2>2, <2>3 DEF ExactInv
  <2>5. ExactTo(num)'
    BY <2>1, <2>4, SameExact
  <2>6. \A p \in Nat : p = Len(input)' => ExactTo(p)'
    BY <2>1, <2>2, <2>5
  <2> QED
    BY <2>1, <2>6 DEF ExactInv
<1>5. CASE \/ ScanFails \/ FieldFails \/ AllocateUnknownFails \/ ParseFails \/ ValueFails
           \/ UnknownFails \/ FreeUnpacked \/ Returned
  <2>1. phase' \in {"failed", "freed"}
    BY <1>5 DEF ScanFails, FailScan, FieldFails, AllocateUnknownFails, ParseFails,
                ValueFails, UnknownFails, FailWith, FreeUnpacked, Returned, vars
  <2> QED
    BY <2>1 DEF ExactInv
<1>6. CASE UNCHANGED vars
  <2>1. UNCHANGED <<desc, input, phase, slabs, next, rv, unknown_fields>>
    BY <1>6 DEF vars
  <2>2. Upcoming' = Upcoming
    BY <2>1 DEF Upcoming, AtEnd, At, SlabMax, SlabSize
  <2>3. \A p : ExactTo(p)' <=> ExactTo(p)
    BY <2>1, SameExact
  <2> QED
    BY <2>1, <2>2, <2>3 DEF ExactInv, Fields
<1> QED
  BY <1>1, <1>2, <1>3, <1>4, <1>5, <1>6 DEF Next

LEMMA ExactGives ==
  ASSUME Inv, ExactInv
  PROVE  ResultExact
<1> SUFFICES ASSUME phase = "done" PROVE ResultExact
  BY DEF ResultExact
<1>1. PICK num \in Nat : num = Len(input)
  BY DEF Inv, TypeOK
<1>2. DOMAIN input = 1 .. num
  BY <1>1 DEF Inv, TypeOK
<1>3. ExactTo(num)
  BY <1>1 DEF ExactInv
<1>4. \A k : GivenUpTo(k, num) = Given(k)
  BY <1>2 DEF GivenUpTo, Given
<1>5. \A k \in Fields : rv[k].n = Len(rv[k].elements)
  BY DEF Inv, Stages
<1>6. \A k : ElementsUpTo(k, num) = FlattenSeq([j \in DOMAIN input |-> ElementsOf(k, j)])
  BY <1>2, Zenon DEF ElementsUpTo
<1>7. UnknownUpTo(num) = FlattenSeq([j \in DOMAIN input |-> UnknownOf(j)])
  BY <1>2, Zenon DEF UnknownUpTo
<1>8. ASSUME NEW k \in Fields, desc[k].label # "repeated"
      PROVE  /\ IF Given(k) = {} THEN rv[k].value = 0
                ELSE rv[k].value \in Given(k) /\ \A j \in Given(k) : j <= rv[k].value
             /\ rv[k].has <=> (HasFlag(k) /\ Given(k) # {})
  <2>1. LatestUpTo(k, num)
    BY <1>3, <1>8 DEF ExactTo
  <2> QED
    BY <2>1, <1>4, Zenon DEF LatestUpTo
<1>9. ASSUME NEW k \in Fields, desc[k].label = "repeated"
      PROVE  /\ rv[k].elements = FlattenSeq([j \in DOMAIN input |-> ElementsOf(k, j)])
             /\ rv[k].n = Len(rv[k].elements)
  <2>1. rv[k].elements = ElementsUpTo(k, num)
    BY <1>3, <1>9 DEF ExactTo
  <2> QED
    BY <2>1, <1>5, <1>6, Zenon
<1>10. unknown_fields = FlattenSeq([j \in DOMAIN input |-> UnknownOf(j)])
  BY <1>3, <1>7, Zenon DEF ExactTo
<1> QED
  BY <1>8, <1>9, <1>10, Zenon DEF ResultExact

\* A message that unpack returns holds what its input says, for messages and
\* inputs of any length: the elements of every repeated field in the order of
\* the members, packed or not, the last value of every other field with its
\* has_ flag, and the unknown members in order.
THEOREM MessageHoldsInput == Spec => []ResultExact
<1>1. Init => ExactInv
  <2> SUFFICES ASSUME Init PROVE ExactInv
    OBVIOUS
  <2>1. phase = "scan" /\ \A k \in Fields : rv[k].has = FALSE
    BY DEF Init, EmptySlot
  <2> QED
    BY <2>1 DEF ExactInv
<1>2. Inv /\ OrderInv /\ ExactInv /\ [Next]_vars => ExactInv'
  BY ExactStep
<1>3. Inv /\ ExactInv => ResultExact
  BY ExactGives
<1> QED
  BY <1>1, <1>2, <1>3, InvHolds, OrderHolds, PTL DEF Spec
-----------------------------------------------------------------------------
(* The arithmetic of ints.                                                 *)

LEMMA IntFacts ==
  /\ Modulus \in Nat /\ IntMax \in Int /\ IntMin \in Int
  /\ IntMin < 0 /\ IntMax >= 0 /\ Modulus = IntMax - IntMin + 1
  /\ IntMin = -(IntMax + 1)
<1> DEFINE M == Modulus
<1>1. M \in Nat \ {0} /\ M % 2 = 0
  BY LookupAssumption
<1>2. IntMax = M \div 2 - 1 /\ IntMin = -(M \div 2)
  BY DEF IntMax, IntMin
<1> HIDE DEF M
<1>3. M = 2 * (M \div 2) /\ M \div 2 \in Nat
  BY <1>1
<1>4. M \div 2 > 0
  BY <1>1, <1>3
<1> QED
  BY <1>2, <1>3, <1>4 DEF M

LEMMA ModSmall ==
  ASSUME NEW M \in Nat \ {0}, NEW a \in 0 .. M - 1
  PROVE  a % M = a
OBVIOUS

LEMMA DivMod ==
  ASSUME NEW M \in Int, M > 0
  PROVE  \A a \in Int : a \div M \in Int /\ a % M = a - M * (a \div M)
OBVIOUS

LEMMA ModApart ==
  ASSUME NEW M \in Nat \ {0}, NEW a \in Int, NEW b \in Int, a < b, b - a < M
  PROVE  a % M # b % M
<1>1. /\ a % M = a - M * (a \div M) /\ b % M = b - M * (b \div M)
      /\ a \div M \in Int /\ b \div M \in Int
  BY DivMod
<1>2. SUFFICES ASSUME a % M = b % M PROVE FALSE
  OBVIOUS
<1> DEFINE d == b \div M - a \div M
<1>3. d \in Int /\ b - a = M * d
  BY <1>1, <1>2
<1> HIDE DEF d
<1>4. CASE d <= 0
  <2>1. M * d <= 0
    BY <1>3, <1>4
  <2> QED
    BY <1>3, <2>1
<1>5. CASE d >= 1
  <2>1. M * d >= M
    BY <1>3, <1>5
  <2> QED
    BY <1>3, <2>1
<1> QED
  BY <1>3, <1>4, <1>5

\* The numbers of an int are represented.
LEMMA ToIntSame ==
  ASSUME NEW v \in IntMin .. IntMax
  PROVE  ToInt(v) = v
<1>1. v - IntMin \in 0 .. Modulus - 1 /\ Modulus \in Nat \ {0} /\ IntMin \in Int /\ v \in Int
  BY IntFacts
<1>2. (v - IntMin) % Modulus = v - IntMin
  BY <1>1, ModSmall
<1> QED
  BY <1>1, <1>2 DEF ToInt

\* Of two numbers, the lesser first, the second joins the range of the first
\* exactly when it is the next one, although the sum may wrap around.
LEMMA JoinsNext ==
  ASSUME NEW a \in IntMin .. IntMax, NEW b \in IntMin .. IntMax, a < b
  PROVE  JoinsRange(a, b) <=> a + 1 = b
<1>1. Modulus \in Nat \ {0} /\ a \in Int /\ b \in Int /\ b - a < Modulus
  BY IntFacts
<1>2. CASE a + 1 = b
  BY <1>1, <1>2 DEF JoinsRange, Unsigned
<1>3. CASE a + 1 # b
  <2>1. a + 1 < b /\ b - (a + 1) < Modulus /\ a + 1 \in Int
    BY <1>1, <1>3
  <2>2. (a + 1) % Modulus # b % Modulus
    BY <1>1, <2>1, ModApart
  <2> QED
    BY <1>3, <2>2 DEF JoinsRange, Unsigned
<1> QED
  BY <1>2, <1>3
-----------------------------------------------------------------------------
(* Sorting: an element goes behind those that are less.                    *)

Lesser(m, R, x) == {y \in 1 .. m : <<y, x>> \in R}

StrictOrder(m, R) ==
  /\ \A x \in 1 .. m : <<x, x>> \notin R
  /\ \A x, y \in 1 .. m : x # y => <<x, y>> \in R \/ <<y, x>> \in R
  /\ \A x, y, z \in 1 .. m : <<x, y>> \in R /\ <<y, z>> \in R => <<x, z>> \in R

LEMMA LesserCount ==
  ASSUME NEW m \in Nat, NEW R, StrictOrder(m, R), NEW x \in 1 .. m
  PROVE  IsFiniteSet(Lesser(m, R, x)) /\ Cardinality(Lesser(m, R, x)) \in 0 .. m - 1
<1>1. IsFiniteSet(1 .. m) /\ Cardinality(1 .. m) = m
  BY FS_Interval
<1>2. IsFiniteSet((1 .. m) \ {x}) /\ Cardinality((1 .. m) \ {x}) = m - 1
  BY <1>1, FS_RemoveElement
<1>3. Lesser(m, R, x) \in SUBSET ((1 .. m) \ {x})
  BY DEF Lesser, StrictOrder
<1>4. IsFiniteSet(Lesser(m, R, x)) /\ Cardinality(Lesser(m, R, x)) <= m - 1
  BY <1>2, <1>3, FS_Subset
<1>5. Cardinality(Lesser(m, R, x)) \in Nat
  BY <1>4, FS_CardinalityType
<1> QED
  BY <1>4, <1>5

LEMMA LesserGrows ==
  ASSUME NEW m \in Nat, NEW R, StrictOrder(m, R), NEW x \in 1 .. m, NEW y \in 1 .. m,
         <<x, y>> \in R
  PROVE  Cardinality(Lesser(m, R, x)) < Cardinality(Lesser(m, R, y))
<1>1. Lesser(m, R, x) \in SUBSET Lesser(m, R, y)
  BY DEF Lesser, StrictOrder
<1>2. x \in Lesser(m, R, y) /\ x \notin Lesser(m, R, x)
  BY DEF Lesser, StrictOrder
<1>3. /\ IsFiniteSet(Lesser(m, R, y)) /\ Cardinality(Lesser(m, R, y)) \in Nat
      /\ Cardinality(Lesser(m, R, x)) \in Nat
  BY LesserCount
<1>4. /\ Cardinality(Lesser(m, R, x)) <= Cardinality(Lesser(m, R, y))
      /\ Cardinality(Lesser(m, R, y)) = Cardinality(Lesser(m, R, x)) =>
           Lesser(m, R, y) = Lesser(m, R, x)
  BY <1>1, <1>3, FS_Subset
<1> QED
  BY <1>2, <1>3, <1>4

LEMMA LesserSame ==
  ASSUME NEW m \in Nat, NEW R, StrictOrder(m, R), NEW x \in 1 .. m, NEW y \in 1 .. m,
         Cardinality(Lesser(m, R, x)) = Cardinality(Lesser(m, R, y))
  PROVE  x = y
<1>1. SUFFICES ASSUME x # y PROVE FALSE
  OBVIOUS
<1>2. Cardinality(Lesser(m, R, x)) \in Int /\ Cardinality(Lesser(m, R, y)) \in Int
  BY LesserCount
<1>3. <<x, y>> \in R \/ <<y, x>> \in R
  BY <1>1 DEF StrictOrder
<1> QED
  BY <1>2, <1>3, LesserGrows

\* There is an element for every place.
LEMMA PlaceTaken ==
  ASSUME NEW m \in Nat, NEW R, StrictOrder(m, R), NEW i \in 1 .. m
  PROVE  \E x \in 1 .. m : Cardinality(Lesser(m, R, x)) = i - 1
<1> DEFINE rank == [x \in 1 .. m |-> Cardinality(Lesser(m, R, x)) + 1]
<1>1. \A x \in 1 .. m : Cardinality(Lesser(m, R, x)) \in 0 .. m - 1
  BY LesserCount
<1>2. rank \in [1 .. m -> 1 .. m]
  BY <1>1
<1>3. rank \in Injection(1 .. m, 1 .. m)
  <2>1. ASSUME NEW x \in 1 .. m, NEW y \in 1 .. m, rank[x] = rank[y] PROVE x = y
    <3>1. Cardinality(Lesser(m, R, x)) = Cardinality(Lesser(m, R, y))
      BY <1>1, <2>1
    <3> QED
      BY <3>1, LesserSame
  <2> HIDE DEF rank
  <2> QED
    BY <1>2, <2>1, Fun_IsInj
<1>4. rank \in Surjection(1 .. m, 1 .. m)
  <2>1. IsFiniteSet(1 .. m)
    BY FS_Interval
  <2> HIDE DEF rank
  <2> QED
    BY <1>3, <2>1, FS_Injection
<1>5. PICK x \in 1 .. m : rank[x] = i
  <2> HIDE DEF rank
  <2> QED
    BY <1>4 DEF Surjection
<1> QED
  BY <1>1, <1>5

\* All have their places, and in their order.
LEMMA PlacesRight ==
  ASSUME NEW m \in Nat, NEW R, StrictOrder(m, R), NEW p \in [1 .. m -> 1 .. m],
         \A i \in 1 .. m : Cardinality(Lesser(m, R, p[i])) = i - 1
  PROVE  /\ \A i, j \in 1 .. m : i < j => <<p[i], p[j]>> \in R
         /\ \A x \in 1 .. m : \E i \in 1 .. m : p[i] = x
<1>1. \A x \in 1 .. m : Cardinality(Lesser(m, R, x)) \in 0 .. m - 1
  BY LesserCount
<1>2. ASSUME NEW i \in 1 .. m, NEW j \in 1 .. m, i < j
      PROVE  <<p[i], p[j]>> \in R
  <2>1. p[i] \in 1 .. m /\ p[j] \in 1 .. m
    OBVIOUS
  <2>2. Cardinality(Lesser(m, R, p[i])) = i - 1 /\ Cardinality(Lesser(m, R, p[j])) = j - 1
    OBVIOUS
  <2>3. p[i] # p[j]
    BY <1>2, <2>2
  <2>4. SUFFICES ASSUME <<p[j], p[i]>> \in R PROVE FALSE
    BY <2>1, <2>3 DEF StrictOrder
  <2>5. Cardinality(Lesser(m, R, p[j])) < Cardinality(Lesser(m, R, p[i]))
    BY <2>1, <2>4, LesserGrows
  <2> QED
    BY <1>2, <2>2, <2>5
<1>3. ASSUME NEW x \in 1 .. m PROVE \E i \in 1 .. m : p[i] = x
  <2>1. PICK i \in 1 .. m : i = Cardinality(Lesser(m, R, x)) + 1
    BY <1>1
  <2>2. p[i] \in 1 .. m /\ Cardinality(Lesser(m, R, p[i])) = i - 1
    OBVIOUS
  <2>3. Cardinality(Lesser(m, R, p[i])) = Cardinality(Lesser(m, R, x))
    BY <1>1, <2>1, <2>2
  <2>4. p[i] = x
    BY <2>2, <2>3, LesserSame
  <2> QED
    BY <2>4
<1> QED
  BY <1>2, <1>3

Item == [name : Int, number : IntMin .. IntMax]

\* s has what items has, in the order of the numbers; p says from where.
SortedAs(s, items, p) ==
  /\ p \in [1 .. Len(items) -> 1 .. Len(items)]
  /\ s = [i \in 1 .. Len(items) |->
            [name |-> items[p[i]].name, number |-> items[p[i]].number, index |-> p[i] - 1]]
  /\ \A i, j \in 1 .. Len(items) : i < j =>
       items[p[i]].number <= items[p[j]].number /\ p[i] # p[j]
  /\ \A x \in 1 .. Len(items) : \E i \in 1 .. Len(items) : p[i] = x

LEMMA ByNumberInOrder ==
  ASSUME NEW items \in Seq(Item)
  PROVE  \E p : SortedAs(ByNumber(items), items, p)
<1> DEFINE m == Len(items)
           u == [j \in DOMAIN items |->
                   [name |-> items[j].name, number |-> items[j].number, index |-> j - 1]]
           less(a, b) == a.number < b.number \/ (a.number = b.number /\ a.index < b.index)
           R == {x \in (1 .. m) \X (1 .. m) : less(u[x[1]], u[x[2]])}
           p == [i \in 1 .. m |-> CHOOSE x \in DOMAIN u :
                   Cardinality({y \in DOMAIN u : less(u[y], u[x])}) = i - 1]
<1>1. m \in Nat /\ DOMAIN items = 1 .. m /\ DOMAIN u = 1 .. m
  OBVIOUS
<1>2. \A j \in 1 .. m : u[j].number \in Int /\ u[j].index = j - 1
  <2>1. \A j \in 1 .. m : items[j] \in Item
    BY <1>1
  <2>2. \A j \in 1 .. m : items[j].number \in Int
    BY <2>1, IntFacts DEF Item
  <2> QED
    BY <1>1, <2>2
<1>3. ByNumber(items) = [i \in DOMAIN u |-> u[CHOOSE x \in DOMAIN u :
                   Cardinality({y \in DOMAIN u : less(u[y], u[x])}) = i - 1]]
  BY DEF ByNumber, SortedBy
<1>4. \A j \in 1 .. m :
        u[j] = [name |-> items[j].name, number |-> items[j].number, index |-> j - 1]
  BY <1>1
<1>a. \A j \in 1 .. m : u[j].number = items[j].number
  BY <1>1
<1> HIDE DEF u, m
<1>5. StrictOrder(m, R)
  <2>1. \A x, y \in 1 .. m : <<x, y>> \in R <=>
          u[x].number < u[y].number \/ (u[x].number = u[y].number /\ x < y)
    BY <1>1, <1>2
  <2> HIDE DEF R, p, less
  <2>2. \A x \in 1 .. m : <<x, x>> \notin R
    BY <1>2, <2>1
  <2>3. \A x, y \in 1 .. m : x # y => <<x, y>> \in R \/ <<y, x>> \in R
    BY <1>1, <1>2, <2>1
  <2>4. ASSUME NEW x \in 1 .. m, NEW y \in 1 .. m, NEW z \in 1 .. m,
               <<x, y>> \in R, <<y, z>> \in R
        PROVE  <<x, z>> \in R
    <3>1. u[x].number < u[y].number \/ (u[x].number = u[y].number /\ x < y)
      BY <2>1, <2>4
    <3>2. u[y].number < u[z].number \/ (u[y].number = u[z].number /\ y < z)
      BY <2>1, <2>4
    <3>3. u[x].number \in Int /\ u[y].number \in Int /\ u[z].number \in Int
      BY <1>2
    <3>4. u[x].number < u[z].number \/ (u[x].number = u[z].number /\ x < z)
      BY <3>1, <3>2, <3>3
    <3> QED
      BY <2>1, <3>4
  <2> QED
    BY <2>2, <2>3, <2>4, Zenon DEF StrictOrder
<1>6. \A x \in 1 .. m : {y \in DOMAIN u : less(u[y], u[x])} = Lesser(m, R, x)
  BY <1>1 DEF Lesser
<1>7. ASSUME NEW i \in 1 .. m
      PROVE  p[i] \in 1 .. m /\ Cardinality(Lesser(m, R, p[i])) = i - 1
  <2>1. \E x \in 1 .. m : Cardinality(Lesser(m, R, x)) = i - 1
    <3> HIDE DEF R
    <3> QED
      BY <1>1, <1>5, PlaceTaken
  <2>2. \E x \in DOMAIN u : Cardinality({y \in DOMAIN u : less(u[y], u[x])}) = i - 1
    <3> HIDE DEF R, less
    <3> QED
      BY <1>1, <1>6, <2>1
  <2>3. p[i] \in DOMAIN u /\ Cardinality({y \in DOMAIN u : less(u[y], u[p[i]])}) = i - 1
    <3> HIDE DEF R, less
    <3> QED
      BY <2>2
  <2> HIDE DEF R, less, p
  <2> QED
    BY <1>1, <1>6, <2>3
<1>8. ByNumber(items) = [i \in 1 .. m |-> u[p[i]]]
  <2> HIDE DEF less
  <2> QED
    BY <1>1, <1>3
<1>10. p \in [1 .. m -> 1 .. m]
  <2> HIDE DEF less, R
  <2>1. ASSUME NEW i \in 1 .. m
        PROVE  (CHOOSE x \in DOMAIN u :
                  Cardinality({y \in DOMAIN u : less(u[y], u[x])}) = i - 1) \in 1 .. m
    BY <1>7
  <2> QED
    BY <2>1
<1> HIDE DEF p
<1>11. /\ \A i, j \in 1 .. m : i < j => <<p[i], p[j]>> \in R
       /\ \A x \in 1 .. m : \E i \in 1 .. m : p[i] = x
  <2> HIDE DEF R, less
  <2>1. \A i \in 1 .. m : Cardinality(Lesser(m, R, p[i])) = i - 1
    BY <1>7
  <2>2. m \in Nat
    BY <1>1
  <2> QED
    BY <1>5, <1>10, <2>1, <2>2, PlacesRight, Zenon
<1>12. ASSUME NEW i \in 1 .. m, NEW j \in 1 .. m, i < j
       PROVE  u[p[i]].number <= u[p[j]].number /\ p[i] # p[j]
  <2>1. p[i] \in 1 .. m /\ p[j] \in 1 .. m
    BY <1>10
  <2>2. less(u[p[i]], u[p[j]])
    BY <1>11, <1>12
  <2> QED
    BY <1>2, <2>1, <2>2
<1>13. SortedAs(ByNumber(items), items, p)
  <2>1. \A i \in 1 .. m : u[p[i]] =
          [name |-> items[p[i]].name, number |-> items[p[i]].number, index |-> p[i] - 1]
    BY <1>4, <1>10
  <2>2. ByNumber(items) = [i \in 1 .. m |->
          [name |-> items[p[i]].name, number |-> items[p[i]].number, index |-> p[i] - 1]]
    BY <1>8, <2>1
  <2>3. \A i, j \in 1 .. m : i < j =>
          items[p[i]].number <= items[p[j]].number /\ p[i] # p[j]
    <3>1. \A i \in 1 .. m : u[p[i]].number = items[p[i]].number
      BY <1>10, <1>a
    <3> QED
      BY <1>12, <3>1
  <2> QED
    BY <1>10, <1>11, <2>2, <2>3 DEF SortedAs, m
<1> QED
  BY <1>13

\* What is sorted by name, written out.
SortedByName(v) ==
  [i \in DOMAIN v |->
     v[CHOOSE x \in DOMAIN v : Cardinality({y \in DOMAIN v : v[y].name < v[x].name}) = i - 1]]

\* t has what v has.
SameElements(t, v, m) ==
  /\ \A i \in 1 .. m : \E j \in 1 .. m : t[i] = v[j]
  /\ \A j \in 1 .. m : \E i \in 1 .. m : t[i] = v[j]

LEMMA ByNameInOrder ==
  ASSUME NEW m \in Nat, NEW v, DOMAIN v = 1 .. m, \A j \in 1 .. m : v[j].name \in Int,
         \A j, k \in 1 .. m : j # k => v[j].name # v[k].name
  PROVE  /\ DOMAIN SortedByName(v) = 1 .. m
         /\ \A i, j \in 1 .. m : i < j => SortedByName(v)[i].name < SortedByName(v)[j].name
         /\ SameElements(SortedByName(v), v, m)
<1> DEFINE R == {x \in (1 .. m) \X (1 .. m) : v[x[1]].name < v[x[2]].name}
           below(x) == {y \in DOMAIN v : v[y].name < v[x].name}
           p == [i \in 1 .. m |-> CHOOSE x \in DOMAIN v : Cardinality(below(x)) = i - 1]
<1>1. \A x, y \in 1 .. m : <<x, y>> \in R <=> v[x].name < v[y].name
  OBVIOUS
<1>2. \A x \in 1 .. m : below(x) = Lesser(m, R, x)
  BY DEF Lesser
<1>3. SortedByName(v) = [i \in 1 .. m |-> v[p[i]]]
  BY DEF SortedByName
<1> HIDE DEF R, below
<1>4. StrictOrder(m, R)
  <2>1. \A x \in 1 .. m : <<x, x>> \notin R
    BY <1>1
  <2>2. \A x, y \in 1 .. m : x # y => <<x, y>> \in R \/ <<y, x>> \in R
    BY <1>1
  <2>3. ASSUME NEW x \in 1 .. m, NEW y \in 1 .. m, NEW z \in 1 .. m,
               <<x, y>> \in R, <<y, z>> \in R
        PROVE  <<x, z>> \in R
    <3>1. v[x].name < v[y].name /\ v[y].name < v[z].name
      BY <1>1, <2>3
    <3>2. v[x].name < v[z].name
      BY <3>1
    <3> QED
      BY <1>1, <3>2
  <2> QED
    BY <2>1, <2>2, <2>3, Zenon DEF StrictOrder
<1>5. ASSUME NEW i \in 1 .. m
      PROVE  p[i] \in 1 .. m /\ Cardinality(Lesser(m, R, p[i])) = i - 1
  <2>1. \E x \in 1 .. m : Cardinality(Lesser(m, R, x)) = i - 1
    BY <1>4, PlaceTaken
  <2>2. \E x \in DOMAIN v : Cardinality(below(x)) = i - 1
    BY <1>2, <2>1
  <2>3. p[i] \in DOMAIN v /\ Cardinality(below(p[i])) = i - 1
    BY <2>2
  <2> HIDE DEF p
  <2> QED
    BY <1>2, <2>3
<1>6. p \in [1 .. m -> 1 .. m]
  <2>1. ASSUME NEW i \in 1 .. m
        PROVE  (CHOOSE x \in DOMAIN v : Cardinality(below(x)) = i - 1) \in 1 .. m
    BY <1>5
  <2> QED
    BY <2>1
<1> HIDE DEF p
<1>7. /\ \A i, j \in 1 .. m : i < j => <<p[i], p[j]>> \in R
      /\ \A x \in 1 .. m : \E i \in 1 .. m : p[i] = x
  <2>1. \A i \in 1 .. m : Cardinality(Lesser(m, R, p[i])) = i - 1
    BY <1>5
  <2>2. m \in Nat
    OBVIOUS
  <2> DEFINE Sorted == \A i, j \in 1 .. m : i < j => <<p[i], p[j]>> \in R
             Onto == \A x \in 1 .. m : \E i \in 1 .. m : p[i] = x
  <2>3. Sorted /\ Onto
    BY ONLY <1>4, <1>6, <2>1, <2>2, PlacesRight
  <2> QED
    BY <2>3
<1>8. \A i \in 1 .. m : SortedByName(v)[i] = v[p[i]] /\ p[i] \in 1 .. m
  BY <1>3, <1>6
<1>9. DOMAIN SortedByName(v) = 1 .. m
  BY <1>3
<1>10. ASSUME NEW i \in 1 .. m, NEW j \in 1 .. m, i < j
       PROVE  SortedByName(v)[i].name < SortedByName(v)[j].name
  <2>1. <<p[i], p[j]>> \in R /\ p[i] \in 1 .. m /\ p[j] \in 1 .. m
    BY <1>7, <1>8, <1>10
  <2>2. v[p[i]].name < v[p[j]].name
    BY <1>1, <2>1
  <2> QED
    BY <1>8, <2>2
<1>11. \A i \in 1 .. m : \E j \in 1 .. m : SortedByName(v)[i] = v[j]
  BY <1>8
<1>12. ASSUME NEW j \in 1 .. m PROVE \E i \in 1 .. m : SortedByName(v)[i] = v[j]
  <2>1. PICK i \in 1 .. m : p[i] = j
    BY <1>7
  <2> QED
    BY <1>8, <2>1
<1> QED
  BY <1>9, <1>10, <1>11, <1>12 DEF SameElements
-----------------------------------------------------------------------------
(* The array of numbers without repetitions.                               *)

\* Numbers that do not decrease.
Rising(s, m) ==
  /\ \A i \in 1 .. m : s[i].number \in IntMin .. IntMax
  /\ \A i, j \in 1 .. m : i < j => s[i].number <= s[j].number

UpTo(s, j) == {s[k].number : k \in 1 .. j}

LEMMA UpToStep ==
  ASSUME NEW m \in Nat, NEW s, Rising(s, m), NEW j \in 1 .. m
  PROVE  UpTo(s, j) = UpTo(s, j - 1) \cup {s[j].number}
<1>1. j - 1 \in Nat /\ \A k \in 1 .. j : k \in 1 .. j - 1 \/ k = j
  OBVIOUS
<1>2. \A k \in 1 .. j - 1 : k \in 1 .. j
  OBVIOUS
<1>3. j \in 1 .. j
  OBVIOUS
<1> QED
  BY <1>1, <1>2, <1>3 DEF UpTo

LEMMA UpToFinite ==
  ASSUME NEW m \in Nat, NEW s, Rising(s, m)
  PROVE  \A j \in 0 .. m : IsFiniteSet(UpTo(s, j)) /\ Cardinality(UpTo(s, j)) \in Nat
<1> DEFINE Bad == {j \in 0 .. m : ~IsFiniteSet(UpTo(s, j))}
<1>1. UpTo(s, 0) = {}
  BY DEF UpTo
<1>2. 0 \notin Bad
  BY <1>1, FS_EmptySet
<1>3. ASSUME NEW j \in Bad, \A y \in Bad : j <= y
      PROVE  FALSE
  <2>1. j \in 1 .. m /\ j - 1 \in 0 .. m /\ j - 1 \notin Bad
    BY <1>2, <1>3
  <2>2. IsFiniteSet(UpTo(s, j - 1))
    BY <2>1
  <2>3. UpTo(s, j) = UpTo(s, j - 1) \cup {s[j].number}
    BY <2>1, UpToStep
  <2>4. IsFiniteSet(UpTo(s, j))
    BY <2>2, <2>3, FS_AddElement
  <2> QED
    BY <2>4
<1>4. Bad \in SUBSET Nat
  OBVIOUS
<1>5. Bad = {}
  <2> HIDE DEF Bad
  <2> QED
    BY <1>3, <1>4, SmallestExists
<1> QED
  BY <1>5, FS_CardinalityType

\* The index of the first is 0, and a number that is new has the next index.
LEMMA FinalIndexStep ==
  ASSUME NEW m \in Nat, NEW s, Rising(s, m)
  PROVE  /\ \A j \in 1 .. m : final_index(s, j) \in Nat
         /\ m >= 1 => final_index(s, 1) = 0
         /\ \A j \in 2 .. m : final_index(s, j) =
              IF s[j].number = s[j - 1].number THEN final_index(s, j - 1)
              ELSE final_index(s, j - 1) + 1
<1>1. \A j \in 0 .. m : final_index(s, j) = Cardinality(UpTo(s, j)) - 1
  BY DEF final_index, UpTo
<1>2. \A j \in 1 .. m : Cardinality(UpTo(s, j)) =
        IF s[j].number \in UpTo(s, j - 1) THEN Cardinality(UpTo(s, j - 1))
        ELSE Cardinality(UpTo(s, j - 1)) + 1
  <2> SUFFICES ASSUME NEW j \in 1 .. m
               PROVE  Cardinality(UpTo(s, j)) =
                        IF s[j].number \in UpTo(s, j - 1) THEN Cardinality(UpTo(s, j - 1))
                        ELSE Cardinality(UpTo(s, j - 1)) + 1
    OBVIOUS
  <2>1. j - 1 \in 0 .. m
    OBVIOUS
  <2>2. IsFiniteSet(UpTo(s, j - 1))
    BY <2>1, UpToFinite
  <2>3. UpTo(s, j) = UpTo(s, j - 1) \cup {s[j].number}
    BY UpToStep
  <2> QED
    BY <2>2, <2>3, FS_AddElement
<1>3. UpTo(s, 0) = {} /\ Cardinality(UpTo(s, 0)) = 0
  <2>1. UpTo(s, 0) = {}
    BY DEF UpTo
  <2> QED
    BY <2>1, FS_EmptySet
<1>4. m >= 1 => final_index(s, 1) = 0
  <2> SUFFICES ASSUME m >= 1 PROVE final_index(s, 1) = 0
    OBVIOUS
  <2>1. 1 \in 1 .. m /\ 1 \in 0 .. m /\ 1 - 1 = 0
    OBVIOUS
  <2>2. Cardinality(UpTo(s, 1)) = 1
    BY <1>2, <1>3, <2>1
  <2> QED
    BY <1>1, <2>1, <2>2
<1>5. ASSUME NEW j \in 2 .. m
      PROVE  s[j].number \in UpTo(s, j - 1) <=> s[j].number = s[j - 1].number
  <2>1. j - 1 \in 1 .. j - 1 /\ j - 1 \in 1 .. m
    OBVIOUS
  <2>2. ASSUME s[j].number \in UpTo(s, j - 1) PROVE s[j].number = s[j - 1].number
    <3>1. PICK k \in 1 .. j - 1 : s[j].number = s[k].number
      BY <2>2 DEF UpTo
    <3>2. k \in 1 .. m /\ j \in 1 .. m /\ (k < j - 1 \/ k = j - 1) /\ j - 1 < j
      OBVIOUS
    <3>3. s[k].number <= s[j - 1].number /\ s[j - 1].number <= s[j].number
      BY <2>1, <3>2, IntFacts DEF Rising
    <3>4. s[j].number \in Int /\ s[j - 1].number \in Int
      BY <2>1, <3>2, IntFacts DEF Rising
    <3> QED
      BY <3>1, <3>3, <3>4
  <2>3. ASSUME s[j].number = s[j - 1].number PROVE s[j].number \in UpTo(s, j - 1)
    BY <2>1, <2>3 DEF UpTo
  <2> QED
    BY <2>2, <2>3
<1>6. ASSUME NEW j \in 2 .. m
      PROVE  final_index(s, j) =
              IF s[j].number = s[j - 1].number THEN final_index(s, j - 1)
              ELSE final_index(s, j - 1) + 1
  <2>1. j \in 0 .. m /\ j - 1 \in 0 .. m /\ j \in 1 .. m
    OBVIOUS
  <2>2. Cardinality(UpTo(s, j - 1)) \in Nat
    BY <2>1, UpToFinite
  <2> QED
    BY <1>1, <1>2, <1>5, <2>1, <2>2
<1>7. ASSUME NEW j \in 1 .. m PROVE final_index(s, j) \in Nat
  <2>1. j \in 0 .. m /\ s[j].number \in UpTo(s, j)
    BY DEF UpTo
  <2>2. IsFiniteSet(UpTo(s, j)) /\ Cardinality(UpTo(s, j)) \in Nat
    BY <2>1, UpToFinite
  <2>3. Cardinality(UpTo(s, j)) # 0
    BY <2>1, <2>2, FS_EmptySet
  <2> QED
    BY <1>1, <2>1, <2>2, <2>3
<1> QED
  BY <1>4, <1>6, <1>7

\* The indices are in the order of the numbers.
LEMMA FinalIndexOrder ==
  ASSUME NEW m \in Nat, NEW s, Rising(s, m), NEW i \in 1 .. m, NEW j \in 1 .. m
  PROVE  /\ s[i].number < s[j].number => final_index(s, i) < final_index(s, j)
         /\ s[i].number = s[j].number => final_index(s, i) = final_index(s, j)
<1>1. \A k \in 1 .. m : s[k].number \in Int
  BY IntFacts DEF Rising
<1>2. \A k \in 1 .. m : /\ IsFiniteSet(UpTo(s, k)) /\ Cardinality(UpTo(s, k)) \in Nat
                        /\ final_index(s, k) = Cardinality(UpTo(s, k)) - 1
  <2>1. \A k \in 1 .. m : k \in 0 .. m
    OBVIOUS
  <2>2. \A k \in 1 .. m : IsFiniteSet(UpTo(s, k)) /\ Cardinality(UpTo(s, k)) \in Nat
    BY <2>1, UpToFinite
  <2>3. \A k \in 1 .. m : final_index(s, k) = Cardinality(UpTo(s, k)) - 1
    BY DEF final_index, UpTo
  <2> QED
    BY <2>2, <2>3
<1>3. ASSUME NEW a \in 1 .. m, NEW b \in 1 .. m, s[a].number < s[b].number
      PROVE  final_index(s, a) < final_index(s, b)
  <2>1. a < b
    <3>1. SUFFICES ASSUME b <= a PROVE FALSE
      OBVIOUS
    <3>2. s[b].number <= s[a].number
      BY <1>1, <3>1 DEF Rising
    <3> QED
      BY <1>1, <1>3, <3>2
  <2>2. UpTo(s, a) \in SUBSET UpTo(s, b)
    <3>1. \A k \in 1 .. a : k \in 1 .. b
      BY <2>1
    <3> QED
      BY <3>1 DEF UpTo
  <2>3. s[b].number \in UpTo(s, b)
    <3>1. b \in 1 .. b
      OBVIOUS
    <3> QED
      BY <3>1 DEF UpTo
  <2>4. s[b].number \notin UpTo(s, a)
    <3>1. SUFFICES ASSUME NEW k \in 1 .. a, s[b].number = s[k].number PROVE FALSE
      BY DEF UpTo
    <3>2. k \in 1 .. m /\ (k < a \/ k = a)
      OBVIOUS
    <3>3. s[k].number <= s[a].number
      BY <1>1, <3>2 DEF Rising
    <3> QED
      BY <1>1, <1>3, <3>1, <3>2, <3>3
  <2>5. /\ Cardinality(UpTo(s, a)) <= Cardinality(UpTo(s, b))
        /\ Cardinality(UpTo(s, b)) = Cardinality(UpTo(s, a)) => UpTo(s, b) = UpTo(s, a)
    BY <1>2, <2>2, FS_Subset
  <2>6. Cardinality(UpTo(s, a)) # Cardinality(UpTo(s, b))
    BY <2>3, <2>4, <2>5
  <2>7. Cardinality(UpTo(s, a)) < Cardinality(UpTo(s, b))
    BY <1>2, <2>5, <2>6
  <2> QED
    BY <1>2, <2>7
<1>4. ASSUME NEW a \in 1 .. m, NEW b \in 1 .. m, a < b, s[a].number = s[b].number
      PROVE  final_index(s, a) = final_index(s, b)
  <2>1. ASSUME NEW k \in 1 .. b PROVE s[k].number \in UpTo(s, a)
    <3>1. a \in 1 .. a /\ k \in 1 .. m
      OBVIOUS
    <3>2. CASE k <= a
      <4>1. k \in 1 .. a
        BY <3>2
      <4> QED
        BY <4>1 DEF UpTo
    <3>3. CASE k > a
      <4>1. s[a].number <= s[k].number /\ (k < b => s[k].number <= s[b].number) /\ (k < b \/ k = b)
        BY <3>1, <3>3 DEF Rising
      <4>2. s[k].number = s[a].number
        BY <1>1, <1>4, <3>1, <4>1
      <4> QED
        BY <3>1, <4>2 DEF UpTo
    <3> QED
      BY <3>2, <3>3
  <2>2. \A k \in 1 .. a : k \in 1 .. b
    BY <1>4
  <2>3. UpTo(s, a) = UpTo(s, b)
    BY <2>1, <2>2 DEF UpTo
  <2> QED
    BY <1>2, <2>3
<1>5. s[i].number = s[j].number => final_index(s, i) = final_index(s, j)
  <2>1. i < j \/ i = j \/ j < i
    OBVIOUS
  <2> QED
    BY <1>4, <2>1
<1> QED
  BY <1>3, <1>5

\* Those that are the first of their number.
Firsts(s, m) == {j \in 1 .. m : \A k \in 1 .. j - 1 : s[k].number # s[j].number}

\* There are as many as there are numbers.
LEMMA FirstsCount ==
  ASSUME NEW m \in Nat, NEW s, Rising(s, m)
  PROVE  /\ Cardinality(Firsts(s, m)) \in 0 .. m
         /\ m > 0 => Cardinality(Firsts(s, m)) = final_index(s, m) + 1
<1> DEFINE h == [j \in Firsts(s, m) |-> s[j].number]
<1>1. IsFiniteSet(1 .. m) /\ Cardinality(1 .. m) = m
  BY FS_Interval
<1>2. Firsts(s, m) \in SUBSET (1 .. m)
  BY DEF Firsts
<1>3. IsFiniteSet(Firsts(s, m)) /\ Cardinality(Firsts(s, m)) <= m
  BY <1>1, <1>2, FS_Subset
<1>4. Cardinality(Firsts(s, m)) \in Nat
  BY <1>3, FS_CardinalityType
<1>5. h \in [Firsts(s, m) -> UpTo(s, m)]
  <2>1. \A j \in Firsts(s, m) : s[j].number \in UpTo(s, m)
    BY <1>2 DEF UpTo
  <2> QED
    BY <2>1
<1>6. h \in Injection(Firsts(s, m), UpTo(s, m))
  <2>1. ASSUME NEW a \in Firsts(s, m), NEW b \in Firsts(s, m), h[a] = h[b] PROVE a = b
    <3>1. s[a].number = s[b].number /\ a \in 1 .. m /\ b \in 1 .. m
      BY <1>2, <2>1
    <3>2. ~(a < b)
      <4>1. SUFFICES ASSUME a < b PROVE FALSE
        OBVIOUS
      <4>2. a \in 1 .. b - 1
        BY <3>1, <4>1
      <4> QED
        BY <3>1, <4>2 DEF Firsts
    <3>3. ~(b < a)
      <4>1. SUFFICES ASSUME b < a PROVE FALSE
        OBVIOUS
      <4>2. b \in 1 .. a - 1
        BY <3>1, <4>1
      <4> QED
        BY <3>1, <4>2 DEF Firsts
    <3> QED
      BY <3>1, <3>2, <3>3
  <2> HIDE DEF h
  <2> QED
    BY <1>5, <2>1, Fun_IsInj
<1>7. h \in Surjection(Firsts(s, m), UpTo(s, m))
  <2>1. ASSUME NEW t \in UpTo(s, m) PROVE \E j \in Firsts(s, m) : h[j] = t
    <3> DEFINE K == {k \in 1 .. m : s[k].number = t}
    <3>1. K \in SUBSET Nat /\ K # {}
      BY DEF UpTo
    <3>2. PICK j \in K : \A y \in K : j <= y
      <4> HIDE DEF K
      <4> QED
        BY <3>1, SmallestExists
    <3>3. ASSUME NEW k \in 1 .. j - 1 PROVE s[k].number # s[j].number
      <4>1. k \in 1 .. m /\ k < j /\ s[j].number = t /\ j \in Nat
        BY <3>2
      <4>2. k \notin K
        <5> HIDE DEF K
        <5> QED
          BY <3>2, <4>1
      <4> QED
        BY <4>1, <4>2
    <3>4. j \in Firsts(s, m) /\ s[j].number = t
      BY <3>2, <3>3 DEF Firsts
    <3> QED
      BY <3>4
  <2> HIDE DEF h
  <2> QED
    BY <1>5, <2>1, Fun_IsSurj
<1>8. Cardinality(UpTo(s, m)) = Cardinality(Firsts(s, m))
  <2> HIDE DEF h
  <2> QED
    BY <1>3, <1>6, <1>7, FS_Surjection
<1>9. final_index(s, m) = Cardinality(UpTo(s, m)) - 1
  BY DEF final_index, UpTo
<1> QED
  BY <1>3, <1>4, <1>8, <1>9

\* For every index there is one.
LEMMA FirstExists ==
  ASSUME NEW m \in Nat, NEW s, Rising(s, m), NEW x \in 1 .. Cardinality(Firsts(s, m))
  PROVE  \E j \in Firsts(s, m) : final_index(s, j) = x - 1
<1> DEFINE S == {j \in 1 .. m : final_index(s, j) >= x - 1}
<1>1. \A j \in 1 .. m : final_index(s, j) \in Nat
  BY FinalIndexStep
<1>2. /\ Cardinality(Firsts(s, m)) \in 0 .. m
      /\ m > 0 => Cardinality(Firsts(s, m)) = final_index(s, m) + 1
  BY FirstsCount
<1>3. m \in S /\ S \in SUBSET Nat
  <2>1. m \in 1 .. m
    BY <1>2
  <2> QED
    BY <1>1, <1>2, <2>1
<1>4. PICK j \in S : \A y \in S : j <= y
  <2> HIDE DEF S
  <2> QED
    BY <1>3, SmallestExists
<1>5. j \in 1 .. m /\ final_index(s, j) >= x - 1
  BY <1>4
<1>6. CASE j = 1
  <2>1. final_index(s, j) = 0 /\ x \in 1 .. Cardinality(Firsts(s, m))
    BY <1>5, <1>6, FinalIndexStep
  <2>2. x = 1
    BY <1>2, <1>5, <2>1
  <2>3. j \in Firsts(s, m)
    BY <1>5, <1>6 DEF Firsts
  <2> QED
    BY <2>1, <2>2, <2>3
<1>7. CASE j # 1
  <2>1. j \in 2 .. m /\ j - 1 \in 1 .. m /\ j - 1 \notin S
    <3>1. j \in 2 .. m /\ j - 1 \in 1 .. m /\ ~(j <= j - 1)
      BY <1>5, <1>7
    <3> HIDE DEF S
    <3> QED
      BY <1>4, <3>1
  <2>2. ~(final_index(s, j - 1) >= x - 1)
    BY <2>1
  <2>3. final_index(s, j) =
              IF s[j].number = s[j - 1].number THEN final_index(s, j - 1)
              ELSE final_index(s, j - 1) + 1
    BY <2>1, FinalIndexStep
  <2>4. final_index(s, j - 1) \in Nat /\ final_index(s, j) \in Nat
    BY <1>1, <1>5, <2>1
  <2>5. s[j].number # s[j - 1].number /\ final_index(s, j) = x - 1
    BY <1>2, <1>5, <2>2, <2>3, <2>4
  <2>6. ASSUME NEW k \in 1 .. j - 1 PROVE s[k].number # s[j].number
    <3>1. k \in 1 .. m /\ (k < j - 1 \/ k = j - 1) /\ j - 1 < j /\ j \in 1 .. m
      BY <1>5, <2>1
    <3>2. (k < j - 1 => s[k].number <= s[j - 1].number) /\ s[j - 1].number <= s[j].number
      BY <2>1, <3>1 DEF Rising
    <3>3. s[k].number \in Int /\ s[j].number \in Int /\ s[j - 1].number \in Int
      BY <2>1, <3>1, IntFacts DEF Rising
    <3> QED
      BY <2>5, <3>1, <3>2, <3>3
  <2>7. j \in Firsts(s, m)
    BY <1>5, <2>6 DEF Firsts
  <2> QED
    BY <2>5, <2>7
<1> QED
  BY <1>6, <1>7

Indexed == [name : Int, number : IntMin .. IntMax, index : Nat]

\* What ByNumber does: nothing is lost, nothing is added, and it is in order.
LEMMA ByNumberFacts ==
  ASSUME NEW items \in Seq(Item)
  PROVE  /\ ByNumber(items) \in Seq(Indexed) /\ Len(ByNumber(items)) = Len(items)
         /\ Rising(ByNumber(items), Len(items))
         /\ \A i \in 1 .. Len(items) : \E x \in 1 .. Len(items) :
              /\ ByNumber(items)[i].name = items[x].name
              /\ ByNumber(items)[i].number = items[x].number
         /\ \A x \in 1 .. Len(items) : \E i \in 1 .. Len(items) :
              /\ ByNumber(items)[i].name = items[x].name
              /\ ByNumber(items)[i].number = items[x].number
         /\ (\A x, y \in 1 .. Len(items) : x # y => items[x].name # items[y].name) =>
              \A i, j \in 1 .. Len(items) :
                i # j => ByNumber(items)[i].name # ByNumber(items)[j].name
         /\ (\A x, y \in 1 .. Len(items) : x # y => items[x].number # items[y].number) =>
              \A i, j \in 1 .. Len(items) :
                i < j => ByNumber(items)[i].number < ByNumber(items)[j].number
<1> DEFINE m == Len(items)
           s == ByNumber(items)
<1>1. PICK p : SortedAs(s, items, p)
  BY ByNumberInOrder
<1>2. m \in Nat /\ \A x \in 1 .. m : items[x] \in Item
  OBVIOUS
<1>3. \A x \in 1 .. m : items[x].name \in Int /\ items[x].number \in IntMin .. IntMax
  BY <1>2 DEF Item
<1>4. p \in [1 .. m -> 1 .. m]
  BY <1>1 DEF SortedAs
<1>5. s = [i \in 1 .. m |->
            [name |-> items[p[i]].name, number |-> items[p[i]].number, index |-> p[i] - 1]]
  BY <1>1 DEF SortedAs
<1>6. \A i, j \in 1 .. m : i < j =>
       items[p[i]].number <= items[p[j]].number /\ p[i] # p[j]
  BY <1>1 DEF SortedAs
<1>7. \A x \in 1 .. m : \E i \in 1 .. m : p[i] = x
  BY <1>1 DEF SortedAs
<1> HIDE DEF m, s
<1>8. \A i \in 1 .. m :
        [name |-> items[p[i]].name, number |-> items[p[i]].number, index |-> p[i] - 1] \in Indexed
  <2> SUFFICES ASSUME NEW i \in 1 .. m
               PROVE  [name |-> items[p[i]].name, number |-> items[p[i]].number,
                       index |-> p[i] - 1] \in Indexed
    OBVIOUS
  <2>1. p[i] \in 1 .. m
    BY <1>4
  <2>2. items[p[i]].name \in Int /\ items[p[i]].number \in IntMin .. IntMax /\ p[i] - 1 \in Nat
    BY <1>2, <1>3, <2>1
  <2> QED
    BY <2>2 DEF Indexed
<1>9. s \in Seq(Indexed) /\ Len(s) = m
  BY <1>2, <1>5, <1>8
<1>10. \A i \in 1 .. m : /\ s[i].name = items[p[i]].name
                         /\ s[i].number = items[p[i]].number /\ p[i] \in 1 .. m
  BY <1>4, <1>5
<1>11. Rising(s, m)
  <2>1. \A i \in 1 .. m : s[i].number \in IntMin .. IntMax
    BY <1>3, <1>10
  <2>2. \A i, j \in 1 .. m : i < j => s[i].number <= s[j].number
    BY <1>6, <1>10
  <2> QED
    BY <2>1, <2>2 DEF Rising
<1>12. \A i \in 1 .. m : \E x \in 1 .. m :
         s[i].name = items[x].name /\ s[i].number = items[x].number
  BY <1>10
<1>13. ASSUME NEW x \in 1 .. m
       PROVE  \E i \in 1 .. m : s[i].name = items[x].name /\ s[i].number = items[x].number
  <2>1. PICK i \in 1 .. m : p[i] = x
    BY <1>7
  <2> QED
    BY <1>10, <2>1
<1>14. ASSUME \A x, y \in 1 .. m : x # y => items[x].name # items[y].name,
              NEW i \in 1 .. m, NEW j \in 1 .. m, i # j
       PROVE  s[i].name # s[j].name
  <2>1. p[i] # p[j]
    <3>1. i < j \/ j < i
      BY <1>2, <1>14
    <3> QED
      BY <1>6, <3>1
  <2> QED
    BY <1>10, <1>14, <2>1
<1>15. ASSUME \A x, y \in 1 .. m : x # y => items[x].number # items[y].number,
              NEW i \in 1 .. m, NEW j \in 1 .. m, i < j
       PROVE  s[i].number < s[j].number
  <2>1. p[i] # p[j] /\ items[p[i]].number <= items[p[j]].number
    BY <1>6, <1>15
  <2>2. items[p[i]].number # items[p[j]].number
    BY <1>10, <1>15, <2>1
  <2>3. items[p[i]].number \in Int /\ items[p[j]].number \in Int
    BY <1>3, <1>10, IntFacts
  <2> QED
    BY <1>10, <2>1, <2>2, <2>3
<1>16. (\A x, y \in 1 .. m : x # y => items[x].name # items[y].name) =>
         \A i, j \in 1 .. m : i # j => s[i].name # s[j].name
  BY <1>14
<1>17. (\A x, y \in 1 .. m : x # y => items[x].number # items[y].number) =>
         \A i, j \in 1 .. m : i < j => s[i].number < s[j].number
  BY <1>15
<1> QED
  BY <1>9, <1>11, <1>12, <1>13, <1>16, <1>17 DEF m, s

\* es is the array for the sorted s: the indices lead to their numbers, which
\* rise strictly, and there is nothing else in it.
ArrayRight(es, s, m, c) ==
  /\ c \in 0 .. m
  /\ DOMAIN es = 1 .. c
  /\ m > 0 => c = final_index(s, m) + 1
  /\ \A x \in 1 .. c : \E j \in 1 .. m : es[x] = s[j] /\ final_index(s, j) = x - 1
  /\ \A j \in 1 .. m : final_index(s, j) + 1 \in 1 .. c /\ es[final_index(s, j) + 1].number = s[j].number
  /\ \A x \in 1 .. c : es[x].number \in IntMin .. IntMax
  /\ \A x, y \in 1 .. c : x < y => es[x].number < es[y].number

LEMMA EntriesRight ==
  ASSUME NEW d, d.items \in Seq(Item), d.kind # "service"
  PROVE  ArrayRight(Entries(d), ByNumber(d.items), Len(d.items),
                    Cardinality(Firsts(ByNumber(d.items), Len(d.items))))
<1> DEFINE s == ByNumber(d.items)
           m == Len(d.items)
           F == {j \in DOMAIN s : \A k \in 1 .. j - 1 : s[k].number # s[j].number}
           c == Cardinality(F)
           at(x) == CHOOSE j \in F : final_index(s, j) = x - 1
           es == Entries(d)
<1>1. /\ s \in Seq(Indexed) /\ Len(s) = m /\ Rising(s, m) /\ m \in Nat
  BY ByNumberFacts
<1>2. DOMAIN s = 1 .. m
  BY <1>1
<1>3. es = [x \in 1 .. c |-> s[at(x)]]
  BY DEF Entries
<1>a. F = Firsts(s, m)
  BY <1>2 DEF Firsts
<1> HIDE DEF s, m, es, F
<1>4. c \in 0 .. m /\ (m > 0 => c = final_index(s, m) + 1)
  BY <1>1, <1>a, FirstsCount
<1>5. ASSUME NEW x \in 1 .. c
      PROVE  at(x) \in 1 .. m /\ final_index(s, at(x)) = x - 1
  <2>1. \E j \in Firsts(s, m) : final_index(s, j) = x - 1
    BY <1>1, <1>a, FirstExists
  <2>2. at(x) \in F /\ final_index(s, at(x)) = x - 1
    BY <1>a, <2>1
  <2> HIDE DEF at
  <2> QED
    BY <1>a, <2>2 DEF Firsts
<1> HIDE DEF at
<1>6. \A x \in 1 .. c : es[x] = s[at(x)]
  BY <1>3
<1>7. DOMAIN es = 1 .. c
  BY <1>3
<1> HIDE DEF c
<1>8. \A j \in 1 .. m : s[j].number \in IntMin .. IntMax /\ s[j].number \in Int
  BY <1>1, IntFacts DEF Rising
<1>9. ASSUME NEW i \in 1 .. m, NEW j \in 1 .. m
      PROVE  /\ final_index(s, i) \in Nat
             /\ final_index(s, i) < final_index(s, j) => s[i].number < s[j].number
             /\ final_index(s, i) = final_index(s, j) => s[i].number = s[j].number
  <2>1. final_index(s, i) \in Nat /\ final_index(s, j) \in Nat
    BY <1>1, FinalIndexStep
  <2>2. /\ s[i].number < s[j].number => final_index(s, i) < final_index(s, j)
        /\ s[i].number = s[j].number => final_index(s, i) = final_index(s, j)
        /\ s[j].number < s[i].number => final_index(s, j) < final_index(s, i)
    BY <1>1, FinalIndexOrder
  <2>3. s[i].number < s[j].number \/ s[i].number = s[j].number \/ s[j].number < s[i].number
    BY <1>8
  <2> QED
    BY <2>1, <2>2, <2>3
<1>10. ASSUME NEW j \in 1 .. m
       PROVE  /\ final_index(s, j) + 1 \in 1 .. c
              /\ es[final_index(s, j) + 1].number = s[j].number
  <2>1. m \in 1 .. m
    BY <1>1
  <2>2. final_index(s, j) \in Nat /\ final_index(s, m) \in Nat
    BY <1>9, <2>1
  <2>3. final_index(s, j) <= final_index(s, m)
    <3>1. SUFFICES ASSUME final_index(s, m) < final_index(s, j) PROVE FALSE
      BY <2>2
    <3>2. s[m].number < s[j].number
      BY <1>9, <2>1, <3>1
    <3>3. j < m \/ j = m
      BY <1>1
    <3>4. s[j].number <= s[m].number
      BY <1>1, <1>8, <2>1, <3>3 DEF Rising
    <3> QED
      BY <1>8, <2>1, <3>2, <3>4
  <2>4. final_index(s, j) + 1 \in 1 .. c
    BY <1>1, <1>4, <2>2, <2>3
  <2>5. PICK x \in 1 .. c : x = final_index(s, j) + 1
    BY <2>4
  <2>6. at(x) \in 1 .. m /\ final_index(s, at(x)) = final_index(s, j)
    BY <1>5, <2>2, <2>5
  <2>7. s[at(x)].number = s[j].number
    BY <1>9, <2>6
  <2> QED
    BY <1>6, <2>4, <2>5, <2>7
<1>11. \A x \in 1 .. c : \E j \in 1 .. m : es[x] = s[j] /\ final_index(s, j) = x - 1
  BY <1>5, <1>6
<1>12. \A x \in 1 .. c : es[x].number \in IntMin .. IntMax
  BY <1>5, <1>6, <1>8
<1>13. ASSUME NEW x \in 1 .. c, NEW y \in 1 .. c, x < y
       PROVE  es[x].number < es[y].number
  <2>1. final_index(s, at(x)) < final_index(s, at(y)) /\ at(x) \in 1 .. m /\ at(y) \in 1 .. m
    BY <1>4, <1>5, <1>13
  <2>2. s[at(x)].number < s[at(y)].number
    BY <1>9, <2>1
  <2> QED
    BY <1>6, <2>2
<1> QED
  BY <1>a, <1>4, <1>7, <1>10, <1>11, <1>12, <1>13 DEF ArrayRight, s, m, c, es
-----------------------------------------------------------------------------
(* The ranges.                                                             *)

RangeRecord == [start_value : Int, orig_index : Nat]

\* Ranges that are right up to the last of them: each begins where the one before
\* ends, and in each the numbers follow one another.
Chain(q, es, c) ==
  /\ q \in Seq(RangeRecord) /\ Len(q) >= 1
  /\ q[1].orig_index = 0
  /\ \A r \in 1 .. Len(q) : q[r].orig_index <= c
  /\ \A r \in 1 .. Len(q) - 1 : q[r].orig_index < q[r + 1].orig_index
  /\ \A r \in 1 .. Len(q) - 1 : \A k \in q[r].orig_index .. q[r + 1].orig_index - 1 :
       es[k + 1].number = q[r].start_value + (k - q[r].orig_index)

\* All of them, with the sentinel.
RangesRight(rs, es, c) ==
  Chain(rs, es, c) /\ Len(rs) >= 2 /\ rs[Len(rs)].orig_index = c

LEMMA ToIntIsInt ==
  ASSUME NEW v \in Int
  PROVE  ToInt(v) \in Int
<1>1. Modulus \in Int /\ Modulus > 0 /\ IntMin \in Int /\ v - IntMin \in Int
  BY IntFacts
<1>2. (v - IntMin) % Modulus \in Int
  <2> DEFINE M == Modulus
             a == v - IntMin
  <2> HIDE DEF M, a
  <2>1. M \in Int /\ M > 0 /\ a \in Int
    BY <1>1 DEF M, a
  <2>2. a % M \in Int
    BY <2>1
  <2> QED
    BY <2>2 DEF M, a
<1> QED
  BY <1>1, <1>2 DEF ToInt

LEMMA IntRangeType ==
  ASSUME NEW v \in Int, NEW o \in Nat
  PROVE  /\ IntRange(v, o) \in RangeRecord /\ IntRange(v, o).orig_index = o
         /\ v \in IntMin .. IntMax => IntRange(v, o).start_value = v
<1>1. ToInt(v) \in Int /\ (v \in IntMin .. IntMax => ToInt(v) = v)
  BY ToIntIsInt, ToIntSame
<1> QED
  BY <1>1 DEF IntRange, RangeRecord

LEMMA ChainStart ==
  ASSUME NEW es, NEW c \in Nat, NEW e \in RangeRecord, e.orig_index = 0
  PROVE  Chain(Append(<<>>, e), es, c)
<1>1. <<>> \in Seq(RangeRecord)
  OBVIOUS
<1>2. /\ Append(<<>>, e) \in Seq(RangeRecord) /\ Len(Append(<<>>, e)) = 1
      /\ Append(<<>>, e)[1] = e
  BY <1>1
<1> QED
  BY <1>2 DEF Chain

LEMMA ChainAppend ==
  ASSUME NEW es, NEW c \in Nat, NEW q, Chain(q, es, c), NEW e \in RangeRecord,
         q[Len(q)].orig_index < e.orig_index, e.orig_index <= c,
         \A k \in q[Len(q)].orig_index .. e.orig_index - 1 :
           es[k + 1].number = q[Len(q)].start_value + (k - q[Len(q)].orig_index)
  PROVE  Chain(Append(q, e), es, c)
<1> DEFINE t == Append(q, e)
           l == Len(q)
<1>1. q \in Seq(RangeRecord) /\ l \in Nat /\ l >= 1
  BY DEF Chain
<1>2. t \in Seq(RangeRecord) /\ Len(t) = l + 1 /\ t[l + 1] = e /\ \A r \in 1 .. l : t[r] = q[r]
  BY <1>1
<1> HIDE DEF t, l
<1>3. t[1].orig_index = 0
  BY <1>1, <1>2 DEF Chain
<1>4. ASSUME NEW r \in 1 .. Len(t) PROVE t[r].orig_index <= c
  <2>1. r \in 1 .. l \/ r = l + 1
    BY <1>1, <1>2
  <2> QED
    BY <1>2, <2>1 DEF Chain, l
<1>5. ASSUME NEW r \in 1 .. Len(t) - 1
      PROVE  t[r].orig_index < t[r + 1].orig_index
  <2>1. r \in 1 .. l /\ ((r + 1 \in 1 .. l /\ r \in 1 .. l - 1) \/ r = l)
    BY <1>1, <1>2
  <2> QED
    BY <1>2, <2>1 DEF Chain, l
<1>6. ASSUME NEW r \in 1 .. Len(t) - 1,
             NEW k \in t[r].orig_index .. t[r + 1].orig_index - 1
      PROVE  es[k + 1].number = t[r].start_value + (k - t[r].orig_index)
  <2>1. r \in 1 .. l /\ ((r + 1 \in 1 .. l /\ r \in 1 .. l - 1) \/ r = l)
    BY <1>1, <1>2
  <2>2. CASE r = l
    BY <1>2, <2>1, <2>2 DEF l
  <2>3. CASE r + 1 \in 1 .. l /\ r \in 1 .. l - 1
    BY <1>2, <2>1, <2>3 DEF Chain, l
  <2> QED
    BY <2>1, <2>2, <2>3
<1>7. Len(t) >= 1
  BY <1>1, <1>2
<1>8. Chain(t, es, c)
  BY <1>2, <1>3, <1>4, <1>5, <1>6, <1>7 DEF Chain
<1> QED
  BY <1>8 DEF t

\* What is written last: the range that is open, and the sentinel.
LEMMA ChainEnd ==
  ASSUME NEW es, NEW c \in Nat, NEW out \in Seq(RangeRecord), NEW e \in RangeRecord,
         Chain(Append(out, e), es, c), NEW h \in RangeRecord,
         h.orig_index = c, e.orig_index < c,
         \A k \in e.orig_index .. c - 1 :
           es[k + 1].number = e.start_value + (k - e.orig_index)
  PROVE  RangesRight(out \o <<e, h>>, es, c)
<1> DEFINE q == Append(out, e)
           t == Append(q, h)
<1>1. q \in Seq(RangeRecord) /\ Len(q) = Len(out) + 1 /\ q[Len(q)] = e /\ Len(out) \in Nat
  OBVIOUS
<1>2. t \in Seq(RangeRecord) /\ Len(t) = Len(q) + 1 /\ t[Len(t)] = h
  <2> HIDE DEF q
  <2> QED
    BY <1>1
<1>3. Chain(t, es, c)
  <2>1. Chain(q, es, c)
    OBVIOUS
  <2> HIDE DEF q
  <2>2. /\ q[Len(q)].orig_index < h.orig_index /\ h.orig_index <= c
        /\ \A k \in q[Len(q)].orig_index .. h.orig_index - 1 :
             es[k + 1].number = q[Len(q)].start_value + (k - q[Len(q)].orig_index)
    <3>1. q[Len(q)] = e
      BY <1>1
    <3>2. /\ e.orig_index < h.orig_index /\ h.orig_index <= c
          /\ \A k \in e.orig_index .. h.orig_index - 1 :
               es[k + 1].number = e.start_value + (k - e.orig_index)
      BY SMTT(30)
    <3> QED
      BY <3>1, <3>2, Zenon
  <2> QED
    BY <2>1, <2>2, ChainAppend
<1>4. out \o <<e, h>> = t
  <2>1. out \o <<e, h>> \in Seq(RangeRecord) /\ Len(out \o <<e, h>>) = Len(out) + 2
    OBVIOUS
  <2>2. Len(t) = Len(out) + 2
    BY <1>1, <1>2
  <2>3. \A i \in 1 .. Len(out) + 2 : (out \o <<e, h>>)[i] = t[i]
    OBVIOUS
  <2> QED
    BY <1>2, <2>1, <2>2, <2>3, SeqEqual
<1>5. Len(t) >= 2 /\ t[Len(t)].orig_index = c
  BY <1>1, <1>2
<1> QED
  BY <1>3, <1>4, <1>5 DEF RangesRight

EnumState == [out : Seq(RangeRecord), value : IntMin .. IntMax, start : Nat, len : Nat,
              last : IntMin .. IntMax]

LEMMA EnumTurnType ==
  ASSUME NEW st \in EnumState, NEW v \in IntMin .. IntMax
  PROVE  EnumTurn(st, v) \in EnumState
<1>1. /\ st.out \in Seq(RangeRecord) /\ st.value \in IntMin .. IntMax /\ st.start \in Nat
      /\ st.len \in Nat /\ st.last \in IntMin .. IntMax
  BY DEF EnumState
<1>2. st.value \in Int
  BY <1>1, IntFacts
<1>3. Append(st.out, IntRange(st.value, st.start)) \in Seq(RangeRecord)
  <2>1. IntRange(st.value, st.start) \in RangeRecord
    BY <1>1, <1>2, IntRangeType
  <2> QED
    BY <1>1, <2>1
<1>4. st.start + st.len \in Nat /\ st.len + 1 \in Nat /\ 1 \in Nat
  BY <1>1
<1>5. [st EXCEPT !.len = @ + 1, !.last = v] \in EnumState
  BY <1>1, <1>4, Zenon DEF EnumState
<1>6. [out   |-> Append(st.out, IntRange(st.value, st.start)), value |-> v,
       start |-> st.start + st.len, len |-> 1, last |-> v] \in EnumState
  BY <1>3, <1>4, Zenon DEF EnumState
<1> QED
  BY <1>5, <1>6 DEF EnumTurn

\* After i turns: the ranges that are written are right, the open one holds what
\* has been seen since, up to the last number.
EnumPass(st, i, s, es, c) ==
  /\ st \in EnumState
  /\ st.last = s[i + 1].number
  /\ st.len >= 1 /\ st.start + st.len = final_index(s, i + 1) + 1
  /\ Chain(Append(st.out, IntRange(st.value, st.start)), es, c)
  /\ \A k \in st.start .. st.start + st.len - 1 :
       es[k + 1].number = st.value + (k - st.start)

LEMMA EnumPassStep ==
  ASSUME NEW m \in Nat, NEW s, Rising(s, m), NEW es, NEW c, ArrayRight(es, s, m, c),
         NEW i \in 1 .. m - 1, NEW st, EnumPass(st, i - 1, s, es, c)
  PROVE  EnumPass(EnumTurn(st, s[i + 1].number), i, s, es, c)
<1> DEFINE v == s[i + 1].number
           t == EnumTurn(st, v)
<1>1. /\ st \in EnumState /\ st.last = s[i].number
      /\ st.len >= 1 /\ st.start + st.len = final_index(s, i) + 1
      /\ Chain(Append(st.out, IntRange(st.value, st.start)), es, c)
      /\ \A k \in st.start .. st.start + st.len - 1 :
           es[k + 1].number = st.value + (k - st.start)
  <2>1. (i - 1) + 1 = i
    OBVIOUS
  <2> QED
    BY <2>1 DEF EnumPass
<1>2. /\ i \in 1 .. m /\ i + 1 \in 1 .. m /\ i + 1 \in 2 .. m /\ (i + 1) - 1 = i
  OBVIOUS
<1>3. /\ st.out \in Seq(RangeRecord) /\ st.value \in IntMin .. IntMax /\ st.start \in Nat
      /\ st.len \in Nat /\ st.last \in IntMin .. IntMax /\ st.value \in Int /\ st.last \in Int
  BY <1>1, IntFacts DEF EnumState
<1>4. v \in IntMin .. IntMax /\ v \in Int /\ s[i].number \in IntMin .. IntMax /\ st.last <= v
  <2>1. v \in IntMin .. IntMax /\ s[i].number \in IntMin .. IntMax /\ s[i].number <= v
    BY <1>2 DEF Rising
  <2> QED
    BY <1>1, <2>1, IntFacts
<1>5. t \in EnumState
  BY <1>1, <1>4, EnumTurnType
<1>6. /\ final_index(s, i) \in Nat
      /\ final_index(s, i + 1) =
              IF v = s[i].number THEN final_index(s, i) ELSE final_index(s, i) + 1
  <2>1. \A j \in 1 .. m : final_index(s, j) \in Nat
    BY FinalIndexStep
  <2>2. \A j \in 2 .. m : final_index(s, j) =
              IF s[j].number = s[j - 1].number THEN final_index(s, j - 1)
              ELSE final_index(s, j - 1) + 1
    BY FinalIndexStep
  <2> QED
    BY <1>2, <2>1, <2>2
<1>7. /\ c \in Nat
      /\ final_index(s, i) + 1 \in 1 .. c /\ es[final_index(s, i) + 1].number = s[i].number
      /\ final_index(s, i + 1) + 1 \in 1 .. c /\ es[final_index(s, i + 1) + 1].number = v
  <2>1. /\ c \in Nat
        /\ \A j \in 1 .. m : /\ final_index(s, j) + 1 \in 1 .. c
                             /\ es[final_index(s, j) + 1].number = s[j].number
    BY DEF ArrayRight
  <2> QED
    BY <1>2, <2>1
<1> HIDE DEF v
<1>a. st.len >= 1 /\ st.start + st.len = final_index(s, i) + 1
  BY <1>1
<1>8. CASE v = st.last
  <2>1. t = st
    BY <1>8 DEF EnumTurn
  <2>2. final_index(s, i + 1) = final_index(s, i)
    BY <1>1, <1>6, <1>8
  <2> QED
    BY <1>1, <1>8, <2>1, <2>2, Zenon DEF EnumPass, v
<1>9. CASE v # st.last /\ JoinsRange(st.last, v)
  <2>1. t = [st EXCEPT !.len = @ + 1, !.last = v]
    BY <1>9 DEF EnumTurn
  <2>2. /\ t.out = st.out /\ t.value = st.value /\ t.start = st.start
        /\ t.len = st.len + 1 /\ t.last = v
    <3> HIDE DEF t
    <3> QED
      BY <1>1, <2>1 DEF EnumState
  <2> HIDE DEF t
  <2>3. st.last < v
    BY <1>3, <1>4, <1>9
  <2>4. st.last + 1 = v
    BY <1>3, <1>4, <1>9, <2>3, JoinsNext
  <2>5. final_index(s, i + 1) = final_index(s, i) + 1
    BY <1>1, <1>6, <1>9
  <2>6. t.len >= 1 /\ t.start + t.len = final_index(s, i + 1) + 1
    <3>1. st.len + 1 >= 1 /\ st.start + (st.len + 1) = (final_index(s, i) + 1) + 1
      BY <1>a, <1>3, <1>6
    <3> QED
      BY <2>2, <2>5, <3>1, Zenon
  <2>7. ASSUME NEW k \in t.start .. t.start + t.len - 1
        PROVE  es[k + 1].number = t.value + (k - t.start)
    <3>1. k \in st.start .. st.start + st.len - 1 \/ k = st.start + st.len
      BY <1>3, <2>2, SMTT(30)
    <3>2. CASE k \in st.start .. st.start + st.len - 1
      BY <1>1, <2>2, <3>2
    <3>3. CASE k = st.start + st.len
      <4>1. es[k + 1].number = v
        BY <1>1, <1>6, <1>7, <2>5, <3>3
      <4>2. PICK l \in st.start .. st.start + st.len - 1 : l = st.start + st.len - 1
        BY <1>1, <1>3, SMTT(30)
      <4>3. l + 1 = final_index(s, i) + 1
        BY <1>1, <1>3, <1>6, <4>2, SMTT(30)
      <4>4. es[l + 1].number = st.value + (l - st.start) /\ es[l + 1].number = st.last
        BY <1>1, <1>7, <4>3
      <4>5. st.last = st.value + (st.len - 1)
        BY <1>3, <4>2, <4>4
      <4>6. st.value + (k - st.start) = v
        BY <1>3, <2>4, <3>3, <4>5, SMTT(30)
      <4> QED
        BY <2>2, <4>1, <4>6, Zenon
    <3> QED
      BY <3>1, <3>2, <3>3
  <2>8. Chain(Append(t.out, IntRange(t.value, t.start)), es, c)
    BY <1>1, <2>2, Zenon
  <2>9. t.last = s[i + 1].number
    BY <2>2 DEF v
  <2>10. EnumPass(t, i, s, es, c)
    BY <1>5, <2>6, <2>7, <2>8, <2>9, Zenon DEF EnumPass
  <2> QED
    BY <2>10 DEF t, v
<1>10. CASE v # st.last /\ ~JoinsRange(st.last, v)
  <2> DEFINE e == IntRange(st.value, st.start)
             h == IntRange(v, st.start + st.len)
             q == Append(st.out, e)
  <2>1. t = [out |-> q, value |-> v, start |-> st.start + st.len, len |-> 1, last |-> v]
    BY <1>10 DEF EnumTurn
  <2>2. /\ t.out = q /\ t.value = v /\ t.start = st.start + st.len /\ t.len = 1 /\ t.last = v
    <3> HIDE DEF t
    <3> QED
      BY <2>1
  <2> HIDE DEF t
  <2>3. final_index(s, i + 1) = final_index(s, i) + 1
    BY <1>1, <1>6, <1>10
  <2>4. t.len >= 1 /\ t.start + t.len = final_index(s, i + 1) + 1
    BY <1>1, <1>3, <1>6, <2>2, <2>3
  <2>5. ASSUME NEW k \in t.start .. t.start + t.len - 1
        PROVE  es[k + 1].number = t.value + (k - t.start)
    <3>1. k = st.start + st.len /\ k = final_index(s, i + 1)
      BY <1>1, <1>3, <1>6, <2>2, <2>3
    <3>2. es[k + 1].number = v
      BY <1>7, <3>1
    <3>3. v + (k - (st.start + st.len)) = v
      BY <1>3, <1>4, <3>1
    <3> QED
      BY <2>2, <3>2, <3>3, Zenon
  <2>6. /\ e \in RangeRecord /\ e.orig_index = st.start /\ e.start_value = st.value
        /\ h \in RangeRecord /\ h.orig_index = st.start + st.len
    <3>1. st.start + st.len \in Nat
      BY <1>3
    <3> QED
      BY <1>3, <1>4, <3>1, IntRangeType
  <2>7. Chain(q, es, c)
    BY <1>1
  <2> HIDE DEF e, h
  <2>8. Len(q) \in Nat /\ q[Len(q)] = e
    BY <1>3, <2>6
  <2> HIDE DEF q
  <2>9. /\ q[Len(q)].orig_index < h.orig_index /\ h.orig_index <= c
        /\ \A k \in q[Len(q)].orig_index .. h.orig_index - 1 :
             es[k + 1].number = q[Len(q)].start_value + (k - q[Len(q)].orig_index)
    <3>1. e.orig_index < h.orig_index /\ h.orig_index <= c
      BY <1>1, <1>3, <1>6, <1>7, <2>6, SMTT(30)
    <3>2. \A k \in e.orig_index .. h.orig_index - 1 :
             es[k + 1].number = e.start_value + (k - e.orig_index)
      <4>1. \A k \in st.start .. st.start + st.len - 1 :
             es[k + 1].number = st.value + (k - st.start)
        BY <1>1, Zenon
      <4>2. (e.orig_index .. h.orig_index - 1) = (st.start .. st.start + st.len - 1)
        BY <1>3, <2>6
      <4>3. e.orig_index = st.start /\ e.start_value = st.value
        BY <2>6
      <4> QED
        BY <4>1, <4>2, <4>3, Zenon
    <3> QED
      BY <2>8, <3>1, <3>2
  <2>10. Chain(Append(q, h), es, c)
    BY <1>7, <2>6, <2>7, <2>9, ChainAppend
  <2>11. Chain(Append(t.out, IntRange(t.value, t.start)), es, c)
    BY <2>2, <2>10, Zenon DEF h
  <2>12. t.last = s[i + 1].number
    BY <2>2 DEF v
  <2>13. EnumPass(t, i, s, es, c)
    BY <1>5, <2>4, <2>5, <2>11, <2>12, Zenon DEF EnumPass
  <2> QED
    BY <2>13 DEF t, v
<1> QED
  BY <1>8, <1>9, <1>10

LEMMA EnumRangesRight ==
  ASSUME NEW s \in Seq(Indexed), Len(s) >= 1, Rising(s, Len(s)),
         NEW es, NEW c, ArrayRight(es, s, Len(s), c)
  PROVE  RangesRight(EnumRanges(s), es, c)
<1> DEFINE m == Len(s)
           turns == Len(s) - 1
           base == [out |-> <<>>, value |-> s[1].number, start |-> 0,
                    len |-> 1, last |-> s[1].number]
           Rec(t) == t = [i \in 0 .. turns |->
                            IF i = 0 THEN [out |-> <<>>, value |-> s[1].number, start |-> 0,
                                           len |-> 1, last |-> s[1].number]
                            ELSE EnumTurn(t[i - 1], s[i + 1].number)]
           u == CHOOSE t : Rec(t)
           step == [x \in EnumState \X (1 .. turns) |-> EnumTurn(x[1], s[x[2] + 1].number)]
<1>1. m \in Nat /\ turns \in Nat /\ m = turns + 1
  OBVIOUS
<1>2. EnumRanges(s) = u[turns].out \o <<IntRange(u[turns].value, u[turns].start),
                                         IntRange(0, u[turns].start + u[turns].len)>>
  BY DEF EnumRanges
<1>3. \A j \in 1 .. m : s[j].number \in IntMin .. IntMax /\ s[j].number \in Int
  BY IntFacts DEF Rising
<1>a. base.out = <<>> /\ base.value = s[1].number /\ base.start = 0
      /\ base.len = 1 /\ base.last = s[1].number
  OBVIOUS
<1>4. base \in EnumState
  <2>1. s[1].number \in IntMin .. IntMax
    BY <1>1, <1>3
  <2>2. <<>> \in Seq(RangeRecord) /\ 0 \in Nat /\ 1 \in Nat
    OBVIOUS
  <2> QED
    BY <2>1, <2>2, Zenon DEF EnumState
<1>5. \E t : Rec(t)
  <2>1. step \in [EnumState \X (1 .. turns) -> EnumState]
    <3>1. ASSUME NEW x \in EnumState \X (1 .. turns)
          PROVE  EnumTurn(x[1], s[x[2] + 1].number) \in EnumState
      <4>1. x[1] \in EnumState /\ x[2] + 1 \in 1 .. m
        BY <1>1
      <4>2. s[x[2] + 1].number \in IntMin .. IntMax
        BY <1>3, <4>1
      <4> QED
        BY <4>1, <4>2, EnumTurnType
    <3> HIDE DEF turns
    <3> QED
      BY <3>1
  <2>2. PICK t \in [0 .. turns -> EnumState] : Solves(t, turns, base, step)
    <3> HIDE DEF base, step, turns
    <3> QED
      BY <1>1, <1>4, <2>1, RecursionExists
  <2>3. ASSUME NEW i \in 0 .. turns
        PROVE  t[i] = IF i = 0 THEN base ELSE EnumTurn(t[i - 1], s[i + 1].number)
    <3>1. CASE i = 0
      BY <2>2, <3>1 DEF Solves
    <3>2. CASE i # 0
      <4>1. i \in 1 .. turns /\ i - 1 \in 0 .. turns
        BY <3>2
      <4>2. t[i] = step[<<t[i - 1], i>>]
        <5> HIDE DEF step, turns
        <5> QED
          BY <2>2, <4>1 DEF Solves
      <4>3. t[i - 1] \in EnumState
        BY <4>1
      <4>4. <<t[i - 1], i>> \in EnumState \X (1 .. turns)
        BY <4>1, <4>3
      <4> HIDE DEF turns
      <4>5. step[<<t[i - 1], i>>] = EnumTurn(t[i - 1], s[i + 1].number)
        BY <4>4
      <4> QED
        BY <3>2, <4>2, <4>5
    <3> QED
      BY <3>1, <3>2
  <2>4. t = [i \in 0 .. turns |-> t[i]]
    <3> HIDE DEF turns
    <3> QED
      OBVIOUS
  <2>5. Rec(t)
    <3> HIDE DEF turns
    <3> QED
      BY <2>3, <2>4
  <2> QED
    BY <2>5
<1>6. Rec(u)
  <2> HIDE DEF Rec
  <2> QED
    BY <1>5
<1>7. \A i \in 0 .. turns : u[i] = IF i = 0 THEN base ELSE EnumTurn(u[i - 1], s[i + 1].number)
  <2> HIDE DEF turns, u
  <2> QED
    BY <1>6
<1> HIDE DEF u, Rec, step
<1> DEFINE Bad == {i \in 0 .. turns : ~EnumPass(u[i], i, s, es, c)}
<1>8. EnumPass(u[0], 0, s, es, c)
  <2>1. u[0] = base
    BY <1>1, <1>7
  <2>2. final_index(s, 1) = 0 /\ c \in Nat
    BY <1>1, FinalIndexStep DEF ArrayRight
  <2>3. Chain(Append(base.out, IntRange(base.value, base.start)), es, c)
    <3>1. s[1].number \in Int
      BY <1>1, <1>3
    <3>2. IntRange(s[1].number, 0) \in RangeRecord /\ IntRange(s[1].number, 0).orig_index = 0
      BY <3>1, IntRangeType
    <3>3. Chain(Append(<<>>, IntRange(s[1].number, 0)), es, c)
      BY <2>2, <3>2, ChainStart
    <3> QED
      BY <1>a, <3>3, Zenon
  <2>4. ASSUME NEW k \in base.start .. base.start + base.len - 1
        PROVE  es[k + 1].number = base.value + (k - base.start)
    <3>1. k = 0 /\ base.start = 0 /\ base.value = s[1].number
      OBVIOUS
    <3>2. es[1].number = s[1].number
      <4>1. \A j \in 1 .. m : es[final_index(s, j) + 1].number = s[j].number
        BY DEF ArrayRight
      <4>2. 1 \in 1 .. m /\ 0 + 1 = 1
        BY <1>1
      <4> QED
        BY <2>2, <4>1, <4>2
    <3>3. s[1].number \in Int
      BY <1>1, <1>3
    <3> HIDE DEF base
    <3> QED
      BY <3>1, <3>2, <3>3
  <2>5. base.len >= 1 /\ base.start + base.len = final_index(s, 0 + 1) + 1
    BY <2>2
  <2>6. base.last = s[0 + 1].number
    OBVIOUS
  <2> HIDE DEF base
  <2> QED
    BY <1>4, <2>1, <2>3, <2>4, <2>5, <2>6, Zenon DEF EnumPass
<1>9. ASSUME NEW i \in Bad, \A y \in Bad : i <= y
      PROVE  FALSE
  <2> HIDE DEF turns
  <2>1. i \in 0 .. turns /\ i # 0
    BY <1>8
  <2>2. i \in 1 .. turns /\ i - 1 \in 0 .. turns /\ ~(i <= i - 1)
    BY <1>1, <2>1
  <2>3. EnumPass(u[i - 1], i - 1, s, es, c)
    BY <1>9, <2>2
  <2>4. i \in 1 .. m - 1
    BY <1>1, <2>2
  <2>5. EnumPass(EnumTurn(u[i - 1], s[i + 1].number), i, s, es, c)
    BY <1>1, <2>3, <2>4, EnumPassStep
  <2>6. u[i] = EnumTurn(u[i - 1], s[i + 1].number)
    BY <1>7, <2>1
  <2> QED
    BY <2>5, <2>6
<1>10. Bad = {}
  <2>1. Bad \in SUBSET Nat
    OBVIOUS
  <2> HIDE DEF Bad
  <2> QED
    BY <1>9, <2>1, SmallestExists
<1> DEFINE st == u[turns]
<1>11. EnumPass(st, turns, s, es, c)
  <2>1. turns \in 0 .. turns
    BY <1>1
  <2> HIDE DEF turns
  <2> QED
    BY <1>10, <2>1
<1> HIDE DEF base, st, turns
<1>12. /\ st.out \in Seq(RangeRecord) /\ st.value \in IntMin .. IntMax /\ st.start \in Nat
       /\ st.len \in Nat /\ st.value \in Int /\ st.len >= 1
  BY <1>11, IntFacts DEF EnumPass, EnumState
<1>13. st.start + st.len = c
  <2>1. st.start + st.len = final_index(s, m) + 1
    BY <1>1, <1>11 DEF EnumPass
  <2>2. c = final_index(s, m) + 1
    BY <1>1 DEF ArrayRight
  <2> QED
    BY <2>1, <2>2
<1> DEFINE e == IntRange(st.value, st.start)
           h == IntRange(0, st.start + st.len)
<1>14. /\ e \in RangeRecord /\ e.orig_index = st.start /\ e.start_value = st.value
       /\ h \in RangeRecord /\ h.orig_index = c /\ c \in Nat
  <2>1. st.start + st.len \in Nat
    BY <1>12
  <2> QED
    BY <1>12, <1>13, <2>1, IntRangeType
<1>15. Chain(Append(st.out, e), es, c)
  BY <1>11 DEF EnumPass
<1>16. \A k \in e.orig_index .. c - 1 : es[k + 1].number = e.start_value + (k - e.orig_index)
  <2>1. \A k \in st.start .. st.start + st.len - 1 : es[k + 1].number = st.value + (k - st.start)
    BY <1>11, Zenon DEF EnumPass
  <2>2. (e.orig_index .. c - 1) = (st.start .. st.start + st.len - 1)
    BY <1>12, <1>13, <1>14
  <2>3. e.orig_index = st.start /\ e.start_value = st.value
    BY <1>14
  <2> QED
    BY <2>1, <2>2, <2>3, Zenon
<1>17. EnumRanges(s) = st.out \o <<e, h>>
  BY <1>2 DEF st
<1> HIDE DEF e, h
<1>18. e.orig_index < c
  BY <1>12, <1>13, <1>14
<1>19. RangesRight(st.out \o <<e, h>>, es, c)
  BY <1>12, <1>14, <1>15, <1>16, <1>18, ChainEnd
<1> QED
  BY <1>17, <1>19

\* The pass over the fields of a message.
RangeState == [out : Seq(RangeRecord), start : Nat]

Climbing(values, m) ==
  /\ \A j \in 1 .. m : values[j] \in IntMin .. IntMax
  /\ \A i, j \in 1 .. m : i < j => values[i] < values[j]

LEMMA WrittenType ==
  ASSUME NEW m \in Nat, NEW values, Climbing(values, m), NEW i \in 1 .. m, NEW o \in Nat
  PROVE  /\ Written(values, i, o) \in RangeRecord /\ Written(values, i, o).orig_index = o
         /\ (values[i] + 1) - (i - o) \in IntMin .. IntMax =>
              Written(values, i, o).start_value = (values[i] + 1) - (i - o)
<1>1. values[i] \in Int
  BY IntFacts DEF Climbing
<1>2. (values[i] + 1) - (i - o) \in Int
  BY <1>1
<1> QED
  BY <1>2, IntRangeType DEF Written

LEMMA RangeTurnType ==
  ASSUME NEW m \in Nat, NEW values, Climbing(values, m), NEW i \in 1 .. m,
         NEW st \in RangeState
  PROVE  RangeTurn(values, st, i) \in RangeState
<1>1. st.out \in Seq(RangeRecord) /\ st.start \in Nat /\ i \in Nat
  BY DEF RangeState
<1>2. Written(values, i, st.start) \in RangeRecord
  BY <1>1, WrittenType
<1>3. Append(st.out, Written(values, i, st.start)) \in Seq(RangeRecord)
  BY <1>1, <1>2
<1>4. [out |-> Append(st.out, Written(values, i, st.start)), start |-> i] \in RangeState
  BY <1>1, <1>3, Zenon DEF RangeState
<1> QED
  BY <1>4 DEF RangeTurn

\* The range that is open: its first number is not known before it is written.
Open(values, st) == [start_value |-> values[st.start + 1], orig_index |-> st.start]

\* After i turns.
RangePass(st, i, values, es, m) ==
  /\ st \in RangeState /\ st.start <= i
  /\ Chain(Append(st.out, Open(values, st)), es, m)
  /\ \A k \in st.start .. i : values[k + 1] = values[st.start + 1] + (k - st.start)

\* Counted back from its end, the range begins with its first number.
LEMMA WrittenIsOpen ==
  ASSUME NEW m \in Nat, NEW values, Climbing(values, m), NEW i \in 1 .. m, NEW st, NEW es,
         RangePass(st, i - 1, values, es, m)
  PROVE  Written(values, i, st.start) = Open(values, st)
<1>1. st.start \in Nat /\ st.start <= i - 1
  BY DEF RangePass, RangeState
<1>2. st.start + 1 \in 1 .. m /\ i - 1 \in st.start .. i - 1
  BY <1>1
<1>3. values[(i - 1) + 1] = values[st.start + 1] + ((i - 1) - st.start)
  BY <1>2 DEF RangePass
<1>4. values[i] = values[st.start + 1] + ((i - 1) - st.start)
  <2>1. (i - 1) + 1 = i
    OBVIOUS
  <2> QED
    BY <1>3, <2>1
<1>5. values[st.start + 1] \in IntMin .. IntMax /\ values[st.start + 1] \in Int
  BY <1>2, IntFacts DEF Climbing
<1>6. (values[i] + 1) - (i - st.start) = values[st.start + 1]
  BY <1>1, <1>4, <1>5
<1>7. ToInt(values[st.start + 1]) = values[st.start + 1]
  BY <1>5, ToIntSame
<1> QED
  BY <1>6, <1>7, Zenon DEF Written, IntRange, Open

LEMMA RangePassStep ==
  ASSUME NEW m \in Nat, NEW values, Climbing(values, m), NEW es,
         \A j \in 1 .. m : es[j].number = values[j],
         NEW i \in 1 .. m - 1, NEW st, RangePass(st, i - 1, values, es, m)
  PROVE  RangePass(RangeTurn(values, st, i), i, values, es, m)
<1> DEFINE t == RangeTurn(values, st, i)
<1>1. st.out \in Seq(RangeRecord) /\ st.start \in Nat /\ st.start <= i - 1 /\ st \in RangeState
  BY DEF RangePass, RangeState
<1>2. i \in 1 .. m /\ i + 1 \in 1 .. m /\ st.start + 1 \in 1 .. m
  BY <1>1
<1>3. t \in RangeState
  BY <1>1, <1>2, RangeTurnType
<1>4. /\ values[i] \in IntMin .. IntMax /\ values[i + 1] \in IntMin .. IntMax
      /\ values[i] \in Int /\ values[i + 1] \in Int /\ values[i] < values[i + 1]
      /\ values[st.start + 1] \in Int
  BY <1>2, IntFacts DEF Climbing
<1>5. \A k \in st.start .. i - 1 : values[k + 1] = values[st.start + 1] + (k - st.start)
  BY DEF RangePass
<1>6. CASE JoinsRange(values[i], values[i + 1])
  <2>1. t = st
    BY <1>6 DEF RangeTurn
  <2>2. values[i + 1] = values[i] + 1
    BY <1>4, <1>6, JoinsNext
  <2>3. values[i] = values[st.start + 1] + ((i - 1) - st.start)
    <3>1. i - 1 \in st.start .. i - 1 /\ (i - 1) + 1 = i
      BY <1>1
    <3> QED
      BY <1>5, <3>1
  <2>4. ASSUME NEW k \in st.start .. i
        PROVE  values[k + 1] = values[st.start + 1] + (k - st.start)
    <3>1. k \in st.start .. i - 1 \/ k = i
      BY <1>1
    <3>2. CASE k = i
      BY <1>1, <1>4, <2>2, <2>3, <3>2
    <3> QED
      BY <1>5, <3>1, <3>2
  <2>5. st.start <= i
    BY <1>1
  <2> HIDE DEF t
  <2>6. RangePass(st, i, values, es, m)
    BY <1>1, <2>4, <2>5 DEF RangePass
  <2> QED
    BY <2>1, <2>6 DEF t
<1>7. CASE ~JoinsRange(values[i], values[i + 1])
  <2> DEFINE e == Open(values, st)
             q == Append(st.out, e)
             h == Open(values, t)
  <2>1. Written(values, i, st.start) = e
    BY <1>2, WrittenIsOpen
  <2>2. t = [out |-> q, start |-> i]
    BY <1>7, <2>1 DEF RangeTurn
  <2>3. t.out = q /\ t.start = i
    <3> HIDE DEF t, q
    <3> QED
      BY <2>2
  <2> HIDE DEF t
  <2>4. e \in RangeRecord /\ e.orig_index = st.start /\ e.start_value = values[st.start + 1]
    BY <1>1, <1>4 DEF Open, RangeRecord
  <2>5. h \in RangeRecord /\ h.orig_index = i
    BY <1>4, <2>3 DEF Open, RangeRecord
  <2> HIDE DEF e, h
  <2>6. Chain(q, es, m)
    BY DEF RangePass, e
  <2>7. q[Len(q)] = e
    BY <1>1, <2>4
  <2> HIDE DEF q
  <2>8. e.orig_index < h.orig_index /\ h.orig_index <= m
    BY <1>1, <2>4, <2>5
  <2>9. ASSUME NEW k \in e.orig_index .. h.orig_index - 1
        PROVE  es[k + 1].number = e.start_value + (k - e.orig_index)
    <3>1. k \in st.start .. i - 1
      BY <1>1, <2>4, <2>5
    <3>2. k + 1 \in 1 .. m
      BY <1>1, <3>1
    <3>3. values[k + 1] = values[st.start + 1] + (k - st.start)
      BY <1>5, <3>1
    <3>4. es[k + 1].number = values[k + 1]
      BY <3>2
    <3> QED
      BY <2>4, <3>3, <3>4, Zenon
  <2>10. Chain(Append(q, h), es, m)
    <3>1. q[Len(q)].orig_index < h.orig_index
      BY <2>7, <2>8
    <3>2. \A k \in q[Len(q)].orig_index .. h.orig_index - 1 :
           es[k + 1].number = q[Len(q)].start_value + (k - q[Len(q)].orig_index)
      BY <2>7, <2>9, Zenon
    <3> QED
      BY <2>5, <2>6, <2>8, <3>1, <3>2, ChainAppend
  <2>11. Chain(Append(t.out, Open(values, t)), es, m)
    BY <2>3, <2>10 DEF h
  <2>12. ASSUME NEW k \in t.start .. i
         PROVE  values[k + 1] = values[t.start + 1] + (k - t.start)
    <3>1. k = i /\ t.start = i
      BY <2>3
    <3>2. values[i + 1] + (i - i) = values[i + 1]
      BY <1>4
    <3> QED
      BY <3>1, <3>2, Zenon
  <2>13. t.start <= i
    BY <2>3
  <2>14. RangePass(t, i, values, es, m)
    BY <1>3, <2>11, <2>12, <2>13, Zenon DEF RangePass
  <2> QED
    BY <2>14 DEF t
<1> QED
  BY <1>6, <1>7

LEMMA WriteIntRangesRight ==
  ASSUME NEW m \in Nat, m >= 1, NEW values \in Seq(IntMin .. IntMax), Len(values) = m,
         Climbing(values, m), NEW es, \A j \in 1 .. m : es[j].number = values[j]
  PROVE  RangesRight(WriteIntRanges(values), es, m)
<1> DEFINE turns == Len(values) - 1
           base == [out |-> <<>>, start |-> 0]
           Rec(t) == t = [i \in 0 .. turns |->
                            IF i = 0 THEN [out |-> <<>>, start |-> 0]
                            ELSE RangeTurn(values, t[i - 1], i)]
           u == CHOOSE t : Rec(t)
           step == [x \in RangeState \X (1 .. turns) |-> RangeTurn(values, x[1], x[2])]
<1>1. turns \in Nat /\ m = turns + 1
  OBVIOUS
<1>2. WriteIntRanges(values) = u[turns].out \o
        <<Written(values, Len(values), u[turns].start), IntRange(0, Len(values))>>
  BY DEF WriteIntRanges
<1>3. base \in RangeState /\ base.out = <<>> /\ base.start = 0
  BY DEF RangeState
<1>4. \E t : Rec(t)
  <2>1. step \in [RangeState \X (1 .. turns) -> RangeState]
    <3>1. ASSUME NEW x \in RangeState \X (1 .. turns)
          PROVE  RangeTurn(values, x[1], x[2]) \in RangeState
      <4>1. x[1] \in RangeState /\ x[2] \in 1 .. m
        BY <1>1
      <4> QED
        BY <4>1, RangeTurnType
    <3> HIDE DEF turns
    <3> QED
      BY <3>1
  <2>2. PICK t \in [0 .. turns -> RangeState] : Solves(t, turns, base, step)
    <3> HIDE DEF base, step, turns
    <3> QED
      BY <1>1, <1>3, <2>1, RecursionExists
  <2>3. ASSUME NEW i \in 0 .. turns
        PROVE  t[i] = IF i = 0 THEN base ELSE RangeTurn(values, t[i - 1], i)
    <3>1. CASE i = 0
      BY <2>2, <3>1 DEF Solves
    <3>2. CASE i # 0
      <4>1. i \in 1 .. turns /\ i - 1 \in 0 .. turns
        BY <3>2
      <4>2. t[i] = step[<<t[i - 1], i>>]
        <5> HIDE DEF step, turns
        <5> QED
          BY <2>2, <4>1 DEF Solves
      <4>3. t[i - 1] \in RangeState
        BY <4>1
      <4>4. <<t[i - 1], i>> \in RangeState \X (1 .. turns)
        BY <4>1, <4>3
      <4> HIDE DEF turns
      <4>5. step[<<t[i - 1], i>>] = RangeTurn(values, t[i - 1], i)
        BY <4>4
      <4> QED
        BY <3>2, <4>2, <4>5
    <3> QED
      BY <3>1, <3>2
  <2>4. t = [i \in 0 .. turns |-> t[i]]
    <3> HIDE DEF turns
    <3> QED
      OBVIOUS
  <2>5. Rec(t)
    <3> HIDE DEF turns
    <3> QED
      BY <2>3, <2>4
  <2> QED
    BY <2>5
<1>5. Rec(u)
  <2> HIDE DEF Rec
  <2> QED
    BY <1>4
<1>6. \A i \in 0 .. turns : u[i] = IF i = 0 THEN base ELSE RangeTurn(values, u[i - 1], i)
  <2> HIDE DEF turns, u
  <2> QED
    BY <1>5
<1> HIDE DEF u, Rec, step
<1> DEFINE Bad == {i \in 0 .. turns : ~RangePass(u[i], i, values, es, m)}
<1>7. RangePass(u[0], 0, values, es, m)
  <2>1. u[0] = base
    BY <1>1, <1>6
  <2>2. values[1] \in Int
    BY <1>1, IntFacts DEF Climbing
  <2>3. Chain(Append(<<>>, Open(values, base)), es, m)
    <3>1. Open(values, base) \in RangeRecord /\ Open(values, base).orig_index = 0
      BY <1>3, <2>2 DEF Open, RangeRecord
    <3> HIDE DEF base
    <3> QED
      BY <3>1, ChainStart
  <2>4. Chain(Append(base.out, Open(values, base)), es, m)
    <3> HIDE DEF base
    <3> QED
      BY <1>3, <2>3, Zenon
  <2>5. ASSUME NEW k \in base.start .. 0
        PROVE  values[k + 1] = values[base.start + 1] + (k - base.start)
    <3>1. k = 0 /\ base.start = 0
      OBVIOUS
    <3> HIDE DEF base
    <3> QED
      BY <2>2, <3>1
  <2>6. base.start <= 0
    OBVIOUS
  <2> HIDE DEF base
  <2> QED
    BY <1>3, <2>1, <2>4, <2>5, <2>6, Zenon DEF RangePass
<1>8. ASSUME NEW i \in Bad, \A y \in Bad : i <= y
      PROVE  FALSE
  <2> HIDE DEF turns
  <2>1. i \in 0 .. turns /\ i # 0
    BY <1>7
  <2>2. i \in 1 .. turns /\ i - 1 \in 0 .. turns /\ ~(i <= i - 1)
    BY <1>1, <2>1
  <2>3. RangePass(u[i - 1], i - 1, values, es, m)
    BY <1>8, <2>2
  <2>4. i \in 1 .. m - 1
    BY <1>1, <2>2
  <2>5. RangePass(RangeTurn(values, u[i - 1], i), i, values, es, m)
    BY <1>1, <2>3, <2>4, RangePassStep
  <2>6. u[i] = RangeTurn(values, u[i - 1], i)
    BY <1>6, <2>1
  <2> QED
    BY <2>5, <2>6
<1>9. Bad = {}
  <2>1. Bad \in SUBSET Nat
    OBVIOUS
  <2> HIDE DEF Bad
  <2> QED
    BY <1>8, <2>1, SmallestExists
<1> DEFINE st == u[turns]
<1>10. RangePass(st, turns, values, es, m)
  <2>1. turns \in 0 .. turns
    BY <1>1
  <2> HIDE DEF turns
  <2> QED
    BY <1>9, <2>1
<1>11. turns = m - 1 /\ m \in 1 .. m
  BY <1>1
<1> HIDE DEF base, st, turns
<1>12. st.out \in Seq(RangeRecord) /\ st.start \in Nat /\ st.start <= m - 1
  BY <1>10, <1>11 DEF RangePass, RangeState
<1> DEFINE e == Open(values, st)
           h == IntRange(0, m)
<1>13. Written(values, m, st.start) = e
  BY <1>10, <1>11, WrittenIsOpen
<1>14. /\ e \in RangeRecord /\ e.orig_index = st.start /\ e.start_value = values[st.start + 1]
  <2>1. st.start + 1 \in 1 .. m
    BY <1>12
  <2>2. values[st.start + 1] \in Int
    BY <2>1, IntFacts DEF Climbing
  <2> QED
    BY <1>12, <2>2 DEF Open, RangeRecord
<1>15. h \in RangeRecord /\ h.orig_index = m
  BY IntRangeType
<1>16. Chain(Append(st.out, e), es, m)
  BY <1>10 DEF RangePass
<1>17. ASSUME NEW k \in e.orig_index .. m - 1
       PROVE  es[k + 1].number = e.start_value + (k - e.orig_index)
  <2>1. k \in st.start .. turns /\ k + 1 \in 1 .. m
    BY <1>11, <1>12, <1>14
  <2>2. values[k + 1] = values[st.start + 1] + (k - st.start)
    BY <1>10, <2>1 DEF RangePass
  <2>3. es[k + 1].number = values[k + 1]
    BY <2>1
  <2> QED
    BY <1>14, <2>2, <2>3, Zenon
<1>18. WriteIntRanges(values) = st.out \o <<e, h>>
  BY <1>2, <1>13 DEF st
<1> HIDE DEF e, h
<1>19. e.orig_index < m
  BY <1>12, <1>14
<1>20. RangesRight(st.out \o <<e, h>>, es, m)
  BY <1>12, <1>14, <1>15, <1>16, <1>17, <1>19, ChainEnd
<1> QED
  BY <1>18, <1>20
-----------------------------------------------------------------------------
(* The tables that are generated for a declaration.                        *)

NumbersIn(d) == {d.items[j].number : j \in DOMAIN d.items}
NumbersNamed(d, name) ==
  {d.items[j].number : j \in {i \in DOMAIN d.items : d.items[i].name = name}}

\* The array has the declared numbers, each once and in order, and the ranges
\* describe it.
NumbersRight(d, es, rs, c) ==
  /\ c \in 0 .. Len(d.items)
  /\ DOMAIN es = 1 .. c
  /\ \A x \in 1 .. c : es[x].number \in IntMin .. IntMax
  /\ \A x, y \in 1 .. c : x < y => es[x].number < es[y].number
  /\ NumbersIn(d) = {es[x].number : x \in 1 .. c}
  /\ IF d.items = <<>> THEN rs = <<>> ELSE RangesRight(rs, es, c)

\* The names are in order, every declared name is there, and each leads to an
\* entry with its number.
NamesRight(d, es, ns) ==
  /\ Len(ns) = Len(d.items)
  /\ \A i \in 1 .. Len(ns) :
       /\ ns[i].name \in Int
       /\ ns[i].index + 1 \in DOMAIN es /\ ns[i].index \in 0 .. Len(d.items) - 1
       /\ es[ns[i].index + 1].number \in NumbersNamed(d, ns[i].name)
  /\ \A i, j \in 1 .. Len(ns) : i < j => ns[i].name < ns[j].name
  /\ \A j \in DOMAIN d.items : \E i \in 1 .. Len(ns) : ns[i].name = d.items[j].name

LEMMA Declared ==
  ASSUME NEW d \in Declarations
  PROVE  /\ d.kind \in {"enum", "message", "service"}
         /\ d.items \in Seq(Item) /\ Len(d.items) \in Nat /\ DOMAIN d.items = 1 .. Len(d.items)
         /\ \A j, k \in 1 .. Len(d.items) : j # k => d.items[j].name # d.items[k].name
         /\ d.kind = "message" =>
              \A j, k \in 1 .. Len(d.items) : j # k => d.items[j].number # d.items[k].number
<1>1. /\ d.kind \in {"enum", "message", "service"} /\ d.items \in Seq(Item)
      /\ \A j, k \in DOMAIN d.items : j # k =>
         /\ d.items[j].name # d.items[k].name
         /\ d.kind = "message" => d.items[j].number # d.items[k].number
  BY DeclarationsAssumption, Zenon DEF Item
<1>2. Len(d.items) \in Nat /\ DOMAIN d.items = 1 .. Len(d.items)
  BY <1>1
<1> QED
  BY <1>1, <1>2

\* Where no number is repeated the index is the place.
LEMMA StrictIndex ==
  ASSUME NEW m \in Nat, NEW s, Rising(s, m),
         \A i, j \in 1 .. m : i < j => s[i].number < s[j].number
  PROVE  \A j \in 1 .. m : final_index(s, j) = j - 1
<1> DEFINE Bad == {j \in 1 .. m : final_index(s, j) # j - 1}
<1>1. ASSUME NEW j \in Bad, \A y \in Bad : j <= y
      PROVE  FALSE
  <2>1. j \in 1 .. m /\ final_index(s, j) # j - 1
    OBVIOUS
  <2>2. CASE j = 1
    BY <2>1, <2>2, FinalIndexStep
  <2>3. CASE j # 1
    <3>1. j \in 2 .. m /\ j - 1 \in 1 .. m /\ j - 1 < j
      BY <2>1, <2>3
    <3>2. j - 1 \notin Bad
      <4> HIDE DEF Bad
      <4> QED
        BY <1>1, <2>1, <3>1
    <3>3. final_index(s, j - 1) = (j - 1) - 1
      BY <3>1, <3>2
    <3>4. s[j - 1].number < s[j].number
      BY <2>1, <3>1
    <3>5. s[j].number # s[j - 1].number
      <4>1. s[j].number \in Int
        BY <2>1, IntFacts DEF Rising
      <4> QED
        BY <3>4, <4>1
    <3>6. final_index(s, j) = final_index(s, j - 1) + 1
      BY <3>1, <3>5, FinalIndexStep
    <3> QED
      BY <2>1, <3>3, <3>6
  <2> QED
    BY <2>2, <2>3
<1>2. Bad \in SUBSET Nat
  OBVIOUS
<1>3. Bad = {}
  <2> HIDE DEF Bad
  <2> QED
    BY <1>1, <1>2, SmallestExists
<1> QED
  BY <1>3

LEMMA NumbersGenerated ==
  ASSUME NEW d \in Declarations, d.kind # "service"
  PROVE  \E c : NumbersRight(d, Entries(d), Ranges(d), c)
<1> DEFINE s == ByNumber(d.items)
           m == Len(d.items)
           es == Entries(d)
           c == Cardinality(Firsts(s, m))
<1>1. d.items \in Seq(Item) /\ m \in Nat /\ DOMAIN d.items = 1 .. m
  BY Declared
<1>2. /\ s \in Seq(Indexed) /\ Len(s) = m /\ Rising(s, m)
  BY <1>1, ByNumberFacts
<1>3. ArrayRight(es, s, m, c)
  BY <1>1, EntriesRight
<1>4. \A i \in 1 .. m : \E x \in 1 .. m : s[i].number = d.items[x].number
  BY <1>1, ByNumberFacts
<1>5. \A x \in 1 .. m : \E i \in 1 .. m : s[i].number = d.items[x].number
  BY <1>1, ByNumberFacts
<1>6. (\A x, y \in 1 .. m : x # y => d.items[x].number # d.items[y].number) =>
         \A i, j \in 1 .. m : i < j => s[i].number < s[j].number
  BY <1>1, ByNumberFacts
<1>a. Ranges(d) = IF d.items = <<>> THEN <<>>
                  ELSE IF d.kind = "enum" THEN EnumRanges(s)
                  ELSE WriteIntRanges([j \in DOMAIN s |-> s[j].number])
  BY DEF Ranges
<1> HIDE DEF s, m, es, c
<1>7. /\ c \in 0 .. m /\ c \in Nat /\ DOMAIN es = 1 .. c
      /\ \A x \in 1 .. c : es[x].number \in IntMin .. IntMax
      /\ \A x, y \in 1 .. c : x < y => es[x].number < es[y].number
  BY <1>3 DEF ArrayRight
<1>8. NumbersIn(d) = {es[x].number : x \in 1 .. c}
  <2>1. ASSUME NEW j \in 1 .. m PROVE \E x \in 1 .. c : d.items[j].number = es[x].number
    <3>1. PICK i \in 1 .. m : s[i].number = d.items[j].number
      BY <1>5
    <3>2. /\ final_index(s, i) + 1 \in 1 .. c
          /\ es[final_index(s, i) + 1].number = s[i].number
      BY <1>3 DEF ArrayRight
    <3> QED
      BY <3>1, <3>2
  <2>2. ASSUME NEW x \in 1 .. c PROVE \E j \in 1 .. m : es[x].number = d.items[j].number
    <3>1. PICK i \in 1 .. m : es[x] = s[i]
      BY <1>3 DEF ArrayRight
    <3> QED
      BY <1>4, <3>1
  <2>3. NumbersIn(d) = {d.items[j].number : j \in 1 .. m}
    BY <1>1 DEF NumbersIn, m
  <2>4. NumbersIn(d) \subseteq {es[x].number : x \in 1 .. c}
    BY <2>1, <2>3
  <2>5. {es[x].number : x \in 1 .. c} \subseteq NumbersIn(d)
    BY <2>2, <2>3
  <2> QED
    BY <2>4, <2>5
<1>9. d.items = <<>> => Ranges(d) = <<>>
  BY <1>a
<1>10. ASSUME d.items # <<>> PROVE RangesRight(Ranges(d), es, c)
  <2>1. m >= 1
    BY <1>1, <1>10, EmptySeq DEF m
  <2>2. CASE d.kind = "enum"
    <3>1. RangesRight(EnumRanges(s), es, c)
      BY <1>2, <1>3, <2>1, EnumRangesRight
    <3> QED
      BY <1>a, <1>10, <2>2, <3>1
  <2>3. CASE d.kind # "enum"
    <3> DEFINE values == [j \in DOMAIN s |-> s[j].number]
    <3>1. d.kind = "message"
      BY <2>3, Declared
    <3>2. \A i, j \in 1 .. m : i < j => s[i].number < s[j].number
      <4>1. \A x, y \in 1 .. m : x # y => d.items[x].number # d.items[y].number
        BY <3>1, Declared DEF m
      <4> QED
        BY <1>6, <4>1
    <3>3. \A j \in 1 .. m : final_index(s, j) = j - 1
      BY <1>1, <1>2, <3>2, StrictIndex
    <3>4. c = m
      <4>1. m \in 1 .. m
        BY <1>1, <2>1
      <4>2. c = final_index(s, m) + 1
        BY <1>1, <1>3, <2>1 DEF ArrayRight
      <4> QED
        BY <1>1, <3>3, <4>1, <4>2
    <3>5. DOMAIN s = 1 .. m /\ \A j \in 1 .. m : s[j].number \in IntMin .. IntMax
      BY <1>2 DEF Rising
    <3>a. values = [j \in 1 .. m |-> s[j].number]
      BY <3>5
    <3>6. values \in Seq(IntMin .. IntMax) /\ Len(values) = m
      <4> HIDE DEF values
      <4>1. m \in Nat
        BY <1>1
      <4> QED
        BY <3>a, <3>5, <4>1
    <3>7. \A j \in 1 .. m : values[j] = s[j].number
      BY <3>5
    <3>8. Climbing(values, m)
      <4> HIDE DEF values
      <4> QED
        BY <3>2, <3>5, <3>7 DEF Climbing
    <3>9. ASSUME NEW j \in 1 .. m PROVE es[j].number = values[j]
      <4>1. es[final_index(s, j) + 1].number = s[j].number
        BY <1>3 DEF ArrayRight
      <4>2. final_index(s, j) + 1 = j
        BY <3>3
      <4> HIDE DEF values
      <4> QED
        BY <3>7, <4>1, <4>2
    <3>10. Ranges(d) = WriteIntRanges(values)
      BY <1>a, <1>10, <2>3
    <3> HIDE DEF values
    <3>11. RangesRight(WriteIntRanges(values), es, m)
      BY <1>1, <2>1, <3>6, <3>8, <3>9, WriteIntRangesRight
    <3> QED
      BY <3>4, <3>10, <3>11
  <2> QED
    BY <2>2, <2>3
<1>11. NumbersRight(d, es, Ranges(d), c)
  BY <1>7, <1>8, <1>9, <1>10 DEF NumbersRight, m
<1> QED
  BY <1>11 DEF es

LEMMA NamesGenerated ==
  ASSUME NEW d \in Declarations
  PROVE  NamesRight(d, Entries(d), NameTable(d))
<1> DEFINE s == ByNumber(d.items)
           m == Len(d.items)
           es == Entries(d)
           index(j) == IF d.kind = "service" THEN j - 1 ELSE final_index(s, j)
           item(j)  == IF d.kind = "service" THEN d.items[j] ELSE s[j]
           v == [j \in DOMAIN d.items |-> [name |-> item(j).name, index |-> index(j)]]
<1>1. d.items \in Seq(Item) /\ m \in Nat /\ DOMAIN d.items = 1 .. m
  BY Declared
<1>2. NameTable(d) = SortedByName(v)
  BY DEF NameTable, SortedBy, SortedByName
<1>3. \A j \in 1 .. m : v[j].name = item(j).name /\ v[j].index = index(j)
  BY <1>1
<1>4. DOMAIN v = 1 .. m
  BY <1>1
<1> HIDE DEF v
<1>5. \A j \in 1 .. m : d.items[j] \in Item /\ d.items[j].name \in Int
  <2>1. \A j \in 1 .. m : d.items[j] \in Item
    BY <1>1
  <2> QED
    BY <2>1 DEF Item
<1>6. /\ \A j, k \in 1 .. m : j # k => item(j).name # item(k).name
      /\ \A j \in 1 .. m : \E x \in 1 .. m :
           item(j).name = d.items[x].name /\ item(j).number = d.items[x].number
      /\ \A x \in 1 .. m : \E j \in 1 .. m : item(j).name = d.items[x].name
  <2>0. \A j, k \in 1 .. m : j # k => d.items[j].name # d.items[k].name
    BY Declared
  <2>1. CASE d.kind = "service"
    BY <2>0, <2>1
  <2>2. CASE d.kind # "service"
    <3>1. \A i, j \in 1 .. m : i # j => s[i].name # s[j].name
      BY <1>1, <2>0, ByNumberFacts
    <3>2. \A j \in 1 .. m : \E x \in 1 .. m :
           s[j].name = d.items[x].name /\ s[j].number = d.items[x].number
      BY <1>1, ByNumberFacts
    <3>3. \A x \in 1 .. m : \E j \in 1 .. m : s[j].name = d.items[x].name
      BY <1>1, ByNumberFacts
    <3> HIDE DEF s
    <3> QED
      BY <2>2, <3>1, <3>2, <3>3
  <2> QED
    BY <2>1, <2>2
<1>7. ASSUME NEW j \in 1 .. m
      PROVE  /\ index(j) + 1 \in DOMAIN es /\ index(j) \in 0 .. m - 1
             /\ es[index(j) + 1].number = item(j).number
  <2>1. CASE d.kind = "service"
    <3>1. es = d.items
      BY <2>1 DEF Entries
    <3>2. index(j) = j - 1 /\ item(j) = d.items[j] /\ (j - 1) + 1 = j
      BY <2>1
    <3> HIDE DEF es, m, s, index, item
    <3> QED
      BY <1>1, <3>1, <3>2
  <2>2. CASE d.kind # "service"
    <3> DEFINE c == Cardinality(Firsts(s, m))
    <3>1. ArrayRight(es, s, m, c)
      BY <1>1, <2>2, EntriesRight
    <3>2. Rising(s, m)
      BY <1>1, ByNumberFacts
    <3>3. index(j) = final_index(s, j) /\ item(j) = s[j]
      BY <2>2
    <3> HIDE DEF es, m, s, c, index, item
    <3>4. final_index(s, j) \in Nat
      BY <1>1, <3>2, FinalIndexStep
    <3>5. /\ final_index(s, j) + 1 \in 1 .. c /\ c \in 0 .. m /\ DOMAIN es = 1 .. c
          /\ es[final_index(s, j) + 1].number = s[j].number
      BY <3>1 DEF ArrayRight
    <3>6. final_index(s, j) \in 0 .. m - 1
      BY <1>1, <3>4, <3>5
    <3> QED
      BY <3>3, <3>5, <3>6
  <2> QED
    BY <2>1, <2>2
<1> HIDE DEF item, index, es
<1>8. /\ \A j \in 1 .. m : v[j].name \in Int
      /\ \A j, k \in 1 .. m : j # k => v[j].name # v[k].name
  <2>1. ASSUME NEW j \in 1 .. m PROVE v[j].name \in Int
    <3>1. PICK x \in 1 .. m : item(j).name = d.items[x].name
      BY <1>6
    <3> QED
      BY <1>3, <1>5, <3>1
  <2>2. ASSUME NEW j \in 1 .. m, NEW k \in 1 .. m, j # k PROVE v[j].name # v[k].name
    BY <1>3, <1>6, <2>2, SMTT(30)
  <2> QED
    BY <2>1, <2>2
<1> DEFINE ns == NameTable(d)
<1>9. /\ DOMAIN ns = 1 .. m
      /\ \A i, j \in 1 .. m : i < j => ns[i].name < ns[j].name
      /\ \A i \in 1 .. m : \E j \in 1 .. m : ns[i] = v[j]
      /\ \A j \in 1 .. m : \E i \in 1 .. m : ns[i] = v[j]
  <2> HIDE DEF m
  <2>1. m \in Nat
    BY <1>1
  <2>2. /\ DOMAIN SortedByName(v) = 1 .. m
        /\ \A i, j \in 1 .. m : i < j => SortedByName(v)[i].name < SortedByName(v)[j].name
        /\ \A i \in 1 .. m : \E j \in 1 .. m : SortedByName(v)[i] = v[j]
        /\ \A j \in 1 .. m : \E i \in 1 .. m : SortedByName(v)[i] = v[j]
    <3>1. \A j \in 1 .. m : v[j].name \in Int
      BY <1>8
    <3>2. \A j, k \in 1 .. m : j # k => v[j].name # v[k].name
      BY <1>8
    <3> DEFINE t == SortedByName(v)
               A == DOMAIN t = 1 .. m
               B == \A i, j \in 1 .. m : i < j => t[i].name < t[j].name
    <3>3. A
      BY ONLY <1>4, <2>1, <3>1, <3>2, ByNameInOrder
    <3>4. B
      BY ONLY <1>4, <2>1, <3>1, <3>2, ByNameInOrder
    <3>5. SameElements(t, v, m)
      BY ONLY <1>4, <2>1, <3>1, <3>2, ByNameInOrder
    <3> QED
      BY <3>3, <3>4, <3>5 DEF SameElements
  <2> QED
    BY <1>2, <2>2, Zenon
<1>10. Len(ns) = m
  <2>1. ns = [i \in 1 .. m |-> ns[i]]
    <3>1. ns = [i \in DOMAIN v |->
               v[CHOOSE x \in DOMAIN v : Cardinality({y \in DOMAIN v : v[y].name < v[x].name}) = i - 1]]
      BY <1>2 DEF SortedByName
    <3> QED
      BY <1>4, <3>1
  <2> HIDE DEF ns, m
  <2> QED
    BY <1>1, <2>1
<1> HIDE DEF ns, m
<1>11. ASSUME NEW i \in 1 .. m
       PROVE  /\ ns[i].name \in Int
              /\ ns[i].index + 1 \in DOMAIN es /\ ns[i].index \in 0 .. m - 1
              /\ es[ns[i].index + 1].number \in NumbersNamed(d, ns[i].name)
  <2>1. PICK j \in 1 .. m : ns[i] = v[j]
    BY <1>9
  <2>2. ns[i].name = item(j).name /\ ns[i].index = index(j)
    BY <1>3, <2>1
  <2>3. PICK x \in 1 .. m : item(j).name = d.items[x].name /\ item(j).number = d.items[x].number
    BY <1>6
  <2>4. item(j).number \in NumbersNamed(d, item(j).name)
    BY <1>1, <2>3 DEF NumbersNamed
  <2>5. item(j).name \in Int
    BY <1>5, <2>3
  <2> QED
    BY <1>7, <2>2, <2>4, <2>5
<1>12. ASSUME NEW x \in 1 .. m PROVE \E i \in 1 .. m : ns[i].name = d.items[x].name
  <2>1. PICK j \in 1 .. m : item(j).name = d.items[x].name
    BY <1>6
  <2>2. PICK i \in 1 .. m : ns[i] = v[j]
    BY <1>9
  <2> QED
    BY <1>3, <2>1, <2>2
<1>13. NamesRight(d, es, ns)
  BY <1>1, <1>9, <1>10, <1>11, <1>12 DEF NamesRight, m
<1> QED
  BY <1>13 DEF es, ns
-----------------------------------------------------------------------------
(* The searches.                                                           *)

\* A run of numbers: which numbers are in it, and where those before and behind are.
RunRight(es, c, a, o, p) ==
  /\ a \in IntMin .. IntMax /\ o \in Nat /\ p \in Nat /\ o < p /\ p <= c
  /\ a + (p - o) <= IntMax + 1
  /\ a + (p - o) = IntMax + 1 => \E x \in 1 .. c : es[x].number = IntMax
  /\ \A x \in 1 .. c : es[x].number < a => x - 1 < o
  /\ \A x \in 1 .. c : es[x].number >= a + (p - o) => p <= x - 1
  /\ \A v \in Int : a <= v /\ v < a + (p - o) =>
       (v - a) + o + 1 \in 1 .. c /\ es[(v - a) + o + 1].number = v

LEMMA RunFacts ==
  ASSUME NEW es, NEW c \in Nat,
         \A x \in 1 .. c : es[x].number \in IntMin .. IntMax,
         \A x, y \in 1 .. c : x < y => es[x].number < es[y].number,
         NEW a \in Int, NEW o \in Nat, NEW p \in Nat, o < p, p <= c,
         \A k \in o .. p - 1 : es[k + 1].number = a + (k - o)
  PROVE  RunRight(es, c, a, o, p)
<1>2. a \in Int /\ o \in Nat /\ p \in Nat
  OBVIOUS
<1>3. o < p /\ p <= c
  OBVIOUS
<1>4. ASSUME NEW k \in o .. p - 1
      PROVE  k + 1 \in 1 .. c /\ es[k + 1].number = a + (k - o)
  OBVIOUS
<1>5. \A x \in 1 .. c : es[x].number \in Int /\ es[x].number >= IntMin /\ es[x].number <= IntMax
  BY IntFacts
<1>6. o \in o .. p - 1 /\ o + 1 \in 1 .. c /\ es[o + 1].number = a
  <2>1. o \in o .. p - 1 /\ a + (o - o) = a
    BY <1>2, <1>3
  <2> QED
    BY <1>4, <2>1
<1>7. p - 1 \in o .. p - 1 /\ p \in 1 .. c /\ es[p].number = a + ((p - 1) - o)
  <2>1. p - 1 \in o .. p - 1 /\ (p - 1) + 1 = p
    BY <1>2, <1>3
  <2> QED
    BY <1>4, <2>1
<1>8. a \in IntMin .. IntMax
  BY <1>2, <1>5, <1>6, IntFacts
<1>9. a + (p - o) <= IntMax + 1
  BY <1>2, <1>5, <1>7, IntFacts
<1>10. ASSUME a + (p - o) = IntMax + 1 PROVE es[p].number = IntMax
  BY <1>2, <1>7, <1>10, IntFacts
<1>11. ASSUME NEW x \in 1 .. c, es[x].number < a PROVE x - 1 < o
  <2>1. SUFFICES ASSUME x - 1 >= o PROVE FALSE
    BY <1>2
  <2>2. o + 1 < x \/ x = o + 1
    BY <1>2, <2>1
  <2>3. es[o + 1].number <= es[x].number
    BY <1>5, <1>6, <2>2
  <2> QED
    BY <1>2, <1>5, <1>6, <1>11, <2>3
<1>12. ASSUME NEW x \in 1 .. c, es[x].number >= a + (p - o) PROVE p <= x - 1
  <2>1. SUFFICES ASSUME x <= p PROVE FALSE
    BY <1>2
  <2>2. x < p \/ x = p
    BY <1>2, <2>1
  <2>3. es[x].number <= es[p].number
    BY <1>5, <1>7, <2>2
  <2> QED
    BY <1>2, <1>5, <1>7, <1>12, <2>3
<1>13. ASSUME NEW v \in Int, a <= v, v < a + (p - o)
       PROVE  (v - a) + o + 1 \in 1 .. c /\ es[(v - a) + o + 1].number = v
  <2>1. PICK k \in o .. p - 1 : k = (v - a) + o
    BY <1>2, <1>13
  <2>2. k + 1 \in 1 .. c /\ es[k + 1].number = a + (k - o)
    BY <1>4
  <2>3. a + (k - o) = v
    BY <1>2, <2>1
  <2> QED
    BY <2>1, <2>2, <2>3
<1> QED
  BY <1>2, <1>3, <1>7, <1>8, <1>9, <1>10, <1>11, <1>12, <1>13 DEF RunRight

LEMMA RangeFacts ==
  ASSUME NEW es, NEW rs, NEW c \in Nat, RangesRight(rs, es, c),
         \A x \in 1 .. c : es[x].number \in IntMin .. IntMax,
         \A x, y \in 1 .. c : x < y => es[x].number < es[y].number,
         NEW r \in 1 .. Len(rs) - 1
  PROVE  RunRight(es, c, rs[r].start_value, rs[r].orig_index, rs[r + 1].orig_index)
<1> DEFINE a == rs[r].start_value
           o == rs[r].orig_index
           p == rs[r + 1].orig_index
<1>1. rs \in Seq(RangeRecord) /\ Len(rs) \in Nat /\ r \in 1 .. Len(rs) /\ r + 1 \in 1 .. Len(rs)
  BY DEF RangesRight, Chain
<1>2. a \in Int /\ o \in Nat /\ p \in Nat
  <2>1. rs[r] \in RangeRecord /\ rs[r + 1] \in RangeRecord
    BY <1>1
  <2> QED
    BY <2>1 DEF RangeRecord
<1>3. o < p /\ p <= c
  BY <1>1 DEF RangesRight, Chain
<1>4. \A l \in rs[r].orig_index .. rs[r + 1].orig_index - 1 :
          es[l + 1].number = rs[r].start_value + (l - rs[r].orig_index)
  BY DEF RangesRight, Chain
<1>5. \A k \in o .. p - 1 : es[k + 1].number = a + (k - o)
  BY <1>4
<1> HIDE DEF a, o, p
<1>6. /\ \A x \in 1 .. c : es[x].number \in IntMin .. IntMax
      /\ \A x, y \in 1 .. c : x < y => es[x].number < es[y].number
      /\ c \in Nat
  OBVIOUS
<1>7. RunRight(es, c, a, o, p)
  BY ONLY <1>2, <1>3, <1>5, <1>6, RunFacts
<1> QED
  BY <1>7 DEF a, o, p

LEMMA ToIntWraps == ToInt(IntMax + 1) = IntMin
<1>1. /\ Modulus \in Nat \ {0} /\ IntMin \in Int /\ IntMax \in Int
      /\ (IntMax + 1) - IntMin = Modulus
  BY IntFacts
<1>2. Modulus % Modulus = 0
  <2> DEFINE M == Modulus
  <2>1. M \in Int /\ M > 0
    BY <1>1
  <2> HIDE DEF M
  <2>2. M % M = 0
    BY <2>1
  <2> QED
    BY <2>2 DEF M
<1> QED
  BY <1>1, <1>2 DEF ToInt

\* The end of a range, where it fits in an int and where it does not.
LEMMA EndFacts ==
  ASSUME NEW a \in IntMin .. IntMax, NEW b \in Nat, b > 0, a + b <= IntMax + 1
  PROVE  /\ a + b = IntMax + 1 \/ (a + b \in IntMin .. IntMax /\ a + b < IntMax + 1)
         /\ ToInt(a + b) = IF a + b = IntMax + 1 THEN IntMin ELSE a + b
         /\ \A end \in Sums(a, b) : end = a + b \/ (a + b = IntMax + 1 /\ end = IntMin)
<1>1. a \in Int /\ IntMin \in Int /\ IntMax \in Int
  BY IntFacts
<1>2. a + b = IntMax + 1 \/ (a + b \in IntMin .. IntMax /\ a + b < IntMax + 1)
  BY <1>1
<1>3. CASE a + b = IntMax + 1
  <2>1. ToInt(a + b) = IntMin
    BY <1>3, ToIntWraps
  <2> QED
    BY <1>1, <1>2, <1>3, <2>1 DEF Sums
<1>4. CASE a + b \in IntMin .. IntMax /\ a + b < IntMax + 1
  <2>1. ToInt(a + b) = a + b
    BY <1>4, ToIntSame
  <2> QED
    BY <1>1, <1>2, <1>4, <2>1 DEF Sums
<1> QED
  BY <1>2, <1>3, <1>4

\* Where k is, if it is anywhere: in the ranges, in the names from h, g of them.
InRanges(es, rs, k, h, g) ==
  \A x \in DOMAIN es : es[x].number = k =>
    rs[h + 1].orig_index <= x - 1 /\ x - 1 < rs[(h + g) + 1].orig_index
InNames(ns, k, h, g) == \A i \in 1 .. Len(ns) : ns[i].name = k => h < i /\ i <= h + g

\* What was generated is right.
TablesRight ==
  pc # "generate" =>
    /\ NamesRight(declared, entries, names)
    /\ declared.kind # "service" => \E c : NumbersRight(declared, entries, ranges, c)

\* What is looked for by its number is in the window, unless an end overflows.
NumberWindow ==
  pc = "number" =>
    /\ declared.kind # "service" /\ key \in IntMin .. IntMax
    /\ start + n <= n_ranges
    /\ IntMax \notin DeclaredNumbers => InRanges(entries, ranges, key, start, n)

\* What is looked for by its name is in the window.
NameWindow ==
  pc = "name" =>
    /\ key \in Int /\ start + n <= Len(names)
    /\ InNames(names, key, start, n)

\* The inductive invariant.
LookupInv ==
  declared \in Declarations /\ LookupTypeOK /\ TablesRight /\ NumberWindow /\ NameWindow

LEMMA LookupInvInit ==
  LookupInit => LookupInv
<1> SUFFICES ASSUME LookupInit PROVE LookupInv
  OBVIOUS
<1>1. declared \in Declarations /\ pc = "generate" /\ start = 0 /\ n = 0 /\ result = None
  BY DEF LookupInit
<1>2. Len(declared.items) \in Nat
  BY <1>1, Declared
<1>3. result \in None .. Len(declared.items) - 1
  BY <1>1, <1>2 DEF None
<1> QED
  BY <1>1, <1>3 DEF LookupInv, LookupTypeOK, TablesRight, NumberWindow, NameWindow

\* What a probe of the ranges meets.
LEMMA ProbeFacts ==
  ASSUME LookupInv, pc = "number", NEW i \in Nat, i < n_ranges
  PROVE  \E c \in 0 .. Len(declared.items) :
           /\ DOMAIN entries = 1 .. c
           /\ DeclaredNumbers = {entries[x].number : x \in 1 .. c}
           /\ RunRight(entries, c, RangeAt(i).start_value, RangeAt(i).orig_index,
                       RangeAt(i + 1).orig_index)
           /\ SizeAt(i) = RangeAt(i + 1).orig_index - RangeAt(i).orig_index
<1>1. PICK c : NumbersRight(declared, entries, ranges, c)
  BY DEF LookupInv, TablesRight, NumberWindow
<1>2. Len(declared.items) \in Nat
  BY Declared DEF LookupInv
<1>a. DeclaredNumbers = {entries[x].number : x \in 1 .. c}
  <2>1. NumbersIn(declared) = {entries[x].number : x \in 1 .. c}
    BY <1>1 DEF NumbersRight
  <2>2. NumbersIn(declared) = DeclaredNumbers
    BY DEF NumbersIn, DeclaredNumbers
  <2> QED
    BY <2>1, <2>2
<1>3. /\ c \in 0 .. Len(declared.items) /\ c \in Nat /\ DOMAIN entries = 1 .. c
      /\ \A x \in 1 .. c : entries[x].number \in IntMin .. IntMax
      /\ \A x, y \in 1 .. c : x < y => entries[x].number < entries[y].number
  BY <1>1, <1>2 DEF NumbersRight
<1>4. ranges # <<>>
  <2>1. SUFFICES ASSUME ranges = <<>> PROVE FALSE
    OBVIOUS
  <2>2. n_ranges = 0
    BY <2>1 DEF n_ranges
  <2> QED
    BY <2>2
<1>5. RangesRight(ranges, entries, c)
  BY <1>1, <1>4 DEF NumbersRight
<1>6. Len(ranges) \in Nat
  BY <1>5 DEF RangesRight, Chain
<1>7. i + 1 \in 1 .. Len(ranges) - 1
  BY <1>4, <1>6 DEF n_ranges
<1>8. RunRight(entries, c, ranges[i + 1].start_value, ranges[i + 1].orig_index,
                       ranges[(i + 1) + 1].orig_index)
  BY <1>3, <1>5, <1>7, RangeFacts
<1> QED
  BY <1>a, <1>3, <1>8 DEF RangeAt, SizeAt

\* The end of a range that does not overflow.
LEMMA EndOfRun ==
  ASSUME NEW es, NEW c \in Nat, NEW a, NEW o, NEW p, RunRight(es, c, a, o, p)
  PROVE  /\ ToInt(a + (p - o)) = a + (p - o)
              \/ (ToInt(a + (p - o)) = IntMin /\ \E x \in 1 .. c : es[x].number = IntMax)
         /\ \A end \in Sums(a, p - o) : end = a + (p - o)
              \/ (end = IntMin /\ \E x \in 1 .. c : es[x].number = IntMax)
<1>1. /\ a \in IntMin .. IntMax /\ p - o \in Nat /\ p - o > 0 /\ a + (p - o) <= IntMax + 1
      /\ a + (p - o) = IntMax + 1 => \E x \in 1 .. c : es[x].number = IntMax
  BY DEF RunRight
<1>2. /\ ToInt(a + (p - o)) = IF a + (p - o) = IntMax + 1 THEN IntMin ELSE a + (p - o)
      /\ \A end \in Sums(a, p - o) : end = a + (p - o)
           \/ (a + (p - o) = IntMax + 1 /\ end = IntMin)
  BY <1>1, EndFacts
<1> QED
  BY <1>1, <1>2, Zenon

\* A search for a number begins with all the ranges.
LEMMA NumberWindowFirst ==
  ASSUME LookupInv, pc = "idle", declared.kind # "service", NEW k
  PROVE  n_ranges \in Nat /\ InRanges(entries, ranges, k, 0, n_ranges)
<1>1. PICK c : NumbersRight(declared, entries, ranges, c)
  BY DEF LookupInv, TablesRight
<1>2. declared.items \in Seq(Item) /\ Len(declared.items) \in Nat
  BY Declared DEF LookupInv
<1>3. c \in 0 .. Len(declared.items) /\ DOMAIN entries = 1 .. c
  BY <1>1 DEF NumbersRight
<1>4. CASE declared.items = <<>>
  <2>1. ranges = <<>> /\ Len(declared.items) = 0
    BY <1>1, <1>4 DEF NumbersRight
  <2>2. DOMAIN entries = {} /\ n_ranges = 0
    BY <1>3, <2>1 DEF n_ranges
  <2> QED
    BY <2>2 DEF InRanges
<1>5. CASE declared.items # <<>>
  <2>1. RangesRight(ranges, entries, c)
    BY <1>1, <1>5 DEF NumbersRight
  <2>2. Len(ranges) \in Nat /\ Len(ranges) >= 2 /\ ranges[1].orig_index = 0
        /\ ranges[Len(ranges)].orig_index = c
    BY <2>1 DEF RangesRight, Chain
  <2>3. ranges # <<>>
    BY <2>2
  <2>4. n_ranges = Len(ranges) - 1
    BY <2>3 DEF n_ranges
  <2>5. n_ranges \in Nat /\ 0 + 1 = 1 /\ (0 + n_ranges) + 1 = Len(ranges)
    BY <2>2, <2>4
  <2>6. ASSUME NEW x \in 1 .. c
        PROVE  ranges[0 + 1].orig_index <= x - 1 /\ x - 1 < ranges[(0 + n_ranges) + 1].orig_index
    BY <1>2, <1>3, <2>2, <2>5
  <2> QED
    BY <1>3, <2>5, <2>6 DEF InRanges
<1> QED
  BY <1>4, <1>5

\* A number between the beginning and the end of a range is found in it.
LEMMA InRun ==
  ASSUME LookupInv, pc = "number", NEW i \in Nat, i < n_ranges,
         NEW end \in Sums(RangeAt(i).start_value, SizeAt(i))
                       \cup {ToInt(RangeAt(i).start_value + SizeAt(i))},
         RangeAt(i).start_value <= key, key < end
  PROVE  /\ Within(i) \in 0 .. Len(declared.items) - 1
         /\ Within(i) + 1 \in DOMAIN entries /\ entries[Within(i) + 1].number = key
<1> DEFINE a == RangeAt(i).start_value
           o == RangeAt(i).orig_index
           p == RangeAt(i + 1).orig_index
<1>1. PICK c \in 0 .. Len(declared.items) :
         /\ DOMAIN entries = 1 .. c
         /\ RunRight(entries, c, a, o, p)
         /\ SizeAt(i) = p - o
  BY ProbeFacts
<1>2. key \in Int /\ key >= IntMin /\ Len(declared.items) \in Nat /\ c \in Nat
  BY IntFacts, Declared DEF LookupInv, NumberWindow
<1>3. Within(i) = (key - a) + o
  BY DEF Within
<1>a. a <= key /\ end \in Sums(a, SizeAt(i)) \cup {ToInt(a + SizeAt(i))}
  OBVIOUS
<1> HIDE DEF a, o, p
<1>4. end = a + (p - o) \/ end = IntMin
  <2>1. /\ ToInt(a + (p - o)) = a + (p - o) \/ ToInt(a + (p - o)) = IntMin
        /\ \A e \in Sums(a, p - o) : e = a + (p - o) \/ e = IntMin
    BY <1>1, <1>2, EndOfRun
  <2> QED
    BY <1>1, <1>a, <2>1
<1>5. end = a + (p - o)
  BY <1>2, <1>4, IntFacts
<1>6. /\ \A v \in Int : a <= v /\ v < a + (p - o) =>
           (v - a) + o + 1 \in 1 .. c /\ entries[(v - a) + o + 1].number = v
      /\ a \in Int /\ o \in Nat
  BY <1>1, IntFacts DEF RunRight
<1>7. (key - a) + o + 1 \in 1 .. c /\ entries[(key - a) + o + 1].number = key
  BY <1>2, <1>5, <1>6, <1>a
<1>8. (key - a) + o \in 0 .. Len(declared.items) - 1
  BY <1>2, <1>6, <1>7
<1> QED
  BY <1>1, <1>3, <1>7, <1>8

\* The window goes on before a range, or behind it, or ends there.
LEMMA AroundRun ==
  ASSUME LookupInv, pc = "number", NEW i \in Nat, i < n_ranges,
         IntMax \notin DeclaredNumbers
  PROVE  /\ \A end \in Sums(RangeAt(i).start_value, SizeAt(i))
                       \cup {ToInt(RangeAt(i).start_value + SizeAt(i))} :
              \A x \in DOMAIN entries : entries[x].number = key /\ key >= end =>
                RangeAt(i + 1).orig_index <= x - 1
         /\ \A x \in DOMAIN entries :
              entries[x].number = key /\ key < RangeAt(i).start_value =>
                x - 1 < RangeAt(i).orig_index
<1> DEFINE a == RangeAt(i).start_value
           o == RangeAt(i).orig_index
           p == RangeAt(i + 1).orig_index
<1>1. PICK c \in 0 .. Len(declared.items) :
         /\ DOMAIN entries = 1 .. c
         /\ DeclaredNumbers = {entries[x].number : x \in 1 .. c}
         /\ RunRight(entries, c, a, o, p)
         /\ SizeAt(i) = p - o
  BY ProbeFacts
<1>2. c \in Nat
  BY Declared DEF LookupInv
<1>3. ~\E x \in 1 .. c : entries[x].number = IntMax
  BY <1>1
<1> HIDE DEF a, o, p
<1>4. \A end \in Sums(a, SizeAt(i)) \cup {ToInt(a + SizeAt(i))} : end = a + (p - o)
  BY <1>1, <1>2, <1>3, EndOfRun
<1>5. /\ \A x \in 1 .. c : entries[x].number < a => x - 1 < o
      /\ \A x \in 1 .. c : entries[x].number >= a + (p - o) => p <= x - 1
  BY <1>1 DEF RunRight
<1>6. ASSUME NEW end \in Sums(a, SizeAt(i)) \cup {ToInt(a + SizeAt(i))},
             NEW x \in DOMAIN entries, entries[x].number = key, key >= end
      PROVE  p <= x - 1
  BY <1>1, <1>4, <1>5, <1>6
<1>7. ASSUME NEW x \in DOMAIN entries, entries[x].number = key, key < a
      PROVE  x - 1 < o
  BY <1>1, <1>5, <1>7
<1> QED
  BY <1>6, <1>7 DEF a, o, p

LEMMA Halves ==
  ASSUME start \in Nat, n \in Nat, n > 1
  PROVE  mid \in Nat /\ start < mid /\ mid < start + n
<1>1. n \div 2 \in Nat /\ n \div 2 >= 1 /\ n \div 2 < n
  OBVIOUS
<1> QED
  BY <1>1 DEF mid

\* What leaves the tables alone.
LEMMA TablesKept ==
  ASSUME LookupInv, pc # "generate", UNCHANGED tables, pc' # "generate"
  PROVE  /\ declared' \in Declarations /\ TablesRight'
         /\ declared' = declared /\ entries' = entries /\ ranges' = ranges /\ names' = names
<1>1. declared' = declared /\ entries' = entries /\ ranges' = ranges /\ names' = names
  BY DEF tables
<1>2. declared \in Declarations /\ NamesRight(declared, entries, names)
  BY DEF LookupInv, TablesRight
<1>3. declared.kind # "service" => \E c : NumbersRight(declared, entries, ranges, c)
  BY DEF LookupInv, TablesRight
<1>4. TablesRight'
  BY <1>1, <1>2, <1>3 DEF TablesRight
<1> QED
  BY <1>1, <1>2, <1>4

LEMMA ReturnInv ==
  ASSUME LookupInv, pc # "generate", NEW index \in None .. Len(declared.items) - 1,
         Return(index)
  PROVE  LookupInv'
<1>1. pc' = "idle" /\ result' = index /\ start' = 0 /\ n' = 0 /\ UNCHANGED tables
  BY DEF Return
<1>2. declared' \in Declarations /\ TablesRight' /\ declared' = declared
  BY <1>1, TablesKept
<1>3. LookupTypeOK'
  BY <1>1, <1>2 DEF LookupTypeOK
<1>4. NumberWindow' /\ NameWindow'
  BY <1>1 DEF NumberWindow, NameWindow
<1> QED
  BY <1>2, <1>3, <1>4 DEF LookupInv

LEMMA GenerateInv ==
  ASSUME LookupInv, Generate
  PROVE  LookupInv'
<1>1. /\ entries' = Entries(declared) /\ ranges' = Ranges(declared) /\ names' = NameTable(declared)
      /\ pc' = "idle" /\ declared' = declared /\ start' = start /\ n' = n /\ result' = result
  BY DEF Generate
<1>2. declared \in Declarations /\ LookupTypeOK
  BY DEF LookupInv
<1>3. TablesRight'
  <2>1. NamesRight(declared, Entries(declared), NameTable(declared))
    BY <1>2, NamesGenerated
  <2>2. declared.kind # "service" =>
          \E c : NumbersRight(declared, Entries(declared), Ranges(declared), c)
    BY <1>2, NumbersGenerated
  <2> QED
    BY <1>1, <2>1, <2>2 DEF TablesRight
<1>4. LookupTypeOK'
  BY <1>1, <1>2 DEF LookupTypeOK
<1>5. NumberWindow' /\ NameWindow'
  BY <1>1 DEF NumberWindow, NameWindow
<1> QED
  BY <1>1, <1>2, <1>3, <1>4, <1>5 DEF LookupInv

LEMMA GetByNumberInv ==
  ASSUME LookupInv, NEW k \in Numbers, GetByNumber(k)
  PROVE  LookupInv'
<1>1. /\ pc = "idle" /\ declared.kind # "service" /\ pc' = "number" /\ key' = k
      /\ start' = 0 /\ n' = n_ranges /\ result' = None /\ UNCHANGED tables
  BY DEF GetByNumber, Search
<1>2. /\ declared' \in Declarations /\ TablesRight'
      /\ declared' = declared /\ entries' = entries /\ ranges' = ranges /\ names' = names
  BY <1>1, TablesKept
<1>3. n_ranges \in Nat /\ InRanges(entries, ranges, k, 0, n_ranges)
  BY <1>1, NumberWindowFirst
<1>4. k \in IntMin .. IntMax
  BY KeysAssumption
<1>5. NumberWindow'
  <2>1. n_ranges' = n_ranges /\ DeclaredNumbers' = DeclaredNumbers
    BY <1>2 DEF n_ranges, DeclaredNumbers
  <2>2. start' + n' <= n_ranges'
    BY <1>1, <1>3, <2>1
  <2>3. InRanges(entries', ranges', key', start', n')
    BY <1>1, <1>2, <1>3
  <2>4. declared'.kind # "service" /\ key' \in IntMin .. IntMax
    BY <1>1, <1>2, <1>4
  <2> QED
    BY <2>2, <2>3, <2>4 DEF NumberWindow
<1>6. NameWindow'
  BY <1>1 DEF NameWindow
<1>7. LookupTypeOK'
  <2>1. Len(declared.items) \in Nat
    BY Declared DEF LookupInv
  <2>2. result' \in None .. Len(declared'.items) - 1
    BY <1>1, <1>2, <2>1 DEF None
  <2> QED
    BY <1>1, <1>3, <2>2 DEF LookupTypeOK
<1> QED
  BY <1>2, <1>5, <1>6, <1>7 DEF LookupInv

LEMMA GetByNameInv ==
  ASSUME LookupInv, NEW k \in Names, GetByName(k)
  PROVE  LookupInv'
<1>1. /\ pc = "idle" /\ pc' = "name" /\ key' = k
      /\ start' = 0 /\ n' = Len(names) /\ result' = None /\ UNCHANGED tables
  BY DEF GetByName, Search
<1>2. /\ declared' \in Declarations /\ TablesRight'
      /\ declared' = declared /\ entries' = entries /\ ranges' = ranges /\ names' = names
  BY <1>1, TablesKept
<1>3. Len(declared.items) \in Nat /\ Len(names) = Len(declared.items)
  BY <1>1, Declared DEF LookupInv, TablesRight, NamesRight
<1>4. k \in Int
  BY KeysAssumption
<1>5. NameWindow'
  <2>1. InNames(names, k, 0, Len(names))
    BY <1>3 DEF InNames
  <2>2. InNames(names', key', start', n')
    BY <1>1, <1>2, <2>1
  <2>3. key' \in Int /\ start' + n' <= Len(names')
    BY <1>1, <1>2, <1>3, <1>4
  <2> QED
    BY <2>2, <2>3 DEF NameWindow
<1>6. NumberWindow'
  BY <1>1 DEF NumberWindow
<1>7. LookupTypeOK'
  <2>1. result' \in None .. Len(declared'.items) - 1
    BY <1>1, <1>2, <1>3 DEF None
  <2> QED
    BY <1>1, <1>3, <2>1 DEF LookupTypeOK
<1> QED
  BY <1>2, <1>5, <1>6, <1>7 DEF LookupInv

\* What a search for a number must return.
NumberAnswer(r) ==
  IF key \in DeclaredNumbers
  THEN r + 1 \in DOMAIN entries /\ entries[r + 1].number = key
  ELSE r = None

LEMMA DeclaredInEntries ==
  ASSUME LookupInv, pc = "number"
  PROVE  DeclaredNumbers = {entries[x].number : x \in DOMAIN entries}
<1>1. PICK c : NumbersRight(declared, entries, ranges, c)
  BY DEF LookupInv, TablesRight, NumberWindow
<1>2. NumbersIn(declared) = DeclaredNumbers
  BY DEF NumbersIn, DeclaredNumbers
<1>3. NumbersIn(declared) = {entries[x].number : x \in 1 .. c} /\ DOMAIN entries = 1 .. c
  BY <1>1 DEF NumbersRight
<1> QED
  BY <1>2, <1>3

\* The window of a search that goes on.
LEMMA WindowKept ==
  ASSUME LookupInv, pc = "number", UNCHANGED <<tables, pc, key, result>>,
         start' \in Nat, n' \in Nat, start' + n' <= n_ranges,
         IntMax \notin DeclaredNumbers => InRanges(entries, ranges, key, start', n')
  PROVE  LookupInv'
<1>1. pc' = pc /\ key' = key /\ result' = result /\ UNCHANGED tables
  OBVIOUS
<1>2. /\ declared' \in Declarations /\ TablesRight'
      /\ declared' = declared /\ entries' = entries /\ ranges' = ranges /\ names' = names
  BY <1>1, TablesKept
<1>3. n_ranges' = n_ranges /\ DeclaredNumbers' = DeclaredNumbers
  BY <1>2 DEF n_ranges, DeclaredNumbers
<1>4. declared.kind # "service" /\ key \in IntMin .. IntMax /\ LookupTypeOK
  BY DEF LookupInv, NumberWindow
<1>5. NumberWindow'
  <2>1. IntMax \notin DeclaredNumbers' => InRanges(entries', ranges', key', start', n')
    BY <1>1, <1>2, <1>3
  <2> QED
    BY <1>1, <1>2, <1>3, <1>4, <2>1 DEF NumberWindow
<1>6. NameWindow'
  BY <1>1 DEF NameWindow
<1>7. LookupTypeOK'
  BY <1>1, <1>2, <1>4 DEF LookupTypeOK
<1> QED
  BY <1>2, <1>5, <1>6, <1>7 DEF LookupInv

LEMMA ProbeRangeInv ==
  ASSUME LookupInv, ProbeRange
  PROVE  /\ LookupInv'
         /\ pc' = "idle" => NumberAnswer(result')
<1> DEFINE a == RangeAt(mid).start_value
<1>1. pc = "number" /\ n > 1
  BY DEF ProbeRange
<1>2. start \in Nat /\ n \in Nat /\ start + n <= n_ranges /\ key \in Int
  BY <1>1, IntFacts DEF LookupInv, LookupTypeOK, NumberWindow
<1>3. mid \in Nat /\ start < mid /\ mid < start + n
  BY <1>1, <1>2, Halves
<1>a. n_ranges \in Int
  <2>1. PICK c : NumbersRight(declared, entries, ranges, c)
    BY <1>1 DEF LookupInv, TablesRight, NumberWindow
  <2>2. CASE ranges = <<>>
    BY <2>2 DEF n_ranges
  <2>3. CASE ranges # <<>>
    <3>1. RangesRight(ranges, entries, c)
      BY <2>1, <2>3 DEF NumbersRight
    <3>2. Len(ranges) \in Nat
      BY <3>1 DEF RangesRight, Chain
    <3> QED
      BY <2>3, <3>2 DEF n_ranges
  <2> QED
    BY <2>2, <2>3
<1>4. mid < n_ranges
  BY <1>2, <1>3, <1>a
<1>5. PICK end \in Sums(a, SizeAt(mid)) :
       \/ key < a /\ GoLeft
       \/ key >= a /\ key >= end /\ GoRight
       \/ key >= a /\ key < end /\ Return(Within(mid))
  BY DEF ProbeRange
<1>6. IntMax \notin DeclaredNumbers => InRanges(entries, ranges, key, start, n)
  BY <1>1 DEF LookupInv, NumberWindow
<1>7. CASE key < a /\ GoLeft
  <2>1. n' = mid - start /\ start' = start /\ UNCHANGED <<tables, pc, key, result>>
    BY <1>7 DEF GoLeft
  <2>2. start' \in Nat /\ n' \in Nat /\ start' + n' = mid
    BY <1>2, <1>3, <2>1
  <2>3. start' + n' <= n_ranges
    <3>1. mid <= n_ranges
      BY <1>3, <1>4, <1>a
    <3> QED
      BY <2>2, <3>1, Zenon
  <2>4. ASSUME IntMax \notin DeclaredNumbers
        PROVE  InRanges(entries, ranges, key, start', n')
    <3>1. \A x \in DOMAIN entries : entries[x].number = key /\ key < a =>
            x - 1 < RangeAt(mid).orig_index
      BY <1>1, <1>3, <1>4, <2>4, AroundRun
    <3>2. \A x \in DOMAIN entries : entries[x].number = key =>
            x - 1 < ranges[(start' + n') + 1].orig_index
      BY <1>7, <2>2, <3>1 DEF RangeAt
    <3>3. \A x \in DOMAIN entries : entries[x].number = key =>
            ranges[start' + 1].orig_index <= x - 1
      BY <1>6, <2>1, <2>4 DEF InRanges
    <3> QED
      BY <3>2, <3>3 DEF InRanges
  <2>5. LookupInv'
    BY <1>1, <2>1, <2>2, <2>3, <2>4, WindowKept
  <2>6. pc' = "number"
    BY <1>1, <2>1
  <2> QED
    BY <2>5, <2>6
<1>8. CASE key >= a /\ key >= end /\ GoRight
  <2>1. start' = mid + 1 /\ n' = start + n - (mid + 1) /\ UNCHANGED <<tables, pc, key, result>>
    BY <1>8 DEF GoRight
  <2>2. start' \in Nat /\ n' \in Nat /\ start' + n' = start + n
    <3> DEFINE mm == mid
    <3>1. mm \in Nat /\ start < mm /\ mm < start + n /\ start' = mm + 1
          /\ n' = start + n - (mm + 1)
      BY <1>3, <2>1
    <3> HIDE DEF mm
    <3> QED
      BY <1>2, <3>1
  <2>3. start' + n' <= n_ranges
    BY <1>2, <2>2
  <2>4. ASSUME IntMax \notin DeclaredNumbers
        PROVE  InRanges(entries, ranges, key, start', n')
    <3>1. \A x \in DOMAIN entries : entries[x].number = key /\ key >= end =>
            RangeAt(mid + 1).orig_index <= x - 1
      BY <1>1, <1>3, <1>4, <1>5, <2>4, AroundRun
    <3>2. \A x \in DOMAIN entries : entries[x].number = key =>
            ranges[start' + 1].orig_index <= x - 1
      BY <1>8, <2>1, <3>1 DEF RangeAt
    <3>3. \A x \in DOMAIN entries : entries[x].number = key =>
            x - 1 < ranges[(start' + n') + 1].orig_index
      BY <1>6, <2>2, <2>4 DEF InRanges
    <3> QED
      BY <3>2, <3>3 DEF InRanges
  <2>5. LookupInv'
    BY <1>1, <2>1, <2>2, <2>3, <2>4, WindowKept
  <2>6. pc' = "number"
    BY <1>1, <2>1
  <2> QED
    BY <2>5, <2>6
<1>9. CASE key >= a /\ key < end /\ Return(Within(mid))
  <2>1. a <= key
    <3>1. PICK c \in 0 .. Len(declared.items) :
            RunRight(entries, c, a, RangeAt(mid).orig_index, RangeAt(mid + 1).orig_index)
      BY <1>1, <1>3, <1>4, ProbeFacts
    <3>2. a \in Int
      BY <3>1, IntFacts DEF RunRight
    <3> HIDE DEF a
    <3> QED
      BY <1>2, <1>9, <3>2
  <2>2. /\ Within(mid) \in 0 .. Len(declared.items) - 1
        /\ Within(mid) + 1 \in DOMAIN entries /\ entries[Within(mid) + 1].number = key
    BY <1>1, <1>3, <1>4, <1>5, <1>9, <2>1, InRun
  <2>3. Within(mid) \in None .. Len(declared.items) - 1
    BY <2>2 DEF None
  <2>4. LookupInv'
    BY <1>1, <1>9, <2>3, ReturnInv
  <2>5. key \in DeclaredNumbers
    BY <1>1, <2>2, DeclaredInEntries
  <2>6. result' = Within(mid)
    BY <1>9 DEF Return
  <2>7. NumberAnswer(result')
    BY <2>2, <2>5, <2>6 DEF NumberAnswer
  <2> QED
    BY <2>4, <2>7
<1> QED
  BY <1>5, <1>7, <1>8, <1>9

LEMMA LastRangeInv ==
  ASSUME LookupInv, LastRange
  PROVE  /\ LookupInv'
         /\ IntMax \notin DeclaredNumbers => NumberAnswer(result')
<1> DEFINE hit == /\ n = 1
                  /\ RangeAt(start).start_value <= key
                  /\ key < ToInt(RangeAt(start).start_value + SizeAt(start))
<1>1. pc = "number" /\ n <= 1 /\ Return(IF hit THEN Within(start) ELSE None)
  BY DEF LastRange
<1>2. start \in Nat /\ n \in Nat /\ start + n <= n_ranges /\ key \in Int
  BY <1>1, IntFacts DEF LookupInv, LookupTypeOK, NumberWindow
<1>3. Len(declared.items) \in Nat
  BY Declared DEF LookupInv
<1>4. IntMax \notin DeclaredNumbers => InRanges(entries, ranges, key, start, n)
  BY <1>1 DEF LookupInv, NumberWindow
<1>5. n = 1 => start < n_ranges
  <2>1. SUFFICES ASSUME n = 1 PROVE start < n_ranges
    OBVIOUS
  <2>2. PICK c : NumbersRight(declared, entries, ranges, c)
    BY <1>1 DEF LookupInv, TablesRight, NumberWindow
  <2>3. ranges # <<>>
    <3>1. SUFFICES ASSUME ranges = <<>> PROVE FALSE
      OBVIOUS
    <3>2. n_ranges = 0
      BY <3>1 DEF n_ranges
    <3> QED
      BY <1>2, <2>1, <3>2
  <2>4. RangesRight(ranges, entries, c)
    BY <2>2, <2>3 DEF NumbersRight
  <2>5. Len(ranges) \in Nat /\ n_ranges = Len(ranges) - 1
    BY <2>3, <2>4 DEF RangesRight, Chain, n_ranges
  <2> QED
    BY <1>2, <2>1, <2>5
<1>6. CASE hit
  <2>1. /\ Within(start) \in 0 .. Len(declared.items) - 1
        /\ Within(start) + 1 \in DOMAIN entries /\ entries[Within(start) + 1].number = key
    BY <1>1, <1>2, <1>5, <1>6, InRun
  <2>2. Return(Within(start)) /\ Within(start) \in None .. Len(declared.items) - 1
    BY <1>1, <1>6, <2>1 DEF None
  <2>3. LookupInv'
    BY <1>1, <2>2, ReturnInv
  <2>4. key \in DeclaredNumbers
    BY <1>1, <2>1, DeclaredInEntries
  <2>5. result' = Within(start)
    BY <2>2 DEF Return
  <2> QED
    BY <2>1, <2>3, <2>4, <2>5 DEF NumberAnswer
<1>7. CASE ~hit
  <2>1. Return(None) /\ None \in None .. Len(declared.items) - 1
    BY <1>1, <1>3, <1>7 DEF None
  <2>2. LookupInv' /\ result' = None
    <3>1. LookupInv'
      BY <1>1, <2>1, ReturnInv
    <3> QED
      BY <2>1, <3>1 DEF Return
  <2>3. ASSUME IntMax \notin DeclaredNumbers PROVE key \notin DeclaredNumbers
    <3>1. SUFFICES ASSUME NEW x \in DOMAIN entries, entries[x].number = key PROVE FALSE
      BY <1>1, DeclaredInEntries
    <3>2. /\ ranges[start + 1].orig_index <= x - 1
          /\ x - 1 < ranges[(start + n) + 1].orig_index
      BY <1>4, <2>3, <3>1 DEF InRanges
    <3>3. x \in Int
      <4>1. PICK c : NumbersRight(declared, entries, ranges, c)
        BY <1>1 DEF LookupInv, TablesRight, NumberWindow
      <4>2. DOMAIN entries = 1 .. c
        BY <4>1 DEF NumbersRight
      <4> QED
        BY <4>2
    <3>a. ranges[start + 1].orig_index \in Int
      <4>1. PICK c : NumbersRight(declared, entries, ranges, c)
        BY <1>1 DEF LookupInv, TablesRight, NumberWindow
      <4>2. DOMAIN entries = 1 .. c /\ c \in 0 .. Len(declared.items)
        BY <4>1 DEF NumbersRight
      <4>3. declared.items # <<>>
        BY <3>1, <4>2
      <4>4. RangesRight(ranges, entries, c)
        BY <4>1, <4>3 DEF NumbersRight
      <4>5. ranges \in Seq(RangeRecord) /\ Len(ranges) >= 2
        BY <4>4 DEF RangesRight, Chain
      <4>6. n_ranges = Len(ranges) - 1 /\ Len(ranges) \in Nat
        BY <4>5 DEF n_ranges
      <4>7. start + 1 \in 1 .. Len(ranges)
        BY <1>2, <4>6
      <4>8. ranges[start + 1] \in RangeRecord
        BY <4>5, <4>7
      <4> QED
        BY <4>8 DEF RangeRecord
    <3>4. CASE n = 0
      <4>1. start + n = start
        BY <1>2, <3>4
      <4>2. /\ ranges[start + 1].orig_index <= x - 1
            /\ x - 1 < ranges[start + 1].orig_index
        BY <3>2, <4>1
      <4> QED
        BY <3>3, <3>a, <4>2
    <3>5. CASE n = 1
      <4> DEFINE a == RangeAt(start).start_value
                 o == RangeAt(start).orig_index
                 p == RangeAt(start + 1).orig_index
                 end == ToInt(RangeAt(start).start_value + SizeAt(start))
      <4>1. PICK c \in 0 .. Len(declared.items) : RunRight(entries, c, a, o, p)
        BY <1>1, <1>2, <1>5, <3>5, ProbeFacts
      <4>2. a \in Int /\ o \in Int /\ p \in Int
        BY <4>1, IntFacts DEF RunRight
      <4>3. o <= x - 1 /\ x - 1 < p
        BY <3>2, <3>5 DEF RangeAt
      <4>4. start < n_ranges
        BY <1>5, <3>5
      <4>5. key < a => x - 1 < o
        BY <1>1, <1>2, <2>3, <3>1, <4>4, AroundRun
      <4>6. key >= end => p <= x - 1
        BY <1>1, <1>2, <2>3, <3>1, <4>4, AroundRun
      <4>7. end \in Int
        <5>1. SizeAt(start) = p - o
          BY DEF SizeAt
        <5>2. SizeAt(start) \in Int
          BY <4>2, <5>1
        <5>3. a + SizeAt(start) \in Int
          BY <4>2, <5>2
        <5> QED
          BY <5>3, ToIntIsInt
      <4>8. ~(a <= key /\ key < end)
        BY <1>7, <3>5
      <4> HIDE DEF a, o, p, end
      <4> QED
        BY <1>2, <3>3, <4>2, <4>3, <4>5, <4>6, <4>7, <4>8
    <3> QED
      BY <1>1, <1>2, <3>4, <3>5
  <2> QED
    BY <2>2, <2>3 DEF NumberAnswer
<1> QED
  BY <1>6, <1>7

\* What a search for a name must return.
NameAnswer(r) ==
  IF NumberOf(key) # {}
  THEN r + 1 \in DOMAIN entries /\ entries[r + 1].number \in NumberOf(key)
  ELSE r = None

LEMMA NameFacts ==
  ASSUME LookupInv, pc = "name"
  PROVE  /\ start \in Nat /\ n \in Nat /\ start + n <= Len(names) /\ key \in Int
         /\ Len(names) = Len(declared.items) /\ Len(names) \in Nat
         /\ \A i \in 1 .. Len(names) : names[i].name \in Int
         /\ \A i, j \in 1 .. Len(names) : i < j => names[i].name < names[j].name
         /\ NumberOf(key) # {} => \E i \in 1 .. Len(names) : names[i].name = key
         /\ InNames(names, key, start, n)
<1>1. NamesRight(declared, entries, names) /\ declared \in Declarations
  BY DEF LookupInv, TablesRight
<1>2. Len(declared.items) \in Nat
  BY <1>1, Declared
<1>3. /\ Len(names) = Len(declared.items)
      /\ \A i \in 1 .. Len(names) : names[i].name \in Int
      /\ \A i, j \in 1 .. Len(names) : i < j => names[i].name < names[j].name
      /\ \A j \in DOMAIN declared.items : \E i \in 1 .. Len(names) : names[i].name = declared.items[j].name
  BY <1>1 DEF NamesRight
<1>4. NumberOf(key) # {} => \E i \in 1 .. Len(names) : names[i].name = key
  <2>1. SUFFICES ASSUME NumberOf(key) # {} PROVE \E i \in 1 .. Len(names) : names[i].name = key
    OBVIOUS
  <2>2. PICK j \in DOMAIN declared.items : declared.items[j].name = key
    BY <2>1 DEF NumberOf
  <2> QED
    BY <1>3, <2>2
<1>5. start \in Nat /\ n \in Nat
  BY DEF LookupInv, LookupTypeOK
<1>6. start + n <= Len(names) /\ key \in Int /\ InNames(names, key, start, n)
  BY DEF LookupInv, NameWindow
<1> QED
  BY <1>2, <1>3, <1>4, <1>5, <1>6

\* The name that is looked for.
LEMMA NameHit ==
  ASSUME LookupInv, pc = "name", NEW i \in Nat, i < Len(names), NameAt(i).name = key
  PROVE  NameAt(i).index \in None .. Len(declared.items) - 1 /\ NameAnswer(NameAt(i).index)
<1>1. NamesRight(declared, entries, names)
  BY DEF LookupInv, TablesRight
<1>2. Len(names) \in Nat /\ i + 1 \in 1 .. Len(names)
  BY NameFacts
<1>3. /\ names[i + 1].index + 1 \in DOMAIN entries
      /\ names[i + 1].index \in 0 .. Len(declared.items) - 1
      /\ entries[names[i + 1].index + 1].number \in NumbersNamed(declared, names[i + 1].name)
  BY <1>1, <1>2 DEF NamesRight
<1>4. names[i + 1].name = key
  BY DEF NameAt
<1>5. NumbersNamed(declared, key) = NumberOf(key)
  BY DEF NumbersNamed, NumberOf
<1>6. entries[names[i + 1].index + 1].number \in NumberOf(key)
  BY <1>3, <1>4, <1>5
<1>7. names[i + 1].index \in None .. Len(declared.items) - 1
  BY <1>3 DEF None
<1> QED
  BY <1>3, <1>6, <1>7 DEF NameAt, NameAnswer

\* The window of a search by name that goes on.
LEMMA NameWindowKept ==
  ASSUME LookupInv, pc = "name", UNCHANGED <<tables, pc, key, result>>,
         start' \in Nat, n' \in Nat, start' + n' <= Len(names),
         InNames(names, key, start', n')
  PROVE  LookupInv'
<1>1. pc' = pc /\ key' = key /\ result' = result /\ UNCHANGED tables
  OBVIOUS
<1>2. /\ declared' \in Declarations /\ TablesRight'
      /\ declared' = declared /\ entries' = entries /\ ranges' = ranges /\ names' = names
  BY <1>1, TablesKept
<1>3. key \in Int /\ LookupTypeOK
  BY DEF LookupInv, NameWindow
<1>4. NameWindow'
  <2>1. InNames(names', key', start', n') /\ start' + n' <= Len(names') /\ key' \in Int
    BY <1>1, <1>2, <1>3
  <2> QED
    BY <2>1 DEF NameWindow
<1>5. NumberWindow'
  BY <1>1 DEF NumberWindow
<1>6. LookupTypeOK'
  BY <1>1, <1>2, <1>3 DEF LookupTypeOK
<1> QED
  BY <1>2, <1>4, <1>5, <1>6 DEF LookupInv

LEMMA ProbeNameInv ==
  ASSUME LookupInv, ProbeName
  PROVE  /\ LookupInv'
         /\ pc' = "idle" => NameAnswer(result')
<1>1. pc = "name" /\ n > 1
  BY DEF ProbeName
<1>2. /\ start \in Nat /\ n \in Nat /\ start + n <= Len(names) /\ key \in Int
      /\ Len(names) \in Nat
      /\ \A i \in 1 .. Len(names) : names[i].name \in Int
      /\ \A i, j \in 1 .. Len(names) : i < j => names[i].name < names[j].name
  BY <1>1, NameFacts
<1>3. \A i \in 1 .. Len(names) : names[i].name = key => start < i /\ i <= start + n
  BY <1>1, NameFacts DEF InNames
<1>4. mid \in Nat /\ start < mid /\ mid < start + n
  BY <1>1, <1>2, Halves
<1> DEFINE h == mid
<1>5. h \in Nat /\ start < h /\ h < start + n /\ h + 1 \in 1 .. Len(names)
  BY <1>2, <1>4
<1>6. \/ names[h + 1].name = key /\ Return(NameAt(h).index)
      \/ names[h + 1].name < key /\ GoRight
      \/ names[h + 1].name > key /\ GoLeft
  BY DEF ProbeName, NameAt
<1>7. CASE names[h + 1].name = key /\ Return(NameAt(h).index)
  <2>1. h < Len(names) /\ NameAt(h).name = key
    BY <1>2, <1>5, <1>7 DEF NameAt
  <2>2. NameAt(h).index \in None .. Len(declared.items) - 1 /\ NameAnswer(NameAt(h).index)
    BY <1>1, <1>5, <2>1, NameHit
  <2>3. LookupInv'
    BY <1>1, <1>7, <2>2, ReturnInv
  <2>4. result' = NameAt(h).index
    BY <1>7 DEF Return
  <2> QED
    BY <2>2, <2>3, <2>4
<1>8. CASE names[h + 1].name < key /\ GoRight
  <2>1. start' = h + 1 /\ n' = start + n - (h + 1) /\ UNCHANGED <<tables, pc, key, result>>
    BY <1>8 DEF GoRight
  <2> HIDE DEF h
  <2>2. start' \in Nat /\ n' \in Nat /\ start' + n' = start + n
    BY <1>2, <1>5, <2>1
  <2>3. ASSUME NEW i \in 1 .. Len(names), names[i].name = key
        PROVE  start' < i /\ i <= start' + n'
    <3>1. i <= start + n
      BY <1>3, <2>3
    <3>2. h + 1 < i
      <4>1. SUFFICES ASSUME i <= h + 1 PROVE FALSE
        BY <1>5
      <4>2. i < h + 1 \/ i = h + 1
        BY <1>5, <4>1
      <4>3. names[i].name <= names[h + 1].name
        BY <1>2, <1>5, <4>2
      <4> QED
        BY <1>2, <1>5, <1>8, <2>3, <4>3
    <3> QED
      BY <2>1, <2>2, <3>1, <3>2
  <2>4. InNames(names, key, start', n') /\ start' + n' <= Len(names)
    BY <1>2, <2>2, <2>3 DEF InNames
  <2>5. LookupInv'
    BY <1>1, <2>1, <2>2, <2>4, NameWindowKept
  <2>6. pc' = "name"
    BY <1>1, <2>1
  <2> QED
    BY <2>5, <2>6
<1>9. CASE names[h + 1].name > key /\ GoLeft
  <2>1. n' = h - start /\ start' = start /\ UNCHANGED <<tables, pc, key, result>>
    BY <1>9 DEF GoLeft
  <2> HIDE DEF h
  <2>2. start' \in Nat /\ n' \in Nat /\ start' + n' = h
    BY <1>2, <1>5, <2>1
  <2>3. ASSUME NEW i \in 1 .. Len(names), names[i].name = key
        PROVE  start' < i /\ i <= start' + n'
    <3>1. start < i
      BY <1>3, <2>3
    <3>2. i <= h
      <4>1. SUFFICES ASSUME h + 1 <= i PROVE FALSE
        BY <1>5
      <4>2. h + 1 < i \/ i = h + 1
        BY <1>5, <4>1
      <4>3. names[h + 1].name <= names[i].name
        BY <1>2, <1>5, <4>2
      <4> QED
        BY <1>2, <1>5, <1>9, <2>3, <4>3
    <3> QED
      BY <2>1, <2>2, <3>1, <3>2
  <2>4. InNames(names, key, start', n') /\ start' + n' <= Len(names)
    <3>0. h \in Nat /\ h + 1 <= Len(names) /\ Len(names) \in Nat
      BY <1>2, <1>5
    <3>1. start' + n' <= Len(names)
      <4>1. \A a, b \in Nat : a + 1 <= b => a <= b
        OBVIOUS
      <4>2. h <= Len(names)
        BY <3>0, <4>1
      <4> QED
        BY <2>2, <4>2
    <3> QED
      BY <2>3, <3>1 DEF InNames
  <2>5. LookupInv'
    BY <1>1, <2>1, <2>2, <2>4, NameWindowKept
  <2>6. pc' = "name"
    BY <1>1, <2>1
  <2> QED
    BY <2>5, <2>6
<1> QED
  BY <1>6, <1>7, <1>8, <1>9

LEMMA LastNameInv ==
  ASSUME LookupInv, LastName
  PROVE  LookupInv' /\ NameAnswer(result')
<1> DEFINE hit == n = 1 /\ NameAt(start).name = key
<1>1. pc = "name" /\ n <= 1 /\ Return(IF hit THEN NameAt(start).index ELSE None)
  BY DEF LastName
<1>2. /\ start \in Nat /\ n \in Nat /\ start + n <= Len(names) /\ Len(names) \in Nat
      /\ Len(names) = Len(declared.items)
      /\ NumberOf(key) # {} => \E i \in 1 .. Len(names) : names[i].name = key
  BY <1>1, NameFacts
<1>3. \A i \in 1 .. Len(names) : names[i].name = key => start < i /\ i <= start + n
  BY <1>1, NameFacts DEF InNames
<1>4. CASE hit
  <2>1. start < Len(names) /\ NameAt(start).name = key /\ Return(NameAt(start).index)
    BY <1>1, <1>2, <1>4
  <2>2. NameAt(start).index \in None .. Len(declared.items) - 1 /\ NameAnswer(NameAt(start).index)
    BY <1>1, <1>2, <2>1, NameHit
  <2>3. LookupInv'
    BY <1>1, <2>1, <2>2, ReturnInv
  <2>4. result' = NameAt(start).index
    BY <2>1 DEF Return
  <2> QED
    BY <2>2, <2>3, <2>4
<1>5. CASE ~hit
  <2>1. Return(None) /\ None \in None .. Len(declared.items) - 1
    BY <1>1, <1>2, <1>5 DEF None
  <2>2. LookupInv'
    BY <1>1, <2>1, ReturnInv
  <2>3. result' = None
    BY <2>1 DEF Return
  <2>4. NumberOf(key) = {}
    <3>1. SUFFICES ASSUME NEW i \in 1 .. Len(names), names[i].name = key PROVE FALSE
      BY <1>2
    <3>2. start < i /\ i <= start + n
      BY <1>3, <3>1
    <3>3. n = 1 /\ i = start + 1
      BY <1>1, <1>2, <3>2
    <3> QED
      BY <1>5, <3>1, <3>3 DEF NameAt
  <2> QED
    BY <2>2, <2>3, <2>4 DEF NameAnswer
<1> QED
  BY <1>4, <1>5
-----------------------------------------------------------------------------
(* The theorems.                                                           *)

LEMMA LookupInvStep ==
  LookupInv /\ [LookupNext]_lookupVars => LookupInv'
<1> SUFFICES ASSUME LookupInv, [LookupNext]_lookupVars PROVE LookupInv'
  OBVIOUS
<1>1. CASE Generate
  BY <1>1, GenerateInv
<1>2. CASE \E k \in Numbers : GetByNumber(k)
  BY <1>2, GetByNumberInv
<1>3. CASE \E k \in Names : GetByName(k)
  BY <1>3, GetByNameInv
<1>4. CASE ProbeRange
  BY <1>4, ProbeRangeInv
<1>5. CASE LastRange
  BY <1>5, LastRangeInv
<1>6. CASE ProbeName
  BY <1>6, ProbeNameInv
<1>7. CASE LastName
  BY <1>7, LastNameInv
<1>8. CASE UNCHANGED lookupVars
  <2>1. /\ declared' = declared /\ entries' = entries /\ ranges' = ranges /\ names' = names
        /\ pc' = pc /\ key' = key /\ start' = start /\ n' = n /\ result' = result
    BY <1>8 DEF lookupVars, tables
  <2>2. n_ranges' = n_ranges /\ DeclaredNumbers' = DeclaredNumbers
    BY <2>1 DEF n_ranges, DeclaredNumbers
  <2>3. LookupTypeOK' /\ TablesRight'
    BY <2>1 DEF LookupInv, LookupTypeOK, TablesRight
  <2>4. NumberWindow' /\ NameWindow'
    BY <2>1, <2>2 DEF LookupInv, NumberWindow, NameWindow
  <2> QED
    BY <2>1, <2>3, <2>4 DEF LookupInv
<1> QED
  BY <1>1, <1>2, <1>3, <1>4, <1>5, <1>6, <1>7, <1>8 DEF LookupNext, Step

LEMMA LookupInvHolds ==
  LookupSpec => []LookupInv
BY LookupInvInit, LookupInvStep, PTL DEF LookupSpec

\* A search never looks beyond its table, in whatever was declared, INT_MAX
\* included, and returns -1 or an index of what was declared.
THEOREM LookupsInTable ==
  LookupSpec => []InTable
<1>1. LookupInv => InTable
  BY DEF LookupInv, InTable, NumberWindow, NameWindow
<1> QED
  BY <1>1, LookupInvHolds, PTL

\* Every declared number is found at its entry and no other number is found,
\* for every declaration without INT_MAX.
THEOREM LookupsNumberFound ==
  LookupSpec => NumberFound
<1> DEFINE Found == pc = "number" /\ pc' = "idle" /\ IntMax \notin DeclaredNumbers =>
                      NumberAnswer(result')
<1>1. LookupInv /\ [LookupNext]_lookupVars => [Found]_lookupVars
  <2> SUFFICES ASSUME LookupInv, LookupNext, pc = "number", pc' = "idle",
                      IntMax \notin DeclaredNumbers
               PROVE  NumberAnswer(result')
    OBVIOUS
  <2>1. CASE ProbeRange
    BY <2>1, ProbeRangeInv
  <2>2. CASE LastRange
    BY <2>2, LastRangeInv
  <2>3. ProbeRange \/ LastRange
    BY DEF LookupNext, Step, Generate, GetByNumber, GetByName, Search, ProbeName, LastName
  <2> QED
    BY <2>1, <2>2, <2>3
<1>2. [][Found]_lookupVars => NumberFound
  BY DEF NumberFound, NumberAnswer
<1> HIDE DEF Found
<1> QED
  BY <1>1, <1>2, LookupInvHolds, PTL DEF LookupSpec

\* Every declared name leads to the entry with its number, and no other name is
\* found.
THEOREM LookupsNameFound ==
  LookupSpec => NameFound
<1> DEFINE Found == pc = "name" /\ pc' = "idle" => NameAnswer(result')
<1>1. LookupInv /\ [LookupNext]_lookupVars => [Found]_lookupVars
  <2> SUFFICES ASSUME LookupInv, LookupNext, pc = "name", pc' = "idle"
               PROVE  NameAnswer(result')
    OBVIOUS
  <2>1. CASE ProbeName
    BY <2>1, ProbeNameInv
  <2>2. CASE LastName
    BY <2>2, LastNameInv
  <2>3. ProbeName \/ LastName
    BY DEF LookupNext, Step, Generate, GetByNumber, GetByName, Search, ProbeRange, LastRange
  <2> QED
    BY <2>1, <2>2, <2>3
<1>2. [][Found]_lookupVars => NameFound
  BY DEF NameFound, NameAnswer
<1> HIDE DEF Found
<1> QED
  BY <1>1, <1>2, LookupInvHolds, PTL DEF LookupSpec
=============================================================================
