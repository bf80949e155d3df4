------------------------------- MODULE Unpack -------------------------------
(***************************************************************************)
(* protobuf_c_message_unpack and protobuf_c_message_free_unpacked: a scan  *)
(* over the members of the input that counts repeated elements, a pass     *)
(* over the fields that allocates their arrays and looks for missing ones, *)
(* a second pass over the members that parses them, and what is freed on   *)
(* every way out.  Any allocation may fail.                                *)
(*                                                                         *)
(* Bytes are abstracted: the input is a sequence of members that are drawn *)
(* as the scan reaches them, a byte of a packed member is whether it ends  *)
(* a number, a value is named by the member it comes from and its place    *)
(* there, and a heap block by what it holds.  Unpacking a sub-message is   *)
(* one step that yields a block or nothing.                                *)
(***************************************************************************)
EXTENDS Naturals, Sequences, FiniteSets, SequencesExt

CONSTANTS Descriptors,      \* messages: sequences of field descriptors
          MaxMembers,       \* bound: members of the input
          MaxBytes,         \* bound: bytes of a packed member
          MaxVarint,        \* bytes of the longest number: 10
          WordBits,         \* bits in an element of required_fields_bitmap: 8
          BitmapSize,       \* elements of required_fields_bitmap: 16
          FirstSlabLog2,    \* FIRST_SCANNED_MEMBER_SLAB_SIZE_LOG2: 4
          MaxSlab           \* MAX_SCANNED_MEMBER_SLAB

Labels == {"required", "optional", "repeated"}
Types  == {"varint", "fixed", "bool", "string", "bytes", "message"}
FieldDescriptor == [label : Labels, type : Types, default_value : BOOLEAN]

ASSUME UnpackAssumption ==
  /\ \A d \in Descriptors : d \in Seq(FieldDescriptor)
  /\ {MaxMembers, MaxBytes, FirstSlabLog2, MaxSlab} \subseteq Nat
  /\ {MaxVarint, WordBits, BitmapSize} \subseteq Nat \ {0}

\* A member.  Its tag is a field's place in the descriptor, or 0 for a tag that
\* is not the message's; "fixed" is either of the fixed-size wire types.  Of
\* its data a byte is TRUE if it ends a varint, or is a legal boolean, or
\* stands for a fixed-size number.
Wires  == {"varint", "fixed", "length"}
Member == [tag : Nat, wire : Wires, data : Seq(BOOLEAN)]

VARIABLES
  desc, input,
  phase,
  required_fields_bitmap, last_field,
  slabs,                \* scanned_member_slabs: members by their place in input
  n_unknown,
  f,                    \* the field the second pass is at, 0 before it
  next,                 \* the member the third pass is at: slab and index
  rv,                   \* the message: one record per field
  unknown_fields,
  heap,                 \* blocks allocated and not freed
  wild                  \* a block was freed that is not allocated

vars == <<desc, input, phase, required_fields_bitmap, last_field, slabs,
          n_unknown, f, next, rv, unknown_fields, heap, wild>>

Fields == DOMAIN desc

\* Heap blocks: the message, a slab, a repeated field's array, the array of
\* unknown fields, and what the value of member j owns.
MessageBlock == <<"message", 0>>
SlabBlock(i) == <<"slab", i>>
ArrayBlock(k) == <<"array", k>>
UnknownBlock == <<"unknown", 0>>
ValueBlock(j) == <<"value", j>>
Blocks == {"message", "slab", "array", "unknown", "value"} \X Nat

\* A field of the message: the quantifier n, the room in the array, its
\* elements, or the value of a field that is not repeated (0: the default).
Slot == [n : Nat, room : Nat, elements : Seq(Nat \X Nat), value : Nat,
         has : BOOLEAN]
EmptySlot == [n |-> 0, room |-> 0, elements |-> <<>>, value |-> 0, has |-> FALSE]

Phases == {"scan", "fields", "parse", "done", "failed", "freed"}

TypeOK ==
  /\ desc \in Descriptors /\ input \in Seq(Member)
  /\ phase \in Phases
  /\ required_fields_bitmap \in [0 .. BitmapSize - 1 -> SUBSET (0 .. WordBits - 1)]
  /\ last_field \in Nat
  /\ slabs \in Seq(Seq(Nat)) /\ Len(slabs) \in 1 .. MaxSlab + 1
  /\ n_unknown \in Nat /\ f \in Nat /\ next \in Nat \X Nat
  /\ rv \in [Fields -> Slot]
  /\ unknown_fields \in Seq(Nat)
  /\ heap \subseteq Blocks
  /\ wild \in BOOLEAN

\* The message and its first slab, which is on the stack.
Init ==
  /\ desc \in Descriptors /\ input = <<>>
  /\ phase = "scan"
  /\ required_fields_bitmap = [i \in 0 .. BitmapSize - 1 |-> {}]
  /\ last_field = 1
  /\ slabs = << <<>> >>
  /\ n_unknown = 0 /\ f = 0 /\ next = <<1, 1>>
  /\ rv = [k \in Fields |-> EmptySlot] /\ unknown_fields = <<>>
  /\ heap = {MessageBlock}
  /\ wild = FALSE
-----------------------------------------------------------------------------
(* Freeing.                                                                *)

Owns(type, m) == type \in {"string", "message"} \/ (type = "bytes" /\ m.data # <<>>)

\* What parsing member j for field k put on the heap.
ValueBlocks(k, j) == IF Owns(desc[k].type, input[j]) THEN {ValueBlock(j)} ELSE {}

\* The blocks free_unpacked frees of a message, and whether it reads elements of
\* an array that are not there.
FieldBlocks(message, k) ==
  IF desc[k].label = "repeated"
  THEN (UNION {ValueBlocks(k, message[k].elements[i][1]) :
                 i \in DOMAIN message[k].elements})
         \cup (IF message[k].room > 0 THEN {ArrayBlock(k)} ELSE {})
  ELSE IF message[k].value = 0 THEN {} ELSE ValueBlocks(k, message[k].value)

MessageBlocks(message) ==
  (UNION {FieldBlocks(message, k) : k \in Fields})
    \cup {ValueBlock(unknown_fields[i]) : i \in DOMAIN unknown_fields}
    \cup (IF n_unknown > 0 /\ phase \in {"parse", "done"} THEN {UnknownBlock} ELSE {})
    \cup {MessageBlock}

ReadsTooFar(message) ==
  \E k \in Fields : /\ desc[k].label = "repeated"
                    /\ desc[k].type \in {"string", "bytes", "message"}
                    /\ message[k].n > Len(message[k].elements)

SlabBlocks == {SlabBlock(i) : i \in 2 .. Len(slabs)}

Free(blocks) ==
  /\ heap' = heap \ blocks
  /\ wild' = (wild \/ ~(blocks \subseteq heap))

\* free_unpacked, when "gone" has been freed already; and the slabs.
free_unpacked(message, gone) ==
  LET blocks == MessageBlocks(message)
  IN  /\ heap' = heap \ (gone \cup blocks \cup SlabBlocks)
      /\ wild' = (wild \/ ~(gone \subseteq heap) \/ ReadsTooFar(message)
                       \/ ~(blocks \cup SlabBlocks \subseteq heap \ gone))

\* error_cleanup_during_scan
FailScan ==
  /\ phase' = "failed"
  /\ Free({MessageBlock} \cup SlabBlocks)
  /\ UNCHANGED <<desc, required_fields_bitmap, last_field, slabs, n_unknown, f,
                 next, rv, unknown_fields>>
-----------------------------------------------------------------------------
(* First pass: scan.                                                       *)

Packable(type) == type \in {"varint", "fixed", "bool"}
IsPacked(field, m) == m.wire = "length" /\ Packable(field.type)

\* REQUIRED_FIELD_BITMAP_SET for the field at place k.
Word(k) == ((k - 1) \div WordBits) % BitmapSize
Bit(k)  == (k - 1) % WordBits
\* Mistake: only a field that had to be looked up is recorded.
RecordOnLookup(k) ==
  required_fields_bitmap' =
    IF k # 0 /\ k # last_field /\ desc[k].label = "required"
    THEN [required_fields_bitmap EXCEPT ![Word(k)] = @ \cup {Bit(k)}]
    ELSE required_fields_bitmap

RecordRequired(k) ==
  required_fields_bitmap' =
    IF k # 0 /\ desc[k].label = "required"
    THEN [required_fields_bitmap EXCEPT ![Word(k)] = @ \cup {Bit(k)}]
    ELSE required_fields_bitmap

\* Mistake: a packed member counts as one element.
CountOne(k, m) == 1

Ends(data) == {i \in DOMAIN data : data[i]}

\* The elements member m adds to repeated field k: count_packed_elements, which
\* counts the bytes that end a varint (max_b128_numbers).
CountElements(k, m) ==
  IF ~IsPacked(desc[k], m) THEN 1
  ELSE IF desc[k].type = "varint" THEN Cardinality(Ends(m.data))
  ELSE Len(m.data)

\* The members the scan may meet for a tag: what is in a length-prefixed one
\* matters if it is packed, else only whether it is empty.
MembersOf(k) ==
  [tag : {k}, wire : {"varint", "fixed"}, data : {<<TRUE>>}] \cup
  [tag : {k}, wire : {"length"},
   data : IF k = 0 THEN {<<TRUE>>}
          ELSE IF desc[k].label # "repeated" \/ ~Packable(desc[k].type)
          THEN {<<>>, <<TRUE>>}
          ELSE {d \in UNION {[1 .. n -> BOOLEAN] : n \in 0 .. MaxBytes} :
                  desc[k].type = "fixed" => Ends(d) = DOMAIN d}]

SlabSize(i) == 2 ^ (i - 1 + FirstSlabLog2)
\* Sizes are powers of two; no slab is empty.
ASSUME SlabAssumption == \A i \in 1 .. MaxSlab + 1 : SlabSize(i) \in Nat \ {0}

SlabIsFull  == Len(slabs[Len(slabs)]) = SlabSize(Len(slabs))

\* A member that can be scanned goes into the slab, a new one if it is full.
Scanned(m) ==
  LET j == Len(input) + 1
      k == m.tag
  IN  /\ input' = Append(input, m)
      /\ RecordRequired(k)
      /\ last_field' = IF k = 0 THEN last_field ELSE k
      /\ n_unknown' = IF k = 0 THEN n_unknown + 1 ELSE n_unknown
      /\ IF SlabIsFull
         THEN /\ slabs' = Append(slabs, <<j>>)
              /\ heap' = heap \cup {SlabBlock(Len(slabs) + 1)}
         ELSE /\ slabs' = [slabs EXCEPT ![Len(slabs)] = Append(@, j)]
              /\ UNCHANGED heap
      /\ rv' = IF k # 0 /\ desc[k].label = "repeated"
               THEN [rv EXCEPT ![k].n = @ + CountElements(k, m)] ELSE rv
      /\ UNCHANGED <<desc, phase, f, next, unknown_fields, wild>>

ScanMember(m) ==
  /\ phase = "scan" /\ Len(input) < MaxMembers
  /\ ~SlabIsFull \/ Len(slabs) <= MaxSlab
  /\ Scanned(m)

\* A tag or length that cannot be read, an unknown wire type, a packed member
\* of fixed-size elements whose length is no multiple; or no room in the slabs,
\* or no memory for another.
ScanFails ==
  /\ phase = "scan"
  /\ UNCHANGED input
  /\ FailScan

EndOfInput ==
  /\ phase = "scan"
  /\ phase' = "fields" /\ f' = 1
  /\ UNCHANGED <<desc, input, required_fields_bitmap, last_field, slabs, n_unknown,
                 next, rv, unknown_fields, heap, wild>>
-----------------------------------------------------------------------------
(* Second pass: allocate arrays, look for missing fields.                  *)

\* "!REQUIRED_FIELD_BITMAP_IS_SET (f)" expands to "!bitmap[w] & (1<<b)": the
\* negation applies to the whole word and leaves only bit 0.
NotSet(k) == required_fields_bitmap[Word(k)] = {} /\ Bit(k) = 0

Missing(k) == /\ desc[k].label = "required" /\ ~desc[k].default_value
              /\ NotSet(k)

\* Mistake: the counters of the scan are left standing.
ClearNothing(k) == rv

\* The field's own counter and those of the fields after it are reset before
\* the message is freed: CLEAR_REMAINING_N_PTRS.
ClearRemaining(k) ==
  [i \in Fields |-> IF i >= k THEN [rv[i] EXCEPT !.n = 0] ELSE rv[i]]

\* error_cleanup
FailWith(message, gone) ==
  /\ phase' = "failed"
  /\ rv' = message
  /\ free_unpacked(message, gone)
  /\ UNCHANGED <<desc, input, required_fields_bitmap, last_field, slabs, n_unknown,
                 f, next, unknown_fields>>

NeedsArray(k) == desc[k].label = "repeated" /\ rv[k].n > 0

FieldSucceeds ==
  /\ phase = "fields" /\ f <= Len(desc) /\ ~Missing(f)
  /\ rv' = IF NeedsArray(f)
           THEN [rv EXCEPT ![f].room = rv[f].n, ![f].n = 0] ELSE rv
  /\ heap' = IF NeedsArray(f) THEN heap \cup {ArrayBlock(f)} ELSE heap
  /\ f' = f + 1
  /\ UNCHANGED <<desc, input, phase, required_fields_bitmap, last_field, slabs,
                 n_unknown, next, unknown_fields, wild>>

FieldFails ==
  /\ phase = "fields" /\ f <= Len(desc)
  /\ Missing(f) \/ NeedsArray(f)
  /\ FailWith(ClearRemaining(f), {})

\* All fields are done: the array for unknown fields.
AllocateUnknown ==
  /\ phase = "fields" /\ f > Len(desc)
  /\ phase' = "parse"
  /\ heap' = IF n_unknown > 0 THEN heap \cup {UnknownBlock} ELSE heap
  /\ UNCHANGED <<desc, input, required_fields_bitmap, last_field, slabs, n_unknown,
                 f, next, rv, unknown_fields, wild>>

AllocateUnknownFails ==
  /\ phase = "fields" /\ f > Len(desc) /\ n_unknown > 0
  /\ FailWith(rv, {})
-----------------------------------------------------------------------------
(* Third pass: parse the members in the slabs.                             *)

\* Where the pass goes after <<i, j>>, and whether it is at the end.
SlabMax(i) == IF i = Len(slabs) THEN Len(slabs[i]) ELSE SlabSize(i)
NextPlace(p) == IF p[2] < SlabMax(p[1]) THEN <<p[1], p[2] + 1>> ELSE <<p[1] + 1, 1>>
AtEnd == next[1] > Len(slabs) \/ next[2] > SlabMax(next[1])

At == slabs[next[1]][next[2]]     \* the member, by its place in the input

\* parse_required_member's test of the wire type; there is none for bool.
AcceptsWire(type, m) ==
  CASE type = "bool"              -> TRUE
    [] type \in {"varint", "fixed"} -> m.wire = type
    [] OTHER                      -> m.wire = "length"

ParseUnknown(j) ==
  /\ unknown_fields' = Append(unknown_fields, j)
  /\ heap' = heap \cup {ValueBlock(j)}
  /\ UNCHANGED <<rv, wild>>

\* Where a packed member cannot be parsed: scan_varint finds no end in the bytes
\* left or in the longest number, or a byte is no boolean.
Broken(type, data) ==
  CASE type = "bool" -> (DOMAIN data) \ Ends(data)
    [] type = "varint" ->
         {i \in DOMAIN data :
            \A b \in i .. i + MaxVarint - 1 : b \in DOMAIN data => ~data[b]}
    [] OTHER -> {}

\* The elements parse_packed_repeated_member writes, all of them if nothing is
\* broken.
PackedElements(k, j) ==
  LET d    == input[j].data
      ends == {i \in Ends(d) : \A b \in Broken(desc[k].type, d) : b > i}
  IN  [i \in 1 .. Cardinality(ends) |-> <<j, i>>]

IsBroken(k, m) == Broken(desc[k].type, m.data) # {}

\* Mistake: the elements go to the start of the array.
ParsePackedAtStart(k, j) ==
  LET new == PackedElements(k, j)
      old == rv[k].elements
  IN  /\ rv' = [rv EXCEPT ![k].elements = new \o SubSeq(old, Len(new) + 1, Len(old)),
                          ![k].n = @ + Len(new)]
      /\ UNCHANGED <<heap, wild, unknown_fields>>

\* parse_packed_repeated_member
ParsePacked(k, j) ==
  /\ rv' = [rv EXCEPT ![k].elements = @ \o PackedElements(k, j),
                      ![k].n = @ + Len(PackedElements(k, j))]
  /\ UNCHANGED <<heap, wild, unknown_fields>>

\* parse_repeated_member
ParseElement(k, j) ==
  /\ rv' = [rv EXCEPT ![k].elements = Append(@, <<j, 1>>), ![k].n = @ + 1]
  /\ heap' = heap \cup ValueBlocks(k, j)
  /\ UNCHANGED <<wild, unknown_fields>>

\* What a later value of a field that is not repeated replaces.
Replaced(k) == FieldBlocks(rv, k)

\* An optional string or message has no has_ member: quantifier_offset is 0.
HasFlag(k) == desc[k].label = "optional" /\ desc[k].type \notin {"string", "message"}

\* parse_required_member, parse_optional_member
ParseSingle(k, j) ==
  /\ rv' = [rv EXCEPT ![k].value = j,
                      ![k].has = HasFlag(k)]
  /\ heap' = (heap \ Replaced(k)) \cup ValueBlocks(k, j)
  /\ wild' = (wild \/ ~(Replaced(k) \subseteq heap))
  /\ UNCHANGED unknown_fields

ParseMember ==
  /\ phase = "parse" /\ ~AtEnd
  /\ LET j == At
         m == input[j]
         k == m.tag
     IN  \/ k = 0 /\ ParseUnknown(j)
         \/ /\ k # 0 /\ desc[k].label = "repeated" /\ IsPacked(desc[k], m)
            /\ ~IsBroken(k, m)
            /\ ParsePacked(k, j)
         \/ /\ k # 0 /\ desc[k].label = "repeated" /\ ~IsPacked(desc[k], m)
            /\ AcceptsWire(desc[k].type, m)
            /\ ParseElement(k, j)
         \/ /\ k # 0 /\ desc[k].label # "repeated"
            /\ AcceptsWire(desc[k].type, m)
            /\ ParseSingle(k, j)
  /\ next' = NextPlace(next)
  /\ UNCHANGED <<desc, input, phase, required_fields_bitmap, last_field, slabs,
                 n_unknown, f>>

\* The value that was to be replaced is gone when the new one cannot be had,
\* for want of memory or because a sub-message is malformed.
DropValue(k) == [rv EXCEPT ![k].value = 0]

\* A wire type that does not fit, or a broken packed member: what was parsed of
\* it is in the array and not counted.
ParseFails ==
  /\ phase = "parse" /\ ~AtEnd
  /\ LET j == At
         m == input[j]
         k == m.tag
     IN  \/ /\ k # 0 /\ desc[k].label = "repeated" /\ IsPacked(desc[k], m)
            /\ IsBroken(k, m)
            /\ FailWith([rv EXCEPT ![k].elements = @ \o PackedElements(k, j)], {})
         \/ /\ k # 0 /\ ~(desc[k].label = "repeated" /\ IsPacked(desc[k], m))
            /\ ~AcceptsWire(desc[k].type, m)
            /\ FailWith(rv, {})

\* A value's memory cannot be had or its sub-message cannot be unpacked.
ValueFails ==
  /\ phase = "parse" /\ ~AtEnd
  /\ LET m == input[At]
         k == m.tag
     IN  /\ k # 0 /\ AcceptsWire(desc[k].type, m) /\ Owns(desc[k].type, m)
         /\ IF desc[k].label = "repeated" THEN FailWith(rv, {})
            ELSE FailWith(DropValue(k), Replaced(k))

\* The copy of an unknown member cannot be allocated.
UnknownFails ==
  /\ phase = "parse" /\ ~AtEnd
  /\ input[At].tag = 0
  /\ FailWith(rv, {})

Succeed ==
  /\ phase = "parse" /\ AtEnd
  /\ phase' = "done"
  /\ Free(SlabBlocks)
  /\ UNCHANGED <<desc, input, required_fields_bitmap, last_field, slabs, n_unknown,
                 f, next, rv, unknown_fields>>

\* free_unpacked, by the program.
FreeUnpacked ==
  /\ phase = "done"
  /\ phase' = "freed"
  /\ LET blocks == MessageBlocks(rv)
     IN  /\ heap' = heap \ blocks
         /\ wild' = (wild \/ ReadsTooFar(rv) \/ ~(blocks \subseteq heap))
  /\ UNCHANGED <<desc, input, required_fields_bitmap, last_field, slabs, n_unknown,
                 f, next, rv, unknown_fields>>

Returned == phase \in {"failed", "freed"} /\ UNCHANGED vars

Next ==
  \/ \E k \in 0 .. Len(desc) : \E m \in MembersOf(k) : ScanMember(m)
  \/ ScanFails \/ EndOfInput
  \/ FieldSucceeds \/ FieldFails \/ AllocateUnknown \/ AllocateUnknownFails
  \/ ParseMember \/ ParseFails \/ ValueFails \/ UnknownFails \/ Succeed
  \/ FreeUnpacked \/ Returned

Spec == Init /\ [][Next]_vars
-----------------------------------------------------------------------------
\* Whichever allocation or member fails, everything allocated is freed; what is
\* allocated when unpacking succeeds is what the message owns, and free_unpacked
\* frees all of it.
NothingLeaks ==
  /\ phase \in {"failed", "freed"} => heap = {}
  /\ phase = "done" => heap = MessageBlocks(rv)

\* Nothing is freed twice, and no garbage is taken for a pointer, however the
\* counters and arrays of a half-built message stand when an error is met.
NoWildFree == ~wild

\* Memory through every way out of unpack and through free_unpacked: nothing is
\* lost and nothing freed that is not there; the variables keep their types.
MemorySound == TypeOK /\ NothingLeaks /\ NoWildFree

\* The arrays the first pass made room for are never overrun by the third,
\* although the first counts the bytes that end a number and the third finds
\* the numbers one by one, up to a broken one.
ArraysInBounds ==
  /\ \A k \in Fields : Len(rv[k].elements) <= rv[k].room
  /\ Len(unknown_fields) <= n_unknown

\* A message that is returned holds what the input says: the elements of a
\* repeated field in order, packed or not; of a field that is not repeated the
\* last value; and the unknown members in order.
Given(k) == {j \in DOMAIN input : input[j].tag = k}
ElementsOf(k, j) ==
  IF input[j].tag # k THEN <<>>
  ELSE IF IsPacked(desc[k], input[j])
  THEN [i \in 1 .. Cardinality(Ends(input[j].data)) |-> <<j, i>>]
  ELSE << <<j, 1>> >>
UnknownOf(j) == IF input[j].tag = 0 THEN <<j>> ELSE <<>>
ResultExact ==
  phase = "done" =>
    /\ \A k \in Fields :
         IF desc[k].label = "repeated"
         THEN /\ rv[k].elements =
                   FlattenSeq([j \in DOMAIN input |-> ElementsOf(k, j)])
              /\ rv[k].n = Len(rv[k].elements)
         ELSE /\ IF Given(k) = {} THEN rv[k].value = 0
                 ELSE rv[k].value \in Given(k) /\ \A j \in Given(k) : j <= rv[k].value
              /\ rv[k].has <=> (HasFlag(k) /\ Given(k) # {})
    /\ unknown_fields = FlattenSeq([j \in DOMAIN input |-> UnknownOf(j)])

\* No message is refused for want of a required field that it has, although
\* fields share bits of the bitmap.
NoFalseAlarm ==
  phase = "failed" /\ f \in Fields =>
    (desc[f].label = "required" => Given(f) = {})

\* "issue error if any "required" field is missing in input stream": a message
\* that is returned has every required field.
RequiredPresent ==
  phase = "done" =>
    \A k \in Fields :
      desc[k].label = "required" /\ ~desc[k].default_value => Given(k) # {}
=============================================================================
