-------------------------------- MODULE Pack --------------------------------
(***************************************************************************)
(* Packing of a message in protobuf-c.c, in the order a program packs it:  *)
(* get_packed_size, pack into that many bytes, pack_to_buffer into a       *)
(* ProtobufCBufferSimple; then the bytes are read back.                    *)
(*                                                                         *)
(* A message has the fields of its descriptor, with their members, and its *)
(* unknown fields.  A member is a sequence: of one value, unless the field *)
(* is repeated.  A function that calls itself for the messages in a message *)
(* is a function of how many calls deep it may get and of the message; what *)
(* it calls is handed what it comes to for a nested message.               *)
(***************************************************************************)
EXTENDS WireFormat, FiniteSets

CONSTANTS Messages,        \* those to pack
          MaxDepth,        \* more than there are messages in one another
          Scratch,         \* the bytes of the program's own simple buffer
          InnerScratch     \* sizeof (simple_buffer_scratch)

VARIABLES
  msg, pc, i,      \* the message, where the program is, the field it is at
  size,            \* rv of get_packed_size
  out,             \* what pack has written
  todo,            \* what pack_to_buffer does next for the field it is at
  rv,              \* of pack_to_buffer
  buffers,         \* simple buffers: the program's, then those of the nested
                   \* messages that are being packed, on the stack
  blocks,          \* ghost: blocks on the heap
  dropped,         \* ghost: an append found no memory and returned
  asserted,        \* ghost: an assertion has failed
  got              \* what was read back

vars == <<msg, pc, i, size, out, todo, rv, buffers, blocks, dropped, asserted, got>>
packVars == <<size, out>>
bufferVars == <<todo, rv, buffers, blocks, dropped>>

Fixed32 == {"sfixed32", "fixed32", "float"}
Fixed64 == {"sfixed64", "fixed64", "double"}
Blobs   == {"string", "bytes"}

\* The wire type that is added to the tag: VARINT, 64BIT, LENGTH_PREFIXED, 32BIT.
WireType(type) ==
  CASE type \in Fixed64 -> 1
    [] type \in Blobs \cup {"message"} -> 2
    [] type \in Fixed32 -> 5
    [] OTHER -> 0

Tag(id, wire_type) == [tag_pack(id) EXCEPT ![1] = @ + wire_type]

Concat(seqs) == FlattenSeq(seqs)

\* Strings and messages are pointers: to nothing, to the default value, or to a
\* value of their own.
IsPointer(f) == f.type \in {"string", "message"}

\* Is an optional field there?
IsSet(f) == IF IsPointer(f) THEN f.ptr \notin {"null", "default"} ELSE f.has

NoMessage == [fields |-> <<>>, unknown |-> <<>>]

\* The messages in a message, and those that many messages down.
Submessages(m) == UNION {ToSet(f.values) : f \in {g \in ToSet(m.fields) : g.type = "message"}}
AtDepth[d \in 0 .. MaxDepth] ==
  IF d = 0 THEN Messages ELSE UNION {Submessages(m) : m \in AtDepth[d - 1]}
Known == UNION {AtDepth[d] : d \in 0 .. MaxDepth}
-----------------------------------------------------------------------------
(* The messages a program can have packed.                                 *)

NumberTypes == {"sint32", "int32", "uint32", "enum", "sint64", "int64", "uint64", "bool"}
                 \cup Fixed32 \cup Fixed64
Types  == NumberTypes \cup Blobs \cup {"message"}
Labels == {"required", "optional", "repeated"}

IsSeq(s) == s \in Seq(ToSet(s))

\* An int32_t is stored with its sign; other numbers are taken to their width
\* when they are packed.
IsValue(type, v) ==
  CASE type \in Blobs  -> v \in Seq(0 .. 2 * B - 1)
    [] type = "message" -> TRUE
    [] type = "int32"  -> v \in -(U32 \div 2) .. U32 \div 2 - 1
    [] OTHER -> v \in Int

IsField(f) ==
  /\ f.id \in 1 .. U32 - 1 /\ f.type \in Types /\ f.label \in Labels
  /\ f.packed => f.label = "repeated" /\ f.type \in NumberTypes
  /\ IsSeq(f.values) /\ (f.label = "repeated" \/ Len(f.values) = 1)
  /\ \A v \in ToSet(f.values) : IsValue(f.type, v)

IsUnknown(u) == u.tag \in 1 .. U32 - 1 /\ u.wire_type \in 0 .. 5 /\ u.data \in Seq(0 .. 2 * B - 1)

IsMessage(m) ==
  /\ IsSeq(m.fields) /\ IsSeq(m.unknown)
  /\ \A f \in ToSet(m.fields) : IsField(f)
  /\ \A u \in ToSet(m.unknown) : IsUnknown(u)
-----------------------------------------------------------------------------
(* get_packed_size.                                                        *)

\* The switch of required_field_get_packed_size and of the repeated one.
NumberSize(type, v) ==
  CASE type = "sint32" -> uint32_size(zigzag32(v))
    [] type = "int32"  -> int32_size(v)
    [] type \in {"uint32", "enum"} -> uint32_size(v % U32)
    [] type = "sint64" -> uint64_size(zigzag64(v))
    [] type \in {"int64", "uint64"} -> uint64_size(v % U64)
    [] type \in Fixed32 -> FixedLen
    [] type \in Fixed64 -> 2 * FixedLen
    [] type = "bool"   -> 1
ValueSize(type, v, nested) ==
  LET Prefixed(len) == uint32_size(len) + len
  IN  CASE type \in Blobs  -> Prefixed(Len(v))
        [] type = "message" -> Prefixed(nested[v])
        [] OTHER -> NumberSize(type, v)

required_field_get_packed_size(f, nested) ==
  get_tag_size(f.id) + ValueSize(f.type, f.values[1], nested)

repeated_field_get_packed_size(f, nested) ==
  LET count == Len(f.values)
      sum   == SumOf([k \in DOMAIN f.values |-> ValueSize(f.type, f.values[k], nested)])
  IN  IF count = 0 THEN 0
      ELSE IF f.packed THEN get_tag_size(f.id) + uint32_size(sum) + sum
      ELSE get_tag_size(f.id) * count + sum

FieldSize(f, nested) ==
  CASE f.label = "required" -> required_field_get_packed_size(f, nested)
    [] f.label = "optional" ->
         IF IsSet(f) THEN required_field_get_packed_size(f, nested) ELSE 0
    [] f.label = "repeated" -> repeated_field_get_packed_size(f, nested)

unknown_field_get_packed_size(u) == get_tag_size(u.tag) + Len(u.data)

MessageSize(m, nested) ==
  SumOf([k \in DOMAIN m.fields |-> FieldSize(m.fields[k], nested)])
    + SumOf([k \in DOMAIN m.unknown |-> unknown_field_get_packed_size(m.unknown[k])])

Sizes[d \in 0 .. MaxDepth] ==
  [m \in Known |-> IF d = 0 THEN 0 ELSE MessageSize(m, Sizes[d - 1])]
message_get_packed_size == Sizes[MaxDepth]

\* A message is in memory as a tree, and a program has a length for it.
ASSUME PackAssumption ==
  /\ Scratch \in Nat \ {0} /\ InnerScratch \in Nat \ {0} /\ MaxDepth \in Nat
  /\ AtDepth[MaxDepth] = {}
  /\ \A m \in Known : IsMessage(m) /\ message_get_packed_size[m] < U32
-----------------------------------------------------------------------------
(* pack.                                                                   *)

\* Room that is written later.
Room(n) == [k \in 1 .. n |-> 0]
Overwrite(s, at, bytes) ==
  [k \in DOMAIN s |-> IF k - at \in DOMAIN bytes THEN bytes[k - at] ELSE s[k]]

\* Packed one byte further on, then moved to where the length lets it begin.
prefixed_message_pack(body) ==
  Overwrite(Room(uint32_size(Len(body))) \o body, 0, uint32_pack(Len(body)))

NumberPack(type, v) ==
  CASE type = "sint32" -> uint32_pack(zigzag32(v))
    [] type = "int32"  -> int32_pack(v)
    [] type \in {"uint32", "enum"} -> uint32_pack(v % U32)
    [] type = "sint64" -> uint64_pack(zigzag64(v))
    [] type \in {"int64", "uint64"} -> uint64_pack(v % U64)
    [] type \in Fixed32 -> fixed32_pack(v % U32)
    [] type \in Fixed64 -> fixed64_pack(v % U64)
    [] type = "bool"   -> boolean_pack(v)
ValuePack(type, v, nested) ==
  CASE type \in Blobs  -> uint32_pack(Len(v)) \o v
    [] type = "message" -> prefixed_message_pack(nested[v])
    [] OTHER -> NumberPack(type, v)

required_field_pack(f, v, nested) ==
  Tag(f.id, WireType(f.type)) \o ValuePack(f.type, v, nested)

get_type_min_size(type) ==
  IF type \in Fixed32 THEN FixedLen ELSE IF type \in Fixed64 THEN 2 * FixedLen ELSE 1

Payload(f) ==
  Concat([k \in DOMAIN f.values |-> NumberPack(f.type, f.values[k])])

\* The length of the length, guessed before the numbers are packed, and in the end.
length_size_min(f) == uint32_size(get_type_min_size(f.type) * Len(f.values))
actual_length_size(f) == uint32_size(Len(Payload(f)))

\* The numbers are packed behind the room for the length and moved by one byte if
\* it turns out longer.
PackedPack(f) ==
  LET tag  == Tag(f.id, 2)
      gap  == length_size_min(f) + (IF length_size_min(f) # actual_length_size(f) THEN 1 ELSE 0)
  IN  Overwrite(tag \o Room(gap) \o Payload(f), Len(tag), uint32_pack(Len(Payload(f))))

\* "assert (actual_length_size == length_size_min + 1)"
GuessHolds(f) ==
  f.label = "repeated" /\ f.packed /\ f.values # <<>> =>
    actual_length_size(f) \in {length_size_min(f), length_size_min(f) + 1}

repeated_field_pack(f, nested) ==
  IF f.packed
  THEN IF f.values = <<>> THEN <<>> ELSE PackedPack(f)
  ELSE Concat([k \in DOMAIN f.values |-> required_field_pack(f, f.values[k], nested)])

FieldPack(f, nested) ==
  CASE f.label = "required" -> required_field_pack(f, f.values[1], nested)
    [] f.label = "optional" ->
         IF IsSet(f) THEN required_field_pack(f, f.values[1], nested) ELSE <<>>
    [] f.label = "repeated" -> repeated_field_pack(f, nested)

unknown_field_pack(u) == Tag(u.tag, u.wire_type) \o u.data

MessagePack(m, nested) ==
  Concat([k \in DOMAIN m.fields |-> FieldPack(m.fields[k], nested)])
    \o Concat([k \in DOMAIN m.unknown |-> unknown_field_pack(m.unknown[k])])

Packs[d \in 0 .. MaxDepth] ==
  [m \in Known |-> IF d = 0 THEN <<>> ELSE MessagePack(m, Packs[d - 1])]
message_pack == Packs[MaxDepth]
-----------------------------------------------------------------------------
(* pack_to_buffer: what is done for a field, one append after another.     *)

\* depth says how many messages the step is in, seen from the one whose steps
\* are put together; len is what it adds to rv there.
Appending(bytes) == [do |-> "append", depth |-> 0, bytes |-> bytes, len |-> Len(bytes)]
Opening          == [do |-> "open", depth |-> 0, bytes |-> <<>>, len |-> 0]
Joining(sublen)  == [do |-> "join", depth |-> 0, bytes |-> <<>>, len |-> sublen]
Deeper(steps)    == [k \in DOMAIN steps |-> [steps[k] EXCEPT !.depth = @ + 1]]
Returned(step)   == IF step.depth = 0 THEN step.len ELSE 0

\* What is appended for one value: the tag and a number in one piece; the bytes of
\* a string on their own.
ValueAppends(f, v) ==
  LET tag == Tag(f.id, WireType(f.type))
  IN  IF f.type \in Blobs
      THEN <<Appending(tag \o uint32_pack(Len(v))), Appending(v)>>
      ELSE <<Appending(tag \o NumberPack(f.type, v))>>

\* Mistake: negative numbers are counted as five bytes.
get_packed_payload_length_short(f) ==
  SumOf([k \in DOMAIN f.values |->
           IF f.type = "int32" THEN uint32_size(f.values[k] % U32)
           ELSE NumberSize(f.type, f.values[k])])
get_packed_payload_length(f) ==
  SumOf([k \in DOMAIN f.values |-> NumberSize(f.type, f.values[k])])

\* Numbers one by one, those of fixed length all at once.
pack_buffer_packed_payload(f) ==
  IF f.type \in Fixed32 \cup Fixed64 THEN <<Appending(Payload(f))>>
  ELSE [k \in DOMAIN f.values |-> Appending(NumberPack(f.type, f.values[k]))]

PackedAppends(f) ==
  <<Appending(Tag(f.id, 2) \o uint32_pack(get_packed_payload_length(f)))>>
    \o pack_buffer_packed_payload(f)

\* A message goes to a simple buffer of its own, of which sublen bytes are then
\* appended.
MessageAppends(f, steps) ==
  LET sublen == SumOf([k \in DOMAIN steps |-> Returned(steps[k])])
  IN  <<Opening>> \o Deeper(steps)
        \o <<Appending(Tag(f.id, 2) \o uint32_pack(sublen)), Joining(sublen)>>

RequiredAppends(f, v, nested) ==
  IF f.type = "message" THEN MessageAppends(f, nested[v]) ELSE ValueAppends(f, v)

FieldAppends(f, nested) ==
  CASE f.label = "required" -> RequiredAppends(f, f.values[1], nested)
    [] f.label = "optional" ->
         IF IsSet(f) THEN RequiredAppends(f, f.values[1], nested) ELSE <<>>
    [] f.label = "repeated" ->
         IF f.packed THEN IF f.values = <<>> THEN <<>> ELSE PackedAppends(f)
         ELSE Concat([k \in DOMAIN f.values |-> RequiredAppends(f, f.values[k], nested)])

\* Mistake: the wire type is left out.
UnknownAppends_bare(u) == <<Appending(tag_pack(u.tag)), Appending(u.data)>>
UnknownAppends(u) == <<Appending(Tag(u.tag, u.wire_type)), Appending(u.data)>>

MessageSteps(m, nested) ==
  Concat([k \in DOMAIN m.fields |-> FieldAppends(m.fields[k], nested)])
    \o Concat([k \in DOMAIN m.unknown |-> UnknownAppends(m.unknown[k])])

StepsOf[d \in 0 .. MaxDepth] ==
  [m \in Known |-> IF d = 0 THEN <<>> ELSE MessageSteps(m, StepsOf[d - 1])]
message_pack_to_buffer == StepsOf[MaxDepth]

\* "assert (tmp == payload_len)"
PayloadLengthHolds(f) ==
  f.label = "repeated" /\ f.packed => get_packed_payload_length(f) = Len(Payload(f))

\* The fields that are packed for f: it, and those of the messages in it.
Within[d \in 0 .. MaxDepth] ==
  [m \in Known |-> ToSet(m.fields) \cup
                     IF d = 0 THEN {} ELSE UNION {Within[d - 1][s] : s \in Submessages(m)}]
FieldsIn(f) ==
  {f} \cup IF f.type # "message" THEN {}
           ELSE UNION {Within[MaxDepth][m] : m \in ToSet(f.values)}
-----------------------------------------------------------------------------
(* ProtobufCBufferSimple.                                                  *)

\* PROTOBUF_C_BUFFER_SIMPLE_INIT
SimpleInit(n) == [data |-> <<>>, alloced |-> n, must_free_data |-> FALSE]

\* Mistake: doubled once.
NewAlloced_once(alloced, new_len) == alloced * 2
\* Doubled until it is enough: a length has no more than H bits.
NewAlloced(alloced, new_len) ==
  LET powers == {k \in 1 .. H : alloced * Pow2[k] >= new_len}
  IN  alloced * Pow2[CHOOSE k \in powers : \A l \in powers : k <= l]

MustGrow(b, len) == Len(b.data) + len > b.alloced

\* protobuf_c_buffer_simple_append, when there is memory.
simple_append(b, bytes) ==
  LET new_len == Len(b.data) + Len(bytes)
  IN  IF MustGrow(b, Len(bytes))
      THEN [data |-> b.data \o bytes, alloced |-> NewAlloced(b.alloced, new_len),
            must_free_data |-> TRUE]
      ELSE [b EXCEPT !.data = @ \o bytes]

\* The blocks that an append allocates less those that it frees.
BlocksOf(b, b2) == (IF b2.must_free_data THEN 1 ELSE 0) - (IF b.must_free_data THEN 1 ELSE 0)
-----------------------------------------------------------------------------
(* Reading the bytes back.                                                 *)

\* The length of what follows the tag, 0 if it is bad, and of its length prefix.
MemberLen(wire_type, data) ==
  LET fixed == IF wire_type = 1 THEN 2 * FixedLen ELSE FixedLen
  IN  CASE wire_type = 0 -> [len |-> scan_varint(data), prefix |-> 0]
        [] wire_type = 2 -> scan_length_prefixed_data(data)
        [] wire_type \in {1, 5} ->
             [len |-> IF Len(data) < fixed THEN 0 ELSE fixed, prefix |-> 0]
        [] OTHER -> [len |-> 0, prefix |-> 0]

From(s, n) == SubSeq(s, n + 1, Len(s))

\* One turn of the scan loop of protobuf_c_message_unpack: the member at the
\* beginning of data.  "used" is 0 if it is malformed.
ScanMember(data) ==
  LET Member(head, rest, body) ==
        [tag  |-> head.tag, wire_type |-> head.wire_type, prefix |-> body.prefix,
         data |-> SubSeq(rest, 1, body.len),
         used |-> IF head.len = 0 \/ body.len = 0 THEN 0 ELSE head.len + body.len]
      After(head) ==
        Member(head, From(data, head.len), MemberLen(head.wire_type, From(data, head.len)))
  IN  After(parse_tag_and_wiretype(data))

\* A number, as parse_required_member and parse_packed_repeated_member store it.
ParseNumber(type, data) ==
  CASE type \in {"int32", "uint32", "enum"} -> parse_uint32(data)
    [] type = "sint32" -> unzigzag(parse_uint32(data))
    [] type \in {"int64", "uint64"} -> parse_uint64(data)
    [] type = "sint64" -> unzigzag(parse_uint64(data))
    [] type \in Fixed32 -> parse_fixed_uint32(data)
    [] type \in Fixed64 -> parse_fixed_uint64(data)
    [] type = "bool" -> parse_boolean(data)

\* The numbers of a packed field, one after another.
ParsePacked(type, data) ==
  LET Width(rest) == CASE type \in Fixed32 -> FixedLen
                       [] type \in Fixed64 -> 2 * FixedLen
                       [] type = "bool" -> 1
                       [] OTHER -> scan_varint(rest)
      Turn(s, k) ==
        IF s.rest = <<>> \/ Width(s.rest) \notin 1 .. Len(s.rest) THEN s
        ELSE [rest   |-> From(s.rest, Width(s.rest)),
              values |-> Append(s.values,
                                ParseNumber(type, SubSeq(s.rest, 1, Width(s.rest))))]
  IN  FoldLeft(Turn, [rest |-> data, values |-> <<>>], [k \in DOMAIN data |-> k]).values

\* The field a tag stands for: the index in the message, 0 for an unknown one.
FieldOf(tag) ==
  LET S == {k \in DOMAIN msg.fields : msg.fields[k].id = tag}
  IN  IF S = {} THEN 0 ELSE CHOOSE k \in S : TRUE

\* What a member adds to the values of its field; an unknown one is kept as it is.
Parsed(member) ==
  LET f    == msg.fields[FieldOf(member.tag)]
      body == From(member.data, member.prefix)
  IN  IF FieldOf(member.tag) = 0 THEN <<[wire_type |-> member.wire_type, data |-> member.data]>>
      ELSE IF f.label = "repeated" /\ f.packed THEN ParsePacked(f.type, body)
      ELSE IF f.type \in Blobs \cup {"message"} THEN <<body>>
      ELSE <<ParseNumber(f.type, member.data)>>
-----------------------------------------------------------------------------
(* The program.                                                            *)

Fields == Len(msg.fields)
Total  == Fields + Len(msg.unknown)

\* The field or unknown field the loop is at, and the fields packed for it.
AtField   == i <= Fields
Field     == msg.fields[i]
Unknown   == msg.unknown[i - Fields]
AllFields == IF AtField THEN FieldsIn(Field) ELSE {}

Init ==
  /\ msg \in Messages
  /\ pc = "size" /\ i = 1
  /\ size = 0 /\ out = <<>> /\ todo = <<>> /\ rv = 0
  /\ buffers = <<SimpleInit(Scratch)>>
  /\ blocks = 0 /\ dropped = FALSE /\ asserted = FALSE
  /\ got = <<>>

Size ==
  /\ pc = "size" /\ i <= Total
  /\ size' = size + IF AtField THEN FieldSize(Field, message_get_packed_size)
                    ELSE unknown_field_get_packed_size(Unknown)
  /\ i' = i + 1
  /\ UNCHANGED <<msg, pc, out, bufferVars, asserted, got>>

PackItem ==
  /\ pc = "pack" /\ i <= Total
  /\ out' = out \o IF AtField THEN FieldPack(Field, message_pack)
                   ELSE unknown_field_pack(Unknown)
  /\ asserted' = (asserted \/ \E f \in AllFields : ~GuessHolds(f))
  /\ i' = i + 1
  /\ UNCHANGED <<msg, pc, size, bufferVars, got>>

\* A loop is over and the next function is called.
NextCall ==
  /\ i > Total /\ todo = <<>>
  /\ \/ pc = "size" /\ pc' = "pack"
     \/ pc = "pack" /\ pc' = "buffer"
     \/ pc = "buffer" /\ pc' = "buffered"
  /\ i' = 1
  /\ UNCHANGED <<msg, packVars, bufferVars, asserted, got>>

BufferItem ==
  /\ pc = "buffer" /\ i <= Total /\ todo = <<>>
  /\ todo' = IF AtField THEN FieldAppends(Field, message_pack_to_buffer)
             ELSE UnknownAppends(Unknown)
  /\ asserted' = (asserted \/ \E f \in AllFields : ~PayloadLengthHolds(f))
  /\ i' = i + 1
  /\ UNCHANGED <<msg, pc, packVars, rv, buffers, blocks, dropped, got>>

\* The buffer that the next step writes to.
Target == buffers[Head(todo).depth + 1]

\* b->append: it may find no memory to grow, and returns without a word.
append(b, bytes, found) == IF found THEN simple_append(b, bytes) ELSE b
MayAppend(b, bytes, found) ==
  /\ found \/ MustGrow(b, Len(bytes))
  /\ dropped' = (dropped \/ ~found)

Step(do) ==
  /\ todo # <<>> /\ Head(todo).do = do
  /\ todo' = Tail(todo)
  /\ rv' = rv + Returned(Head(todo))
  /\ UNCHANGED <<msg, pc, i, packVars, asserted, got>>

DoAppend(found) ==
  /\ Step("append")
  /\ LET bytes == Head(todo).bytes
         b     == append(Target, bytes, found)
     IN  /\ MayAppend(Target, bytes, found)
         /\ buffers' = [buffers EXCEPT ![Head(todo).depth + 1] = b]
         /\ blocks' = blocks + BlocksOf(Target, b)

OpenInner ==
  /\ Step("open")
  /\ buffers' = Append(buffers, SimpleInit(InnerScratch))
  /\ UNCHANGED <<blocks, dropped>>

\* PROTOBUF_C_BUFFER_SIMPLE_CLEAR
freed(b) == IF b.must_free_data THEN 1 ELSE 0

\* sublen bytes of the inner buffer are appended to the one around it: what was
\* dropped from it is read all the same, beyond what was written.
JoinInner(found) ==
  /\ Step("join")
  /\ LET inner == Last(buffers)
         bytes == inner.data \o Room(Head(todo).len - Len(inner.data))
         b     == append(Target, bytes, found)
     IN  /\ MayAppend(Target, bytes, found)
         /\ buffers' = Append(SubSeq(buffers, 1, Len(buffers) - 2), b)
         /\ blocks' = blocks + BlocksOf(Target, b) - freed(inner)

\* The program is done with its buffer and clears it.
Clear ==
  /\ pc = "buffered"
  /\ blocks' = blocks - freed(buffers[1])
  /\ pc' = "read"
  /\ UNCHANGED <<msg, i, packVars, todo, rv, buffers, dropped, asserted, got>>

\* i is the place in the bytes that were packed.
ReadMember ==
  /\ pc = "read" /\ i <= Len(out)
  /\ \E member \in {ScanMember(From(out, i - 1))} :
       IF member.used = 0
       THEN pc' = "malformed" /\ UNCHANGED <<i, got>>
       ELSE /\ got' = Append(got, [tag |-> member.tag, values |-> Parsed(member)])
            /\ i' = i + member.used
            /\ UNCHANGED pc
  /\ UNCHANGED <<msg, packVars, bufferVars, asserted>>

EndOfInput ==
  /\ pc = "read" /\ i > Len(out)
  /\ pc' = "done"
  /\ UNCHANGED <<msg, i, packVars, bufferVars, asserted, got>>

Next ==
  \/ Size \/ PackItem \/ NextCall
  \/ BufferItem \/ (\E found \in BOOLEAN : DoAppend(found) \/ JoinInner(found))
  \/ OpenInner \/ Clear
  \/ ReadMember \/ EndOfInput

Spec == Init /\ [][Next]_vars
-----------------------------------------------------------------------------
TypeOK ==
  /\ msg \in Messages
  /\ pc \in {"size", "pack", "buffer", "buffered", "read", "malformed", "done"}
  /\ i \in Nat \ {0} /\ size \in Nat /\ rv \in Nat
  /\ \A bytes \in {out} \cup {b.data : b \in ToSet(buffers)} :
       \A k \in DOMAIN bytes : bytes[k] \in 0 .. 2 * B - 1
  /\ \A b \in ToSet(buffers) : b.alloced \in Nat
  /\ blocks \in 0 .. Len(buffers)
  /\ dropped \in BOOLEAN /\ asserted \in BOOLEAN

\* A program gives pack as much memory as get_packed_size says: pack never writes
\* more than that and in the end exactly that, for numbers at every boundary of
\* the encoding, moved lengths and nested messages.
SizeExact ==
  /\ pc # "size" => Len(out) <= size
  /\ pc \notin {"size", "pack"} => Len(out) = size

\* "assert (actual_length_size == length_size_min + 1)" and
\* "assert (tmp == payload_len)" hold: the length of a packed field is guessed
\* from its count and is never off by more than a byte.
AssertionsHold == ~asserted

\* pack_to_buffer returns the packed size and, unless an append found no memory,
\* has appended the very bytes that pack writes.
BufferAgrees ==
  pc = "buffered" => rv = size /\ (~dropped => buffers[1].data = out)

\* A simple buffer never holds more than was allocated for it, and what it
\* allocated is freed in the end, after an append without memory too; the
\* variables keep their types.
BufferSound ==
  /\ TypeOK
  /\ \A b \in ToSet(buffers) : Len(b.data) <= b.alloced
  /\ pc \in {"read", "malformed", "done"} => blocks = 0

\* What a member reads as again: numbers without their sign where the code stores
\* them so, any true value as 1, a message as its bytes.
AsRead(f, v) ==
  CASE f.type \in {"int32", "uint32", "enum"} \cup Fixed32 -> v % U32
    [] f.type \in {"int64", "uint64"} \cup Fixed64 -> v % U64
    [] f.type = "bool" -> IF v # 0 THEN 1 ELSE 0
    [] f.type = "message" -> message_pack[v]
    [] OTHER -> v

\* The values a message says, by its tags.
Said(tag) ==
  IF FieldOf(tag) = 0
  THEN LET us == SelectSeq(msg.unknown, LAMBDA u : u.tag = tag)
       IN  [k \in DOMAIN us |-> [wire_type |-> us[k].wire_type, data |-> us[k].data]]
  ELSE LET f == msg.fields[FieldOf(tag)]
       IN  IF f.label = "optional" /\ ~IsSet(f) THEN <<>>
           ELSE [k \in DOMAIN f.values |-> AsRead(f, f.values[k])]

\* Every value that was packed is read back as it was, for every tag, those of
\* unknown fields included, and in the order of a repeated field; nothing else is.
RoundTrip ==
  /\ pc # "malformed"
  /\ pc = "done" =>
       \A tag \in {msg.fields[k].id : k \in DOMAIN msg.fields}
                    \cup {msg.unknown[k].tag : k \in DOMAIN msg.unknown}
                    \cup {got[k].tag : k \in DOMAIN got} :
         LET members == SelectSeq(got, LAMBDA m : m.tag = tag)
         IN  Concat([k \in DOMAIN members |-> members[k].values]) = Said(tag)
=============================================================================
