------------------------------- MODULE Lookups ------------------------------
(***************************************************************************)
(* Looking things up in the descriptors of enums, messages and services:   *)
(* the tables that protoc-c writes into the generated code (c_enum.cc,     *)
(* c_message.cc, c_service.cc, c_helpers.cc) and the searches in them      *)
(* (protobuf-c.c).                                                         *)
(*                                                                         *)
(* What is declared is a sequence of names and numbers, in the order of    *)
(* the .proto file.  A name is a number that says where strcmp puts it.    *)
(* An int has as many values as Ints; its arithmetic wraps around, where   *)
(* it does not overflow.  Indices begin with 0, as in the code.            *)
(***************************************************************************)
EXTENDS Integers, Sequences, FiniteSets

CONSTANTS IntBits,        \* the bits of an int
          Declarations,   \* [kind, items]: enums, messages and services
          Numbers, Names  \* what is looked up

Modulus  == 2 ^ IntBits
IntMax   == Modulus \div 2 - 1
IntMin   == -(Modulus \div 2)

ASSUME LookupAssumption ==
  /\ IntBits \in Nat \ {0, 1}
  /\ Modulus \in Nat \ {0} /\ Modulus % 2 = 0

\* What protoc has accepted: the names in a declaration differ, and so do the
\* numbers of fields.  Those of an enum may be repeated.
ASSUME DeclarationsAssumption ==
  \A d \in Declarations :
    /\ d.kind \in {"enum", "message", "service"}
    /\ d.items \in Seq([name : Int, number : IntMin .. IntMax])
    /\ \A j, k \in DOMAIN d.items : j # k =>
         /\ d.items[j].name # d.items[k].name
         /\ d.kind = "message" => d.items[j].number # d.items[k].number

ASSUME KeysAssumption == Numbers \subseteq IntMin .. IntMax /\ Names \subseteq Int

Unsigned(v) == v % Modulus
ToInt(v)    == ((v - IntMin) % Modulus) + IntMin

VARIABLES
  declared,          \* what is in the .proto file
  entries, ranges, names,   \* the tables of the generated code
  pc,                \* "generate", "idle", or what is being looked up
  key, start, n,     \* the arguments and variables of the search
  result             \* the index returned, None for -1 and NULL

tables == <<declared, entries, ranges, names>>
lookupVars == <<tables, pc, key, start, n, result>>

None == -1
-----------------------------------------------------------------------------
(* The generator.                                                          *)

\* qsort, where no two are equal: each goes behind those that are less.
SortedBy(Less(_, _), seq) ==
  [i \in DOMAIN seq |->
     seq[CHOOSE x \in DOMAIN seq :
           Cardinality({y \in DOMAIN seq : Less(seq[y], seq[x])}) = i - 1]]

\* compare_value_indices_by_value_then_index, compare_pfields_by_number
ByNumber(items) ==
  SortedBy(LAMBDA a, b : a.number < b.number \/ (a.number = b.number /\ a.index < b.index),
           [j \in DOMAIN items |->
              [name |-> items[j].name, number |-> items[j].number, index |-> j - 1]])

\* Where the j-th goes in the array of numbers without repetitions.
final_index(sorted, j) == Cardinality({sorted[k].number : k \in 1 .. j}) - 1

\* The array of values of an enum, of fields of a message, or of methods.
Entries(d) ==
  LET sorted == ByNumber(d.items)
      first  == {j \in DOMAIN sorted : \A k \in 1 .. j - 1 : sorted[k].number # sorted[j].number}
  IN  IF d.kind = "service" THEN d.items
      ELSE [x \in 1 .. Cardinality(first) |->
              sorted[CHOOSE j \in first : final_index(sorted, j) = x - 1]]

IntRange(start_value, orig_index) == [start_value |-> ToInt(start_value), orig_index |-> orig_index]

\* Mistake: a gap of one number is overlooked.
JoinsRange_gap(last_value, number) == Unsigned(number - last_value) \in {1, 2}
JoinsRange(last_value, number) == Unsigned(last_value + 1) = Unsigned(number)

\* The ranges of an enum: one pass that keeps the range it is in; repetitions are
\* skipped.  A sentinel says how many values there are.
EnumTurn(s, number) ==
  IF number = s.last THEN s
  ELSE IF JoinsRange(s.last, number)
  THEN [s EXCEPT !.len = @ + 1, !.last = number]
  ELSE [out   |-> Append(s.out, IntRange(s.value, s.start)), value |-> number,
        start |-> s.start + s.len, len |-> 1, last |-> number]

EnumRanges(sorted) ==
  LET turns == Len(sorted) - 1
      state[i \in 0 .. turns] ==
        IF i = 0 THEN [out |-> <<>>, value |-> sorted[1].number, start |-> 0,
                       len |-> 1, last |-> sorted[1].number]
        ELSE EnumTurn(state[i - 1], sorted[i + 1].number)
      end == state[turns]
  IN  end.out \o <<IntRange(end.value, end.start), IntRange(0, end.start + end.len)>>

\* The ranges of a message, WriteIntRanges: a range is written when its end is
\* found, its start counted back from there.
Written(values, i, last_range_start) ==
  IntRange((values[i] + 1) - (i - last_range_start), last_range_start)

RangeTurn(values, s, i) ==
  IF JoinsRange(values[i], values[i + 1]) THEN s
  ELSE [out |-> Append(s.out, Written(values, i, s.start)), start |-> i]

WriteIntRanges(values) ==
  LET turns == Len(values) - 1
      state[i \in 0 .. turns] ==
        IF i = 0 THEN [out |-> <<>>, start |-> 0] ELSE RangeTurn(values, state[i - 1], i)
      end == state[turns]
  IN  end.out \o <<Written(values, Len(values), end.start), IntRange(0, Len(values))>>

\* What is written for the declaration d; nothing for nothing.
Ranges(d) ==
  LET sorted == ByNumber(d.items)
  IN  IF d.items = <<>> THEN <<>>
      ELSE IF d.kind = "enum" THEN EnumRanges(sorted)
      ELSE WriteIntRanges([j \in DOMAIN sorted |-> sorted[j].number])

\* Mistake: repetitions are counted.
NameTable_all(d) ==
  LET sorted  == ByNumber(d.items)
      item(j) == IF d.kind = "service" THEN d.items[j] ELSE sorted[j]
  IN  SortedBy(LAMBDA a, b : a.name < b.name,
               [j \in DOMAIN d.items |-> [name |-> item(j).name, index |-> j - 1]])

\* values_by_name, fields_sorted_by_name, method_indices_by_name: where the
\* entry of each name is.
NameTable(d) ==
  LET sorted == ByNumber(d.items)
      index(j) == IF d.kind = "service" THEN j - 1 ELSE final_index(sorted, j)
      item(j)  == IF d.kind = "service" THEN d.items[j] ELSE sorted[j]
  IN  SortedBy(LAMBDA a, b : a.name < b.name,
               [j \in DOMAIN d.items |-> [name |-> item(j).name, index |-> index(j)]])
-----------------------------------------------------------------------------
(* The searches.                                                           *)

LookupInit ==
  /\ declared \in Declarations
  /\ entries = <<>> /\ ranges = <<>> /\ names = <<>>
  /\ pc = "generate" /\ key = 0 /\ start = 0 /\ n = 0 /\ result = None

\* protoc-c writes the tables.
Generate ==
  /\ pc = "generate"
  /\ entries' = Entries(declared)
  /\ ranges' = Ranges(declared)
  /\ names' = NameTable(declared)
  /\ pc' = "idle"
  /\ UNCHANGED <<declared, key, start, n, result>>

\* The sentinel is not counted.
n_ranges == IF ranges = <<>> THEN 0 ELSE Len(ranges) - 1

Search(what, k, count) ==
  /\ pc = "idle"
  /\ pc' = what /\ key' = k
  /\ start' = 0 /\ n' = count /\ result' = None
  /\ UNCHANGED tables

\* enum_descriptor_get_value, message_descriptor_get_field, and the unpacker.
GetByNumber(k) ==
  /\ declared.kind # "service"
  /\ Search("number", k, n_ranges)

\* get_value_by_name, get_field_by_name, get_method_by_name.
GetByName(k) == Search("name", k, Len(names))

Return(index) ==
  /\ pc' = "idle" /\ result' = index
  /\ key' = 0 /\ start' = 0 /\ n' = 0
  /\ UNCHANGED tables

mid == start + n \div 2

\* Mistake: the middle is looked at again.
GoLeft_again == n' = mid - start + 1 /\ UNCHANGED <<tables, pc, key, start, result>>
GoLeft == n' = mid - start /\ UNCHANGED <<tables, pc, key, start, result>>

\* Mistake: off by one.
GoRight_over == /\ start' = mid + 1 /\ n' = start + n - mid
                /\ UNCHANGED <<tables, pc, key, result>>
GoRight == /\ start' = mid + 1 /\ n' = start + n - (mid + 1)
           /\ UNCHANGED <<tables, pc, key, result>>

\* ranges[i], ranges[i+1]
RangeAt(i) == ranges[i + 1]
SizeAt(i)  == RangeAt(i + 1).orig_index - RangeAt(i).orig_index
Within(i)  == (key - RangeAt(i).start_value) + RangeAt(i).orig_index

\* The sum of two ints: when it overflows, the build may wrap it around or not.
Sums(a, b) == IF a + b <= IntMax THEN {a + b} ELSE {a + b, ToInt(a + b)}

\* int_range_lookup, while (n > 1)
ProbeRange ==
  /\ pc = "number" /\ n > 1
  /\ \E end \in Sums(RangeAt(mid).start_value, SizeAt(mid)) :
       \/ key < RangeAt(mid).start_value /\ GoLeft
       \/ key >= RangeAt(mid).start_value /\ key >= end /\ GoRight
       \/ key >= RangeAt(mid).start_value /\ key < end /\ Return(Within(mid))

\* The last range, if there is one.
LastRange ==
  /\ pc = "number" /\ n <= 1
  /\ Return(IF /\ n = 1
               /\ RangeAt(start).start_value <= key
               /\ key < ToInt(RangeAt(start).start_value + SizeAt(start))
            THEN Within(start) ELSE None)

NameAt(i) == names[i + 1]

\* The searches by name, while (count > 1)
ProbeName ==
  /\ pc = "name" /\ n > 1
  /\ \/ NameAt(mid).name = key /\ Return(NameAt(mid).index)
     \/ NameAt(mid).name < key /\ GoRight
     \/ NameAt(mid).name > key /\ GoLeft

LastName ==
  /\ pc = "name" /\ n <= 1
  /\ Return(IF n = 1 /\ NameAt(start).name = key THEN NameAt(start).index ELSE None)

Step == ProbeRange \/ LastRange \/ ProbeName \/ LastName

LookupNext == Generate \/ (\E k \in Numbers : GetByNumber(k)) \/ (\E k \in Names : GetByName(k)) \/ Step

LookupSpec == LookupInit /\ [][LookupNext]_lookupVars

\* A search runs to its end.
FairSpec == LookupSpec /\ WF_lookupVars(Step)
-----------------------------------------------------------------------------
LookupTypeOK ==
  /\ pc \in {"generate", "idle", "number", "name"}
  /\ start \in Nat /\ n \in Nat
  /\ result \in None .. Len(declared.items) - 1

\* A search never looks beyond its table; at the end of the ranges there is the
\* sentinel.  It returns None or an index of what was declared.
InTable ==
  /\ LookupTypeOK
  /\ pc = "number" => start + n <= n_ranges
  /\ pc = "name" => start + n <= Len(names)

\* What has been declared.
DeclaredNumbers == {declared.items[j].number : j \in DOMAIN declared.items}
NumberOf(name) ==
  {declared.items[j].number : j \in {i \in DOMAIN declared.items : declared.items[i].name = name}}

\* A number that was declared is found in the generated tables, at its own entry,
\* and no other number is; aliases and gaps in the numbering do not matter.  An
\* enum with the value INT_MAX is left out: the end of its last range overflows
\* and the numbers in it are not found.
NumberFound ==
  [][pc = "number" /\ pc' = "idle" /\ IntMax \notin DeclaredNumbers =>
       IF key \in DeclaredNumbers
       THEN result' + 1 \in DOMAIN entries /\ entries[result' + 1].number = key
       ELSE result' = None]_lookupVars

\* A name that was declared leads to the entry with its number, and no other name
\* leads anywhere.
NameFound ==
  [][pc = "name" /\ pc' = "idle" =>
       IF NumberOf(key) # {}
       THEN result' + 1 \in DOMAIN entries /\ entries[result' + 1].number \in NumberOf(key)
       ELSE result' = None]_lookupVars

\* Every search ends.
SearchEnds == pc \in {"number", "name"} ~> pc = "idle"
=============================================================================
