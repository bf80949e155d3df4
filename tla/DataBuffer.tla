----------------------------- MODULE DataBuffer -----------------------------
(***************************************************************************)
(* protobuf-c-data-buffer.c: a byte queue as a list of fragments of fixed  *)
(* size, each with a part that has been read already, a valid part and a   *)
(* part that is still free.  Buffers exchange whole fragments.             *)
(*                                                                         *)
(* A fragment's "mem" is what has been written into it, bytes that have    *)
(* been read included, so buf_length is Len(mem) - buf_start.  The list is *)
(* a sequence: first_frag is its first element and last_frag its last.     *)
(***************************************************************************)
EXTENDS Integers, Sequences, SequencesExt

CONSTANTS Bytes, Nul, Newline,
          UCHAR_MAX, CHAR_MAX,  \* limits.h; CHAR_MAX is the smaller one if char is signed
          Buffers,
          FRAGMENT_DATA_SIZE,
          MAX_FRAGMENTS_TO_WRITE,
          MaxLength,            \* bound: bytes one operation appends or removes
          MaxSize               \* bound: bytes in any two buffers together

ASSUME BufferAssumption ==
  /\ UCHAR_MAX \in Nat /\ CHAR_MAX \in 0 .. UCHAR_MAX
  /\ Bytes \subseteq 0 .. UCHAR_MAX /\ Nul \in Bytes
  /\ FRAGMENT_DATA_SIZE \in Nat \ {0} /\ MAX_FRAGMENTS_TO_WRITE \in Nat \ {0}
  /\ MaxLength \in Nat /\ MaxSize \in Nat

VARIABLES frags, size,
          last              \* the latest operation, as in ByteQueue

vars == <<frags, size, last>>

Fragment == [mem : Seq(Bytes), buf_start : Nat]

buf_length(f) == Len(f.mem) - f.buf_start
\* Mistake: the bytes already read are taken for free space at the end.
fragment_avail_of_length(f) == FRAGMENT_DATA_SIZE - buf_length(f)

fragment_avail(f) == FRAGMENT_DATA_SIZE - Len(f.mem)
Valid(f) == SubSeq(f.mem, f.buf_start + 1, Len(f.mem))

\* The valid bytes of a list of fragments, and their number.
Content(fs) == FlattenSeq([i \in DOMAIN fs |-> Valid(fs[i])])
Total(fs)   ==
  LET upTo[k \in 0 .. Len(fs)] ==
        IF k = 0 THEN 0 ELSE upTo[k - 1] + buf_length(fs[k])
  IN  upTo[Len(fs)]

TypeOK ==
  /\ frags \in [Buffers -> Seq(Fragment)]
  /\ size \in [Buffers -> Nat]
  /\ last.op \in {"init", "append", "read", "discard", "read_line", "parse_string0",
                  "writev", "writev_len", "reset", "transfer"}

Op(op, b, arg, out) == [op |-> op, buffer |-> b, arg |-> arg, out |-> out]

Init ==
  /\ frags = [b \in Buffers |-> <<>>]
  /\ size = [b \in Buffers |-> 0]
  /\ last = [op |-> "init"]

Smaller(m, n) == IF m < n THEN m ELSE n

\* new_native_fragment, filled by append's loop.
NewFragment(data) == [mem |-> data, buf_start |-> 0]
-----------------------------------------------------------------------------
(* Appending.                                                              *)

\* The loop of append: fill what is left of the last fragment, then new ones.
append(fs, data) ==
  LET room == IF fs = <<>> THEN 0 ELSE fragment_avail(Last(fs))
      k    == Smaller(room, Len(data))
      rest == SubSeq(data, k + 1, Len(data))
      n    == (Len(rest) + FRAGMENT_DATA_SIZE - 1) \div FRAGMENT_DATA_SIZE
      old  == IF k = 0 THEN fs
              ELSE [fs EXCEPT ![Len(fs)].mem = @ \o SubSeq(data, 1, k)]
  IN  old \o [i \in 1 .. n |->
                NewFragment(SubSeq(rest, (i - 1) * FRAGMENT_DATA_SIZE + 1,
                                   Smaller(i * FRAGMENT_DATA_SIZE, Len(rest))))]

\* The bound: no two buffers hold more than MaxSize bytes together.
WithinBounds(n) ==
  \A b, c \in Buffers : (IF b = c THEN size[b] ELSE size[b] + size[c]) + n <= MaxSize

\* append and append_char.
AppendData(b, data) ==
  /\ WithinBounds(Len(data))
  /\ size' = [size EXCEPT ![b] = @ + Len(data)]
  /\ frags' = [frags EXCEPT ![b] = append(@, data)]
  /\ last' = Op("append", b, data, <<>>)

\* append_repeated_char: the same loop, with memset for memcpy.
AppendRepeatedChar(b, character, count) ==
  AppendData(b, [i \in 1 .. count |-> character])

\* append_string, and append_string0 with its terminating NUL.
AppendString(b, string) ==
  AppendData(b, string) \/ AppendData(b, Append(string, Nul))

\* read_in_fd: what read() returned; an error leaves the buffer alone.
ReadInFd(b, buf) == AppendData(b, buf)
-----------------------------------------------------------------------------
(* Removing.                                                               *)

\* The loop shared by read, discard and peek stops at fragment k + 1, with
\* n - Total(first k) bytes to go: none, fewer than it holds, or no fragment.
WholeFragments(fs, n) ==
  CHOOSE k \in 0 .. Len(fs) :
    LET Stops(j) == LET left == n - Total(SubSeq(fs, 1, j))
                    IN  \/ j = Len(fs)
                        \/ left = 0
                        \/ buf_length(fs[j + 1]) > left
    IN  Stops(k) /\ \A j \in 0 .. k - 1 : ~Stops(j)

\* The bytes it copies.
peek(fs, n) ==
  LET k     == WholeFragments(fs, n)
      whole == SubSeq(fs, 1, k)
  IN  Content(whole) \o
        (IF k = Len(fs) THEN <<>>
         ELSE SubSeq(Valid(fs[k + 1]), 1, n - Total(whole)))

\* Mistake: the new start does not count from the old one.
discard_from_zero(fs, n) ==
  LET k    == WholeFragments(fs, n)
      rest == SubSeq(fs, k + 1, Len(fs))
  IN  IF rest = <<>> THEN rest
      ELSE [rest EXCEPT ![1].buf_start = n - Total(SubSeq(fs, 1, k))]

\* What is left: whole fragments are freed, the next one is shortened.
discard(fs, n) ==
  LET k    == WholeFragments(fs, n)
      rest == SubSeq(fs, k + 1, Len(fs))
  IN  IF rest = <<>> THEN rest
      ELSE [rest EXCEPT ![1].buf_start = @ + n - Total(SubSeq(fs, 1, k))]

\* Remove n bytes, at most what is there, and hand out "out".
RemoveBytes(op, b, arg, n, out) ==
  /\ frags' = [frags EXCEPT ![b] = discard(@, n)]
  /\ size' = [size EXCEPT ![b] = @ - Len(peek(frags[b], n))]
  /\ last' = Op(op, b, arg, out)

\* read and read_char; discard.
Read(b, max_length) ==
  RemoveBytes("read", b, <<max_length>>, max_length, peek(frags[b], max_length))

Discard(b, max_discard) ==
  RemoveBytes("discard", b, <<max_discard>>, max_discard, peek(frags[b], max_discard))

\* The first occurrence of c: the fragments before it, and memchr within.
index_of(fs, c) ==
  LET hits == {i \in DOMAIN fs : Contains(Valid(fs[i]), c)}
      i    == CHOOSE j \in hits : \A k \in hits : j <= k
  IN  IF hits = {} THEN -1
      ELSE Total(SubSeq(fs, 1, i - 1)) + SelectInSeq(Valid(fs[i]), LAMBDA x : x = c) - 1

\* read_line returns NULL and changes nothing when there is no newline.
ReadLine(b) ==
  LET len == index_of(frags[b], Newline)
  IN  /\ len >= 0
      /\ RemoveBytes("read_line", b, <<>>, len + 1,
                SubSeq(peek(frags[b], len + 1), 1, len))

ParseString0(b) ==
  LET index0 == index_of(frags[b], Nul)
  IN  /\ index0 >= 0
      /\ RemoveBytes("parse_string0", b, <<>>, index0 + 1, peek(frags[b], index0 + 1))
-----------------------------------------------------------------------------
(* Writing to a descriptor.  The kernel takes a prefix of the iovector, of *)
(* any length; an error changes nothing.                                   *)

writev_iov(fs) == Content(SubSeq(fs, 1, Smaller(Len(fs), MAX_FRAGMENTS_TO_WRITE)))

Writev(b) ==
  \E rv \in 0 .. Len(writev_iov(frags[b])) :
    RemoveBytes("writev", b, <<>>, rv, SubSeq(writev_iov(frags[b]), 1, rv))

\* Fragments until max_bytes are reached, and no more bytes than that.
writev_len_iov(fs, max_bytes) ==
  LET enough == {k \in 0 .. Len(fs) : \/ Total(SubSeq(fs, 1, k)) >= max_bytes
                                      \/ k = Len(fs)
                                      \/ k = MAX_FRAGMENTS_TO_WRITE}
      nfrag  == CHOOSE k \in enough : \A j \in enough : k <= j
      iov    == Content(SubSeq(fs, 1, nfrag))
  IN  SubSeq(iov, 1, Smaller(Len(iov), max_bytes))

WritevLen(b, max_bytes) ==
  \E rv \in 0 .. Len(writev_len_iov(frags[b], max_bytes)) :
    RemoveBytes("writev_len", b, <<max_bytes>>, rv,
           SubSeq(writev_len_iov(frags[b], max_bytes), 1, rv))
-----------------------------------------------------------------------------
(* Whole buffers.                                                          *)

\* reset; also clear, after which the buffer is thrown away or initialised.
Reset(b) ==
  /\ frags' = [frags EXCEPT ![b] = <<>>]
  /\ size' = [size EXCEPT ![b] = 0]
  /\ last' = Op("reset", b, <<>>, <<>>)

Drain(dst, src) ==
  /\ frags' = [frags EXCEPT ![dst] = @ \o frags[src], ![src] = <<>>]
  /\ size' = [size EXCEPT ![dst] = @ + size[src], ![src] = 0]
  /\ last' = Op("transfer", dst, <<size[src]>>, <<>>)

\* How many fragments transfer moves: each one that fits, an empty one too.
MovedFragments(fs, max_transfer) ==
  CHOOSE k \in 0 .. Len(fs) :
    /\ Total(SubSeq(fs, 1, k)) <= max_transfer
    /\ k < Len(fs) => Total(SubSeq(fs, 1, k + 1)) > max_transfer

\* They go over as they are; part of the next one is copied.
Transfer(dst, src, max_transfer) ==
  LET k     == MovedFragments(frags[src], max_transfer)
      moved == SubSeq(frags[src], 1, k)
      rest  == SubSeq(frags[src], k + 1, Len(frags[src]))
      part  == max_transfer - Total(moved)
      copy  == rest # <<>> /\ part > 0
      rv    == IF copy THEN max_transfer ELSE Total(moved)
  IN  /\ frags' = [frags EXCEPT
           ![dst] = IF copy THEN append(@ \o moved, SubSeq(Valid(rest[1]), 1, part))
                    ELSE @ \o moved,
           ![src] = IF copy THEN [rest EXCEPT ![1].buf_start = @ + part] ELSE rest]
      /\ size' = [size EXCEPT ![dst] = @ + rv, ![src] = @ - rv]
      /\ last' = Op("transfer", dst, <<max_transfer>>, <<>>)

\* Mistake: a candidate that reaches the end of its fragment goes on at the
\* start of that fragment.
SearchWindow_same(fs, j, i) ==
  SubSeq(fs[j].mem, i, buf_length(fs[j])) \o Content(SubSeq(fs, j, Len(fs)))

\* One frame of the search in str_index_of: from byte i of fragment j on.  The
\* candidate position counts from the start of mem, not from buf_start; the
\* fragments after it are looked at from buf_start.
SearchWindow(fs, j, i) ==
  SubSeq(fs[j].mem, i, buf_length(fs[j])) \o Content(SubSeq(fs, j + 1, Len(fs)))

\* A byte read as a plain char, and a string as the comparison sees it: its chars
\* against the uint8_t of the buffer, both made ints.
as_char(c) == IF c <= CHAR_MAX THEN c ELSE c - (UCHAR_MAX + 1)
Chars(str) == [k \in DOMAIN str |-> as_char(str[k])]

str_index_of(fs, str) ==
  LET At(j, i) == Total(SubSeq(fs, 1, j - 1)) + i - 1
      hits == UNION {{At(j, i) : i \in {i \in 1 .. buf_length(fs[j]) :
                        IsPrefix(Chars(str), SearchWindow(fs, j, i))}} : j \in DOMAIN fs}
  IN  IF hits = {} THEN -1 ELSE CHOOSE h \in hits : \A g \in hits : h <= g

Next ==
  \E b \in Buffers :
    \/ \E data \in BoundedSeq(Bytes, MaxLength) :
         AppendData(b, data) \/ ReadInFd(b, data)
    \/ \E string \in BoundedSeq(Bytes \ {Nul}, MaxLength - 1) :
         AppendString(b, string)
    \/ \E c \in Bytes, count \in 1 .. MaxLength : AppendRepeatedChar(b, c, count)
    \/ \E n \in 1 .. MaxLength : Read(b, n) \/ Discard(b, n) \/ WritevLen(b, n)
    \/ ReadLine(b) \/ ParseString0(b) \/ Writev(b) \/ Reset(b)
    \/ \E src \in Buffers \ {b} :
         Drain(b, src) \/ \E n \in 0 .. MaxLength : Transfer(b, src, n)

Spec == Init /\ [][Next]_vars
-----------------------------------------------------------------------------
\* Every buffer is a byte queue: whatever the operations do to the fragments,
\* bytes leave in the order they came, none is lost or repeated, and each
\* operation takes as many as it was asked to.
Queue == INSTANCE ByteQueue WITH contents <- [b \in Buffers |-> Content(frags[b])]
IsByteQueue == Queue!QueueSpec

\* verify_buffer, which the build leaves out: size is what the fragments hold.
\* The RPC code trusts it to tell whether a message has arrived completely.
SizeExact == \A b \in Buffers : size[b] = Total(frags[b])

\* No fragment overflows and none is empty.  An empty one at the head would
\* make writev write nothing for ever.
FragmentsSound ==
  \A b \in Buffers : \A i \in DOMAIN frags[b] :
    /\ Len(frags[b][i].mem) <= FRAGMENT_DATA_SIZE
    /\ frags[b][i].buf_start < Len(frags[b][i].mem)

\* After every operation on two buffers, whole or partial, the fragments are
\* sound and size is exact; the variables keep their types.
BuffersSound == TypeOK /\ SizeExact /\ FragmentsSound

\* Where a string occurs, and the index the doc comment promises: that of the
\* first place, or -1.
Occurrences(s, str) ==
  {h \in 0 .. Len(s) - 1 : IsPrefix(str, SubSeq(s, h + 1, Len(s)))}
IndexIn(s, str) ==
  LET occ == Occurrences(s, str)
  IN  IF occ = {} THEN -1 ELSE CHOOSE h \in occ : \A g \in occ : h <= g

Strings    == BoundedSeq(Bytes \ {Nul}, 3) \ {<<>>}
Plain(str) == \A k \in DOMAIN str : str[k] <= CHAR_MAX

\* Only the first fragment may have been read in part.
ReadInFirst(fs) == \A i \in DOMAIN fs : i > 1 => fs[i].buf_start = 0

\* As many bytes as each fragment has left, but from the start of its memory: the
\* buffer itself, if nothing of it has been read.
Seen(fs) ==
  [i \in DOMAIN fs |-> NewFragment(SubSeq(fs[i].mem, 1, buf_length(fs[i])))]

\* What str_index_of keeps of "its index in the buffer, or -1".  In a buffer that
\* has not been read in part, a string of chars that are not negative is found at
\* the first place where it occurs, also across the ends of fragments.  If the
\* first fragment has been read in part, the search takes the bytes at the start of
\* its memory for those that are left.  A string with a negative char is never
\* found.
StringFound ==
  \A b \in Buffers : \A str \in Strings :
    ReadInFirst(frags[b]) =>
      str_index_of(frags[b], str) =
        IF Plain(str) THEN IndexIn(Content(Seen(frags[b])), str) ELSE -1
=============================================================================
