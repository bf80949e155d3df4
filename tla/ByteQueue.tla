------------------------------ MODULE ByteQueue -----------------------------
(***************************************************************************)
(* What a set of data buffers promises: each is a queue of bytes.  "last"  *)
(* is the latest operation with its argument and what it handed out.       *)
(***************************************************************************)
EXTENDS Integers, Sequences, SequencesExt

CONSTANTS Bytes, Buffers, MaxLength, Nul, Newline

VARIABLES contents, last

queueVars == <<contents, last>>

Op(op, b, arg, out) == [op |-> op, buffer |-> b, arg |-> arg, out |-> out]

\* The first n bytes of s, all of it when it is shorter; and the rest.
First(s, n) == SubSeq(s, 1, IF n < Len(s) THEN n ELSE Len(s))
After(s, n) == SubSeq(s, n + 1, Len(s))

\* Where c occurs first in s, counted from 0; -1 when it does not.
IndexOf(s, c) == SelectInSeq(s, LAMBDA x : x = c) - 1

Lengths == 1 .. MaxLength
Strings == BoundedSeq(Bytes, MaxLength)

QueueInit == /\ contents = [b \in Buffers |-> <<>>]
             /\ last = [op |-> "init"]

Put(b, data) ==
  /\ last' = Op("append", b, data, <<>>)
  /\ contents' = [contents EXCEPT ![b] = @ \o data]

\* Take n bytes off the front.
Take(op, b, arg, n) ==
  /\ last' = Op(op, b, arg, First(contents[b], n))
  /\ contents' = [contents EXCEPT ![b] = After(@, n)]

\* A line and a string come without and with their terminator.
ReadLine(b) ==
  LET n == IndexOf(contents[b], Newline)
  IN  /\ n >= 0
      /\ last' = Op("read_line", b, <<>>, First(contents[b], n))
      /\ contents' = [contents EXCEPT ![b] = After(@, n + 1)]

ParseString0(b) ==
  LET n == IndexOf(contents[b], Nul)
  IN  n >= 0 /\ Take("parse_string0", b, <<>>, n + 1)

\* A write hands out a prefix, as long as the kernel and the limit allow.
Write(op, b, arg, limit) ==
  \E n \in 0 .. limit : n <= Len(contents[b]) /\ Take(op, b, arg, n)

Reset(b) ==
  /\ last' = Op("reset", b, <<>>, <<>>)
  /\ contents' = [contents EXCEPT ![b] = <<>>]

Transfer(dst, src, n) ==
  /\ last' = Op("transfer", dst, <<n>>, <<>>)
  /\ contents' = [contents EXCEPT ![dst] = @ \o First(contents[src], n),
                                  ![src] = After(@, n)]

QueueNext ==
  \E b \in Buffers :
    \/ \E data \in Strings : Put(b, data)
    \/ \E n \in Lengths : \/ Take("read", b, <<n>>, n)
                          \/ Take("discard", b, <<n>>, n)
                          \/ Write("writev_len", b, <<n>>, n)
    \/ Write("writev", b, <<>>, Len(contents[b]))
    \/ ReadLine(b) \/ ParseString0(b) \/ Reset(b)
    \/ \E src \in Buffers \ {b} :
         \/ \E n \in 0 .. MaxLength : Transfer(b, src, n)
         \/ Transfer(b, src, Len(contents[src]))

QueueSpec == QueueInit /\ [][QueueNext]_queueVars
=============================================================================
