---------------------------- MODULE MCDataBuffer ----------------------------
(* DataBuffer with small fragments.  "last" is history that no step reads, *)
(* so states are told apart without it; every step is still checked.       *)
EXTENDS DataBuffer

BufferSymmetry == Permutations(Buffers)
BufferView     == <<frags, size>>

\* Bound: a state in which a fragment has a byte that is a negative char is not
\* followed further when the buffers hold MaxSize bytes.
HasNegative(b) ==
  \E i \in DOMAIN frags[b] : \E k \in DOMAIN frags[b][i].mem : frags[b][i].mem[k] > CHAR_MAX
FewNegative ==
  (\E b \in Buffers : HasNegative(b)) =>
    \A b, c \in Buffers : b # c => size[b] + size[c] < MaxSize
=============================================================================
