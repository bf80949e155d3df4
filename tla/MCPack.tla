------------------------------- MODULE MCPack -------------------------------
(* Messages with numbers at the boundaries of the encoding, with W = 4 and  *)
(* H = 13: ints of four bytes, 64-bit numbers of seven.                     *)
EXTENDS Pack

F(id, type, label, packed, values) ==
  [id |-> id, type |-> type, label |-> label, packed |-> packed, has |-> TRUE,
   ptr |-> "own", values |-> values]
Only(f) == [fields |-> <<f>>, unknown |-> <<>>]
Filled(n, v) == [k \in 1 .. n |-> v]

Types32 == {"sint32", "int32", "uint32", "enum", "fixed32"}
Types64 == {"sint64", "int64", "fixed64"}
Powers(ks) == UNION {{Pow2[k] - 1, Pow2[k]} : k \in ks}
Ints32 == {0, Pow2[12] - 1} \cup Powers({4, 8}) \cup {-n : n \in Powers({3, 7, 12}) \ {0}}
Ints64 == Ints32 \cup Powers({12, 13, 16, 20, 24}) \cup {Pow2[25] - 1, -Pow2[25], -Pow2[23]}

\* One number.
Numbers ==
  {Only(F(1, t, "required", FALSE, <<v>>)) : t \in Types32, v \in Ints32}
    \cup {Only(F(1, t, "required", FALSE, <<v>>)) : t \in Types64, v \in Ints64}
    \cup {Only(F(1, "bool", "optional", FALSE, <<v>>)) : v \in 0 .. 2}

\* Field numbers, and strings, around the boundaries of theirs.
Ids ==
  {[fields |-> <<F(id, "uint32", "optional", FALSE, <<3>>)>>,
    unknown |-> <<[tag |-> id + 1, wire_type |-> 5, data |-> <<5, 6, 7>>]>>]
     : id \in UNION {{Pow2[k] - 1, Pow2[k]} : k \in {1, 5, 9, 10, 12}}}
Strings ==
  {Only(F(2, t, "required", FALSE, <<Filled(n, 9)>>))
     : t \in {"string", "bytes"}, n \in {0, 15, 16}}
Absent ==
  {Only([F(2, "string", l, FALSE, <<<<>>>>) EXCEPT !.ptr = "null"])
     : l \in {"required", "optional"}}
    \cup {Only([F(2, "bytes", "optional", FALSE, <<<<9>>>>) EXCEPT !.has = FALSE]),
          Only([F(2, "string", "optional", FALSE, <<<<9>>>>) EXCEPT !.ptr = "default"])}

\* Repeated fields, with as many values as a byte of length can say and one more.
Repeated ==
  {Only(F(3, t, "repeated", p, Filled(n, v)))
     : t \in {"int32", "sint64", "bool"}, p \in BOOLEAN, n \in {0, 1, 15, 16}, v \in {0, -1}}
    \cup {Only(F(3, t, "repeated", TRUE, <<1, 2, 3>>)) : t \in {"fixed32", "fixed64"}}
    \cup {Only(F(3, "int32", "repeated", TRUE, Filled(n, -1))) : n \in {2, 3, 36, 37}}
    \cup {Only(F(3, "string", "repeated", FALSE, <<<<1>>, <<2, 3>>>>))}

\* Messages in messages, of lengths around the boundary and the scratch buffers.
Inner(n) ==
  [fields |-> <<F(1, "string", "required", FALSE, <<Filled(n, 9)>>),
                F(3, "sint32", "repeated", TRUE, <<-1, 9>>)>>,
   unknown |-> <<[tag |-> 4, wire_type |-> 2, data |-> <<1, 8>>]>>]
Nested ==
  {[fields |-> <<F(1, "message", l, FALSE, <<Inner(n)>>),
                 F(2, "int32", "required", FALSE, <<-1>>)>>, unknown |-> <<>>]
     : l \in {"required", "optional", "repeated"}, n \in {0, 4, 5}}
    \cup {Only(F(1, "message", "repeated", FALSE, <<Inner(0), Inner(1)>>)),
          Only([F(1, "message", "required", FALSE, <<NoMessage>>) EXCEPT !.ptr = "null"]),
          Only(F(1, "message", "optional", FALSE,
                 <<[Only(F(2, "message", "required", FALSE, <<Inner(4)>>)) EXCEPT !.unknown =
                      <<[tag |-> 4, wire_type |-> 2, data |-> <<1, 8>>]>>]>>))}

MCMessages == Numbers \cup Ids \cup Strings \cup Absent \cup Repeated \cup Nested
=============================================================================
