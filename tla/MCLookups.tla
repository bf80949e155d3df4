----------------------------- MODULE MCLookups ------------------------------
(* Declarations with runs, gaps and repetitions in their numbering.        *)
EXTENDS Lookups

\* Names in the order of the declaration, and mixed.
Straight(j) == 2 * j
Mixed(j)    == 2 * ((3 * j) % 5)
Items(numbers, Name(_)) ==
  [j \in DOMAIN numbers |-> [name |-> Name(j), number |-> numbers[j]]]

\* Any numbers in any order, twice perhaps.
Short == UNION {[1 .. k -> {-1, 0, 1, 3}] : k \in 1 .. 4}
\* Every set of numbers, those of six ranges too.
Sorted(S) ==
  [j \in 1 .. Cardinality(S) |-> CHOOSE v \in S : Cardinality({w \in S : w < v}) = j - 1]
Long  == {Sorted(S) : S \in {S \in SUBSET (-2 .. 6) : Cardinality(S) >= 3}}
Tags  == {s \in Long \cup {<<>>} : \A j \in DOMAIN s : s[j] > 0}
           \cup {<<3, 1, 2>>, <<6, 2, 4, 1>>}

MCDeclarations ==
  {[kind |-> "enum", items |-> Items(s, Mixed)] : s \in Short}
    \cup {[kind |-> "enum", items |-> Items(s, Straight)] : s \in Long \cup {<<6, 7>>, <<-8, 7>>}}
    \cup {[kind |-> "message", items |-> Items(s, Mixed)] : s \in {t \in Tags : Len(t) <= 4}}
    \cup {[kind |-> "message", items |-> Items(s, Straight)] : s \in Tags}
    \cup {[kind |-> "service", items |-> Items([j \in 1 .. k |-> j], Mixed)] : k \in 0 .. 4}

MCNumbers == IntMin .. IntMax
MCNames   == 0 .. 9
=============================================================================
