---------------------------- MODULE TimersProofs ----------------------------
(***************************************************************************)
(* Timers for any number of timers and idle functions: insertion into and  *)
(* removal from the red-black tree leave a red-black tree of the timers    *)
(* that are armed; timers fire in order; the public members say what is    *)
(* there; poll does not wait in vain.                                      *)
(***************************************************************************)
EXTENDS Timers, RecursionLemmas, FiniteSetTheorems

-----------------------------------------------------------------------------
(* Loops.  A loop that keeps its states in T, has its condition in W only  *)
(* and goes up some measure each turn ends where the condition is false.   *)

LEMMA StaysIn ==
  ASSUME NEW n \in Nat, NEW T, NEW u, u[0] \in T,
         \A i \in 1 .. n : u[i - 1] \in T => u[i] \in T
  PROVE  \A i \in 0 .. n : u[i] \in T
<1> DEFINE Bad == {i \in 0 .. n : u[i] \notin T}
<1> SUFFICES ASSUME Bad # {} PROVE FALSE
  OBVIOUS
<1>1. PICK i \in Bad : \A j \in Bad : i <= j
  <2>1. Bad \in SUBSET Nat
    OBVIOUS
  <2> QED
    BY <2>1, SmallestExists
<1>2. i # 0 /\ i \in 0 .. n /\ u[i] \notin T
  BY <1>1
<1>3. i \in 1 .. n /\ i - 1 \in 0 .. n /\ ~(i <= i - 1)
  BY <1>2
<1>4. u[i - 1] \in T
  BY <1>1, <1>3
<1> QED
  BY <1>2, <1>3, <1>4

LEMMA LoopEnds ==
  ASSUME NEW n \in Nat, NEW T, NEW W, NEW u, NEW mu \in [T -> Nat],
         \A i \in 0 .. n : u[i] \in T,
         \A i \in 1 .. n : u[i - 1] \notin W => u[i] = u[i - 1],
         \A i \in 1 .. n : u[i - 1] \in W /\ u[i] \in W => mu[u[i]] > mu[u[i - 1]],
         \A s \in T : s \in W => mu[s] < n
  PROVE  u[n] \notin W
<1> SUFFICES ASSUME u[n] \in W PROVE FALSE
  OBVIOUS
<1>1. \A i \in 0 .. n : u[n - i] \in W
  <2> DEFINE v == [i \in 0 .. n |-> u[n - i]]
  <2>1. \A i \in 0 .. n : v[i] = u[n - i]
    OBVIOUS
  <2>2. v[0] \in W
    BY <2>1
  <2>3. ASSUME NEW i \in 1 .. n, v[i - 1] \in W PROVE v[i] \in W
    <3>1. i - 1 \in 0 .. n /\ i \in 0 .. n /\ n - (i - 1) \in 1 .. n /\ (n - (i - 1)) - 1 = n - i
      OBVIOUS
    <3>2. v[i - 1] = u[n - (i - 1)] /\ v[i] = u[n - i]
      BY <2>1, <3>1
    <3> HIDE DEF v
    <3> QED
      BY <2>3, <3>1, <3>2
  <2> HIDE DEF v
  <2>4. \A i \in 0 .. n : v[i] \in W
    BY <2>2, <2>3, StaysIn
  <2> QED
    BY <2>1, <2>4
<1>2. ASSUME NEW i \in 0 .. n PROVE u[i] \in W
  <2>1. n - i \in 0 .. n /\ n - (n - i) = i
    OBVIOUS
  <2> QED
    BY <1>1, <2>1
<1>3. \A i \in 0 .. n : mu[u[i]] >= i
  <2> DEFINE P == {s \in T \X Nat : mu[s[1]] >= s[2]}
             v == [i \in 0 .. n |-> <<u[i], i>>]
  <2>1. \A i \in 0 .. n : v[i] = <<u[i], i>> /\ u[i] \in T /\ mu[u[i]] \in Nat
    OBVIOUS
  <2>2. v[0] \in P
    BY <2>1
  <2>3. ASSUME NEW i \in 1 .. n, v[i - 1] \in P PROVE v[i] \in P
    <3>1. i - 1 \in 0 .. n /\ i \in 0 .. n
      OBVIOUS
    <3>2. mu[u[i - 1]] >= i - 1
      BY <2>1, <2>3, <3>1
    <3>3. mu[u[i]] > mu[u[i - 1]]
      BY <1>2, <3>1
    <3>4. mu[u[i]] >= i
      BY <2>1, <3>1, <3>2, <3>3
    <3> QED
      BY <2>1, <3>1, <3>4
  <2> HIDE DEF v, P
  <2>4. \A i \in 0 .. n : v[i] \in P
    BY <2>2, <2>3, StaysIn
  <2> QED
    BY <2>1, <2>4 DEF P
<1> QED
  BY <1>2, <1>3

\* The states a loop goes through exist.
Runs(u, n, T, base, step) ==
  u \in [0 .. n -> T] /\ u[0] = base /\ \A i \in 1 .. n : u[i] = step[u[i - 1]]

LEMMA RunExists ==
  ASSUME NEW T, NEW n \in Nat, NEW base \in T, NEW step \in [T -> T]
  PROVE  \E u : Runs(u, n, T, base, step)
<1> DEFINE turn == [x \in T \X (1 .. n) |-> step[x[1]]]
<1>1. turn \in [T \X (1 .. n) -> T]
  OBVIOUS
<1>2. \A s \in T, i \in 1 .. n : turn[<<s, i>>] = step[s]
  OBVIOUS
<1> HIDE DEF turn
<1>3. PICK t \in [0 .. n -> T] : Solves(t, n, base, turn)
  BY <1>1, RecursionExists
<1>4. t[0] = base
  BY <1>3 DEF Solves
<1>5. ASSUME NEW i \in 1 .. n PROVE t[i] = step[t[i - 1]]
  <2>1. i - 1 \in 0 .. n /\ i \in 0 .. n
    OBVIOUS
  <2>2. t[i] = turn[<<t[i - 1], i>>]
    BY <1>3 DEF Solves
  <2> QED
    BY <1>2, <2>1, <2>2
<1> QED
  BY <1>4, <1>5 DEF Runs
-----------------------------------------------------------------------------
(* Trees and what an assignment to a field leaves.                         *)

Null  == Nodes \cup {0}
Sides == {"left", "right"}
Links == Sides \cup {"parent"}

Tree == [top : Null, left : [Nodes -> Null], right : [Nodes -> Null],
         parent : [Nodes -> Null], red : [Nodes -> BOOLEAN]]

LEMMA NodeFacts ==
  /\ IsFiniteSet(Nodes) /\ Cardinality(Nodes) = MaxTimers /\ MaxTimers \in Nat
  /\ 0 \notin Nodes /\ Nodes \subseteq Nat /\ Nodes \subseteq Null /\ 0 \in Null
<1>1. MaxTimers \in Nat
  BY TimerAssumption
<1>2. IsFiniteSet(Nodes) /\ Cardinality(Nodes) = MaxTimers
  BY <1>1, FS_Interval DEF Nodes
<1> QED
  BY <1>1, <1>2 DEF Nodes, Null

LEMMA TreeType ==
  ASSUME NEW t \in Tree
  PROVE  /\ t.top \in Null /\ t.red \in [Nodes -> BOOLEAN] /\ t.parent \in [Nodes -> Null]
         /\ \A g \in Links : t[g] \in [Nodes -> Null]
         /\ \A g \in Links, n \in Nodes : t[g][n] \in Null
         /\ t["left"] = t.left /\ t["right"] = t.right /\ t["parent"] = t.parent
         /\ DOMAIN t.red = Nodes
  BY DEF Tree, Links, Sides

LEMMA OtherSide ==
  ASSUME NEW s \in Sides
  PROVE  /\ Other(s) \in Sides /\ Other(s) # s /\ Other(Other(s)) = s
         /\ \A r \in Sides : r = s \/ r = Other(s)
         /\ s \in Links /\ s # "parent"
  BY DEF Other, Sides, Links

\* u is t but for the field f of n, unless that is NULL.
LinkSet(t, u, f, n, v) ==
  /\ u \in Tree /\ u.top = t.top /\ u.red = t.red
  /\ \A g \in Links, m \in Nodes : u[g][m] = IF g = f /\ m = n THEN v ELSE t[g][m]

LEMMA SetLink ==
  ASSUME NEW t \in Tree, NEW f \in Links, NEW n \in Null, NEW v \in Null
  PROVE  LinkSet(t, Set(t, f, n, v), f, n, v)
<1>1. CASE n = 0
  <2>1. n \notin Nodes
    BY <1>1, NodeFacts
  <2> QED
    BY <1>1, <2>1 DEF Set, LinkSet
<1>2. CASE n # 0
  <2>1. n \in Nodes
    BY <1>2 DEF Null
  <2>2. Set(t, f, n, v) = [t EXCEPT ![f][n] = v]
    BY <1>2 DEF Set
  <2> DEFINE u == [t EXCEPT ![f][n] = v]
  <2>3. u \in Tree /\ u.top = t.top /\ u.red = t.red
    <3>1. CASE f = "left"
      BY <2>1, <3>1 DEF Tree
    <3>2. CASE f = "right"
      BY <2>1, <3>2 DEF Tree
    <3>3. CASE f = "parent"
      BY <2>1, <3>3 DEF Tree
    <3> QED
      BY <3>1, <3>2, <3>3 DEF Links, Sides
  <2>4. ASSUME NEW g \in Links, NEW m \in Nodes
        PROVE  u[g][m] = IF g = f /\ m = n THEN v ELSE t[g][m]
    <3>1. t[f] \in [Nodes -> Null] /\ f \in DOMAIN t
      BY DEF Tree, Links, Sides
    <3>2. u[g] = IF g = f THEN [t[f] EXCEPT ![n] = v] ELSE t[g]
      BY <3>1 DEF Tree, Links, Sides
    <3> HIDE DEF u
    <3> QED
      BY <2>1, <3>1, <3>2
  <2> QED
    BY <2>2, <2>3, <2>4 DEF LinkSet
<1> QED
  BY <1>1, <1>2

\* u is t but for the colour of n, unless that is NULL.
RedSet(t, u, n, v) ==
  /\ u \in Tree /\ u.top = t.top
  /\ \A g \in Links : u[g] = t[g]
  /\ \A m \in Nodes : u.red[m] = IF m = n THEN v ELSE t.red[m]

LEMMA SetRed ==
  ASSUME NEW t \in Tree, NEW n \in Null, NEW v \in BOOLEAN
  PROVE  RedSet(t, Set(t, "red", n, v), n, v)
<1>1. CASE n = 0
  <2>1. n \notin Nodes
    BY <1>1, NodeFacts
  <2> QED
    BY <1>1, <2>1 DEF Set, RedSet
<1>2. CASE n # 0
  <2>1. n \in Nodes
    BY <1>2 DEF Null
  <2>2. Set(t, "red", n, v) = [t EXCEPT !["red"][n] = v]
    BY <1>2 DEF Set
  <2> DEFINE u == [t EXCEPT !["red"][n] = v]
  <2>3. u \in Tree /\ u.top = t.top
    BY <2>1 DEF Tree
  <2>4. \A g \in Links : u[g] = t[g]
    BY DEF Tree, Links, Sides
  <2>5. u.red = [t.red EXCEPT ![n] = v] /\ t.red \in [Nodes -> BOOLEAN]
    BY DEF Tree
  <2> HIDE DEF u
  <2>6. \A m \in Nodes : u.red[m] = IF m = n THEN v ELSE t.red[m]
    BY <2>1, <2>5
  <2> QED
    BY <2>2, <2>3, <2>4, <2>6 DEF RedSet, u
<1> QED
  BY <1>1, <1>2

\* u is t but for the link down from p, or the top, which leads to new.
Relinked(t, u, p, old, new) ==
  /\ u \in Tree /\ u.red = t.red /\ u.parent = t.parent
  /\ u.top = IF p = 0 THEN new ELSE t.top
  /\ \A s \in Sides, m \in Nodes :
       u[s][m] = IF m = p /\ s = SideOf(t, p, old) THEN new ELSE t[s][m]

LEMMA RelinkIs ==
  ASSUME NEW t \in Tree, NEW p \in Null, NEW old \in Null, NEW new \in Null
  PROVE  Relinked(t, Relink(t, p, old, new), p, old, new)
<1>1. CASE p = 0
  <2>1. Relink(t, p, old, new) = [t EXCEPT !.top = new] /\ p \notin Nodes
    BY <1>1, NodeFacts DEF Relink
  <2> DEFINE u == [t EXCEPT !.top = new]
  <2>2. u \in Tree /\ u.red = t.red /\ u.parent = t.parent /\ u.top = new
    BY DEF Tree
  <2>3. \A s \in Sides : u[s] = t[s]
    BY DEF Tree, Sides
  <2> HIDE DEF u
  <2> QED
    BY <1>1, <2>1, <2>2, <2>3 DEF Relinked, u
<1>2. CASE p # 0
  <2> DEFINE s == SideOf(t, p, old)
             u == Set(t, s, p, new)
  <2>1. s \in Sides /\ s \in Links /\ s # "parent"
    BY DEF SideOf, Sides, Links
  <2>2. Relink(t, p, old, new) = u
    BY <1>2 DEF Relink
  <2>3. LinkSet(t, u, s, p, new)
    BY <2>1, SetLink
  <2> HIDE DEF s, u
  <2>4. u.parent = t.parent
    <3>1. u.parent \in [Nodes -> Null] /\ t.parent \in [Nodes -> Null]
      BY <2>3, TreeType DEF LinkSet
    <3>2. \A m \in Nodes : u["parent"][m] = t["parent"][m]
      BY <2>1, <2>3 DEF LinkSet, Links
    <3> QED
      BY <2>3, <3>1, <3>2, TreeType DEF LinkSet
  <2>5. \A g \in Sides, m \in Nodes : u[g][m] = IF m = p /\ g = s THEN new ELSE t[g][m]
    BY <2>3 DEF LinkSet, Links
  <2> QED
    BY <1>2, <2>2, <2>3, <2>4, <2>5 DEF Relinked, LinkSet, s
<1> QED
  BY <1>1, <1>2
-----------------------------------------------------------------------------
(* Search trees.  R is the order of the nodes; sub gives the nodes of each *)
(* subtree.                                                                *)

Strict(R) ==
  /\ \A a \in Nodes : <<a, a>> \notin R
  /\ \A a, b, c \in Nodes : <<a, b>> \in R /\ <<b, c>> \in R => <<a, c>> \in R

\* a belongs on that side of b.
Aside(R, side, a, b) == IF side = "left" THEN <<a, b>> \in R ELSE <<b, a>> \in R

Below(t, n, sub) == {n} \cup sub[t["left"][n]] \cup sub[t["right"][n]]

\* What is said of the children of n.
Child(t, S, R, sub, n, s) ==
  /\ t[s][n] \in S \cup {0}
  /\ t[s][n] # 0 => t.parent[t[s][n]] = n
  /\ \A m \in sub[t[s][n]] : Aside(R, s, m, n)

Shape(t, S, R, sub) ==
  /\ t \in Tree /\ S \subseteq Nodes /\ sub \in [Null -> SUBSET S]
  /\ t.top \in S \cup {0} /\ sub[0] = {} /\ sub[t.top] = S
  /\ t.top # 0 => t.parent[t.top] = 0
  /\ \A n \in S : sub[n] = Below(t, n, sub)
  /\ \A n \in S, s \in Sides : Child(t, S, R, sub, n, s)
  /\ \A n \in S : n # t.top =>
       t.parent[n] \in S /\ \E s \in Sides : t[s][t.parent[n]] = n

LEMMA AsideFacts ==
  ASSUME NEW R, Strict(R), NEW s \in Sides
  PROVE  /\ \A a, b \in Nodes : Aside(R, s, a, b) => a # b /\ Aside(R, Other(s), b, a)
                                                  /\ ~Aside(R, s, b, a)
         /\ \A a, b, c \in Nodes : Aside(R, s, a, b) /\ Aside(R, s, b, c) => Aside(R, s, a, c)
         /\ \A a, b \in Nodes : ~(Aside(R, s, a, b) /\ Aside(R, Other(s), a, b))
  BY DEF Strict, Aside, Sides, Other

\* The children and the subtree of a node.
LEMMA ShapeFacts ==
  ASSUME NEW t, NEW S, NEW R, NEW sub, Strict(R), Shape(t, S, R, sub),
         NEW n \in S, NEW s \in Sides
  PROVE  /\ n \in Nodes /\ n # 0 /\ n \in sub[n] /\ sub[n] \subseteq S
         /\ t[s][n] \in S \cup {0} /\ t[s][n] \in Null /\ sub[t[s][n]] \subseteq S
         /\ sub[n] = {n} \cup sub[t[s][n]] \cup sub[t[Other(s)][n]]
         /\ n \notin sub[t[s][n]] /\ t[s][n] # n
         /\ sub[t[s][n]] \cap sub[t[Other(s)][n]] = {}
         /\ t[s][n] # 0 => /\ t.parent[t[s][n]] = n /\ t[s][n] # t[Other(s)][n]
                           /\ t[s][n] \in sub[t[s][n]] /\ t[s][n] # t.top
         /\ t.parent[n] \in S \cup {0} /\ (n = t.top <=> t.parent[n] = 0)
         /\ \A m \in S, r \in Sides : t[r][m] = t[s][n] /\ t[s][n] # 0 => m = n /\ r = s
<1>1. /\ n \in Nodes /\ n # 0 /\ S \subseteq Nodes /\ t \in Tree /\ Other(s) \in Sides
      /\ sub \in [Null -> SUBSET S] /\ 0 \in Null /\ Nodes \subseteq Null /\ 0 \notin S
      /\ 0 \notin Nodes
  BY NodeFacts, OtherSide DEF Shape
<1>2. ASSUME NEW m \in S
      PROVE  /\ sub[m] = {m} \cup sub[t[s][m]] \cup sub[t[Other(s)][m]]
             /\ m \in sub[m] /\ sub[m] \subseteq S
  <2>1. sub[m] = {m} \cup sub[t["left"][m]] \cup sub[t["right"][m]]
    BY DEF Shape, Below
  <2>2. CASE s = "left"
    BY <1>1, <2>1, <2>2 DEF Other
  <2>3. CASE s = "right"
    BY <1>1, <2>1, <2>3 DEF Other
  <2> QED
    BY <2>2, <2>3 DEF Sides
<1>3. ASSUME NEW m \in S, NEW r \in Sides
      PROVE  /\ t[r][m] \in S \cup {0} /\ (t[r][m] # 0 => t.parent[t[r][m]] = m)
             /\ \A k \in sub[t[r][m]] : Aside(R, r, k, m)
             /\ sub[t[r][m]] \subseteq S
  <2>1. Child(t, S, R, sub, m, r)
    BY DEF Shape
  <2> QED
    BY <1>1, <2>1 DEF Child
<1>4. n \notin sub[t[s][n]]
  BY <1>1, <1>3, AsideFacts
<1>5. sub[t[s][n]] \cap sub[t[Other(s)][n]] = {}
  BY <1>1, <1>3, AsideFacts
<1>6. t[s][n] # 0 => /\ t[s][n] \in S /\ t[s][n] \in sub[t[s][n]]
                     /\ t[s][n] # n /\ t[s][n] # t[Other(s)][n]
  BY <1>2, <1>3, <1>4, <1>5
<1>7. t[s][n] # 0 => t[s][n] # t.top
  <2>1. t.top # 0 => t.parent[t.top] = 0
    BY DEF Shape
  <2> QED
    BY <1>1, <1>3, <2>1
<1>8. t.parent[n] \in S \cup {0} /\ (n = t.top <=> t.parent[n] = 0)
  BY <1>1 DEF Shape
<1>9. ASSUME NEW m \in S, NEW r \in Sides, t[r][m] = t[s][n], t[s][n] # 0
      PROVE  m = n /\ r = s
  <2>1. m = n
    BY <1>3, <1>9
  <2>2. r = s \/ r = Other(s)
    BY OtherSide
  <2> QED
    BY <1>6, <1>9, <2>1, <2>2
<1> QED
  BY <1>1, <1>2, <1>3, <1>4, <1>5, <1>6, <1>7, <1>8, <1>9

LEMMA ChildIn ==
  ASSUME NEW t, NEW S, NEW R, NEW sub, Shape(t, S, R, sub), NEW n \in S, NEW s \in Sides
  PROVE  /\ t[s][n] \in S \cup {0} /\ (t[s][n] # 0 => t.parent[t[s][n]] = n)
         /\ t[s][n] \in Null
<1>1. Child(t, S, R, sub, n, s) /\ S \subseteq Nodes
  BY DEF Shape
<1> QED
  BY <1>1 DEF Child, Null

\* A node is the child of one node.
LEMMA OneParent ==
  ASSUME NEW t, NEW S, NEW R, NEW sub, Strict(R), Shape(t, S, R, sub),
         NEW n \in S, NEW s \in Sides, NEW m \in S, NEW r \in Sides,
         t[r][m] = t[s][n], t[s][n] # 0
  PROVE  m = n /\ r = s
  BY ShapeFacts, SMTT(60)

LEMMA TwoChildren ==
  ASSUME NEW t, NEW S, NEW R, NEW sub, Strict(R), Shape(t, S, R, sub),
         NEW n \in S, NEW s \in Sides
  PROVE  /\ t[s][n] # 0 => t[s][n] # t[Other(s)][n]
         /\ t[s][n] # n
BY ShapeFacts

LEMMA TopFacts ==
  ASSUME NEW t, NEW S, NEW R, NEW sub, Strict(R), Shape(t, S, R, sub)
  PROVE  /\ t \in Tree /\ S \subseteq Nodes /\ S \subseteq Null /\ 0 \notin S
         /\ t.top \in S \cup {0} /\ (t.top = 0 <=> S = {})
         /\ sub[t.top] = S /\ sub[0] = {} /\ sub \in [Null -> SUBSET S]
         /\ IsFiniteSet(S) /\ Cardinality(S) \in Nat /\ Cardinality(S) <= MaxTimers
         /\ \A n \in Null : /\ sub[n] \subseteq S /\ IsFiniteSet(sub[n])
                            /\ Cardinality(sub[n]) \in Nat
                            /\ Cardinality(sub[n]) <= Cardinality(S)
         /\ \A n \in S : n \in sub[n]
<1>1. /\ t \in Tree /\ S \subseteq Nodes /\ t.top \in S \cup {0}
      /\ sub[t.top] = S /\ sub[0] = {} /\ sub \in [Null -> SUBSET S]
  BY DEF Shape
<1>2. IsFiniteSet(S) /\ Cardinality(S) \in Nat /\ Cardinality(S) <= MaxTimers
  BY <1>1, NodeFacts, FS_Subset, FS_CardinalityType
<1>3. ASSUME NEW n \in Null
      PROVE  /\ sub[n] \subseteq S /\ IsFiniteSet(sub[n]) /\ Cardinality(sub[n]) \in Nat
             /\ Cardinality(sub[n]) <= Cardinality(S)
  <2>1. sub[n] \subseteq S
    BY <1>1
  <2> QED
    BY <1>2, <2>1, FS_Subset, FS_CardinalityType
<1>4. S \subseteq Null /\ 0 \notin S
  BY <1>1, NodeFacts
<1>5. \A n \in S : n \in sub[n]
  BY DEF Shape, Below
<1> QED
  BY <1>1, <1>2, <1>3, <1>4, <1>5

\* A subtree is larger than those in it.
LEMMA Smaller ==
  ASSUME NEW t, NEW S, NEW R, NEW sub, Strict(R), Shape(t, S, R, sub),
         NEW n \in S, NEW s \in Sides
  PROVE  Cardinality(sub[t[s][n]]) < Cardinality(sub[n])
<1>1. /\ sub[t[s][n]] \subseteq sub[n] /\ n \in sub[n] /\ n \notin sub[t[s][n]]
      /\ n \in Null /\ t[s][n] \in Null
  BY ShapeFacts, TopFacts
<1>2. /\ IsFiniteSet(sub[n]) /\ Cardinality(sub[n]) \in Nat
      /\ Cardinality(sub[t[s][n]]) \in Nat
  BY <1>1, TopFacts
<1>3. /\ Cardinality(sub[t[s][n]]) <= Cardinality(sub[n])
      /\ Cardinality(sub[t[s][n]]) # Cardinality(sub[n])
  BY <1>1, <1>2, FS_Subset
<1> QED
  BY <1>2, <1>3

\* What holds of a node when it holds of its children holds of all.
LEMMA TreeInduction ==
  ASSUME NEW t, NEW S, NEW R, NEW sub, Strict(R), Shape(t, S, R, sub),
         NEW G, \A n \in S : (\A s \in Sides : t[s][n] \in G \cup {0}) => n \in G
  PROVE  S \subseteq G
<1> SUFFICES ASSUME NEW bad \in S, bad \notin G PROVE FALSE
  OBVIOUS
<1> DEFINE Sizes == {Cardinality(sub[n]) : n \in {m \in S : m \notin G}}
<1>1. Sizes \in SUBSET Nat /\ Sizes # {}
  BY TopFacts
<1>2. PICK k \in Sizes : \A j \in Sizes : k <= j
  BY <1>1, SmallestExists
<1>3. PICK n \in S : n \notin G /\ k = Cardinality(sub[n])
  BY <1>2
<1>4. ASSUME NEW s \in Sides PROVE t[s][n] \in G \cup {0}
  <2>1. t[s][n] \in S \cup {0} /\ Cardinality(sub[t[s][n]]) < k
    BY <1>3, ShapeFacts, Smaller
  <2> SUFFICES ASSUME t[s][n] \in S, t[s][n] \notin G PROVE FALSE
    BY <2>1
  <2>2. Cardinality(sub[t[s][n]]) \in Sizes
    OBVIOUS
  <2>3. Cardinality(sub[t[s][n]]) \in Nat /\ k \in Nat
    BY <1>1, <1>2, <2>2
  <2> QED
    BY <1>2, <2>1, <2>2, <2>3
<1> QED
  BY <1>3, <1>4

\* Subtrees are nested; a node that is not at the top of a subtree has its parent
\* there.
LEMMA Nested ==
  ASSUME NEW t, NEW S, NEW R, NEW sub, Strict(R), Shape(t, S, R, sub), NEW n \in S
  PROVE  \A m \in sub[n] : sub[m] \subseteq sub[n]
<1> DEFINE G == {k \in S : \A m \in sub[k] : sub[m] \subseteq sub[k]}
<1>1. ASSUME NEW k \in S, \A s \in Sides : t[s][k] \in G \cup {0} PROVE k \in G
  <2>1. ASSUME NEW m \in sub[k] PROVE sub[m] \subseteq sub[k]
    <3>1. "left" \in Sides /\ "right" \in Sides /\ Other("left") = "right"
      BY DEF Sides, Other
    <3>2. /\ sub[k] = {k} \cup sub[t["left"][k]] \cup sub[t["right"][k]]
          /\ sub[0] = {}
      BY <3>1, ShapeFacts, TopFacts
    <3>3. ASSUME NEW s \in Sides, m \in sub[t[s][k]] PROVE sub[m] \subseteq sub[k]
      <4>1. t[s][k] \in G
        BY <1>1, <3>2, <3>3
      <4>2. sub[t[s][k]] \subseteq sub[k]
        BY ShapeFacts
      <4> QED
        BY <3>3, <4>1, <4>2
    <3> QED
      BY <3>1, <3>2, <3>3
  <2> QED
    BY <2>1
<1>2. S \subseteq G
  <2> HIDE DEF G
  <2> QED
    BY <1>1, TreeInduction
<1> QED
  BY <1>2

LEMMA ParentIn ==
  ASSUME NEW t, NEW S, NEW R, NEW sub, Strict(R), Shape(t, S, R, sub),
         NEW n \in S, NEW m \in sub[n], m # n
  PROVE  m \in S /\ m # t.top /\ t.parent[m] \in S /\ t.parent[m] \in sub[n]
<1> DEFINE G == {k \in S : \A c \in sub[k] : c # k =>
                    c # t.top /\ t.parent[c] \in S /\ t.parent[c] \in sub[k]}
<1>1. ASSUME NEW k \in S, \A s \in Sides : t[s][k] \in G \cup {0} PROVE k \in G
  <2>1. ASSUME NEW c \in sub[k], c # k
        PROVE  c # t.top /\ t.parent[c] \in S /\ t.parent[c] \in sub[k]
    <3>1. "left" \in Sides /\ "right" \in Sides /\ Other("left") = "right"
      BY DEF Sides, Other
    <3>2. /\ sub[k] = {k} \cup sub[t["left"][k]] \cup sub[t["right"][k]]
          /\ sub[0] = {}
      BY <3>1, ShapeFacts, TopFacts
    <3>3. ASSUME NEW s \in Sides, c \in sub[t[s][k]]
          PROVE  c # t.top /\ t.parent[c] \in S /\ t.parent[c] \in sub[k]
      <4>1. /\ t[s][k] \in G /\ t[s][k] # 0 /\ t.parent[t[s][k]] = k /\ k \in sub[k]
            /\ t[s][k] # t.top /\ sub[t[s][k]] \subseteq sub[k]
        BY <1>1, <3>2, <3>3, ShapeFacts
      <4> QED
        BY <2>1, <3>3, <4>1
    <3> QED
      BY <2>1, <3>1, <3>2, <3>3
  <2> QED
    BY <2>1
<1>2. S \subseteq G
  <2> HIDE DEF G
  <2> QED
    BY <1>1, TreeInduction
<1>3. m \in S
  BY ShapeFacts DEF Shape
<1> QED
  BY <1>2, <1>3
-----------------------------------------------------------------------------
(* Rotations.                                                              *)

\* What a rotation leaves of the links: y takes the place of x above it.
Turned(t, u, S, side, x, y, b) ==
  /\ u \in Tree
  /\ u.top = IF t.top = x THEN y ELSE t.top
  /\ u[Other(side)][x] = b /\ u[side][x] = t[side][x]
  /\ u[side][y] = x /\ u[Other(side)][y] = t[Other(side)][y]
  /\ \A n \in S : u.parent[n] = IF n = x THEN y
                                ELSE IF n = y THEN t.parent[x]
                                ELSE IF n = b THEN x
                                ELSE t.parent[n]
  /\ \A n \in S, s \in Sides : n # x /\ n # y =>
       u[s][n] = IF t[s][n] = x THEN y ELSE t[s][n]

\* Where the links of a node come from.
LEMMA SideOfIs ==
  ASSUME NEW t, NEW S, NEW R, NEW sub, Strict(R), Shape(t, S, R, sub),
         NEW x \in S, x # t.top
  PROVE  /\ SideOf(t, t.parent[x], x) \in Sides /\ t.parent[x] \in S
         /\ t[SideOf(t, t.parent[x], x)][t.parent[x]] = x
         /\ \A n \in S, s \in Sides :
              t[s][n] = x <=> n = t.parent[x] /\ s = SideOf(t, t.parent[x], x)
<1> DEFINE p == t.parent[x]
           s == SideOf(t, p, x)
<1>1. p \in S /\ \E r \in Sides : t[r][p] = x
  BY DEF Shape
<1>2. s \in Sides /\ t[s][p] = x
  <2>1. t["left"] = t.left /\ t["right"] = t.right
    BY TreeType DEF Shape
  <2>2. CASE t.left[p] = x
    BY <2>1, <2>2 DEF SideOf, Sides
  <2>3. CASE t.left[p] # x
    <3>1. t["right"][p] = x
      BY <1>1, <2>1, <2>3 DEF Sides
    <3> QED
      BY <2>3, <3>1 DEF SideOf, Sides
  <2> QED
    BY <2>2, <2>3
<1>3. x # 0
  BY TopFacts
<1>4. ASSUME NEW n \in S, NEW r \in Sides, t[r][n] = x
      PROVE  n = p /\ r = s
  BY <1>1, <1>2, <1>3, <1>4, ShapeFacts
<1> QED
  BY <1>1, <1>2, <1>4

LEMMA RotateFields ==
  ASSUME NEW t, NEW S, NEW R, NEW sub, Strict(R), Shape(t, S, R, sub),
         NEW side \in Sides, NEW x \in S, NEW y \in S, y = t[Other(side)][x]
  PROVE  /\ Turned(t, Rotate(t, side, x), S, side, x, y, t[side][y])
         /\ Rotate(t, side, x).red = t.red
         /\ x # y /\ t[side][y] # x /\ t[side][y] # y /\ t[side][y] \in S \cup {0}
         /\ t.parent[x] # x /\ t.parent[x] # y
<1> DEFINE o == Other(side)
           b == t[side][y]
           p == t.parent[x]
           a1 == Set(t, o, x, b)
           a2 == Set(a1, "parent", b, x)
           a3 == Set(a2, "parent", y, p)
           a4 == Relink(a3, p, x, y)
           a5 == Set(a4, side, y, x)
           a6 == Set(a5, "parent", x, y)
<1>1. Rotate(t, side, x) = a6
  BY DEF Rotate
<1>2. /\ o \in Sides /\ o # side /\ side \in Links /\ o \in Links /\ "parent" \in Links
      /\ side # "parent" /\ o # "parent" /\ Other(o) = side
  BY OtherSide DEF Links
<1>3. /\ t \in Tree /\ x \in Nodes /\ y \in Nodes /\ x \in Null /\ y \in Null
      /\ x # 0 /\ y # 0 /\ b \in S \cup {0} /\ b \in Null /\ x # y /\ b # y
      /\ S \subseteq Nodes /\ S \subseteq Null /\ 0 \notin S
  BY <1>2, ShapeFacts, TopFacts
<1>4. b # x
  <2>1. x \notin sub[y] /\ (b # 0 => b \in sub[y])
    BY <1>2, <1>3, ShapeFacts
  <2> QED
    BY <1>3, <2>1
<1>5. p \in S \cup {0} /\ p \in Null /\ (p = 0 <=> x = t.top)
  <2>1. p \in S \cup {0} /\ (p = 0 <=> x = t.top)
    BY <1>2, ShapeFacts
  <2> QED
    BY <1>3, <2>1, NodeFacts
<1>6. p # x /\ p # y
  <2> SUFFICES ASSUME x # t.top PROVE p # x /\ p # y
    BY <1>3, <1>5
  <2>1. PICK s \in Sides : t[s][p] = x
    BY <1>5, SideOfIs
  <2>2. Cardinality(sub[x]) < Cardinality(sub[p])
    BY <1>5, <2>1, Smaller
  <2>3. Cardinality(sub[y]) < Cardinality(sub[x])
    BY <1>2, Smaller
  <2>4. /\ Cardinality(sub[x]) \in Nat /\ Cardinality(sub[y]) \in Nat
        /\ Cardinality(sub[p]) \in Nat
    BY <1>3, <1>5, TopFacts
  <2> QED
    BY <2>2, <2>3, <2>4
<1>7. \A n \in S, s \in Sides :
        t[s][n] = x <=> p # 0 /\ n = p /\ s = SideOf(t, p, x)
  <2>1. CASE x = t.top
    BY <1>3, <1>5, <2>1, ShapeFacts
  <2>2. CASE x # t.top
    BY <1>5, <2>2, SideOfIs
  <2> QED
    BY <2>1, <2>2
<1> HIDE DEF o, b, p
<1>8. LinkSet(t, a1, o, x, b)
  BY <1>2, <1>3, SetLink
<1> HIDE DEF a1
<1>9. LinkSet(a1, a2, "parent", b, x)
  BY <1>2, <1>3, <1>8, SetLink DEF LinkSet
<1> HIDE DEF a2
<1>10. LinkSet(a2, a3, "parent", y, p)
  <2>1. a2 \in Tree
    BY <1>9 DEF LinkSet
  <2> QED
    BY <1>2, <1>3, <1>5, <2>1, SetLink
<1> HIDE DEF a3
<1>11. Relinked(a3, a4, p, x, y)
  BY <1>3, <1>5, <1>10, RelinkIs DEF LinkSet
<1> HIDE DEF a4
<1>12. LinkSet(a4, a5, side, y, x)
  BY <1>2, <1>3, <1>11, SetLink DEF Relinked
<1> HIDE DEF a5
<1>13. LinkSet(a5, a6, "parent", x, y)
  <2>1. a5 \in Tree
    BY <1>12 DEF LinkSet
  <2> QED
    BY <1>2, <1>3, <2>1, SetLink
<1> HIDE DEF a6
<1>14. a6 \in Tree /\ a6.red = t.red /\ a6.top = IF t.top = x THEN y ELSE t.top
  BY <1>5, <1>8, <1>9, <1>10, <1>11, <1>12, <1>13 DEF LinkSet, Relinked
<1>15. ASSUME NEW n \in S
       PROVE  a6.parent[n] = IF n = x THEN y ELSE IF n = y THEN p
                             ELSE IF n = b THEN x ELSE t.parent[n]
  <2>1. n \in Nodes
    BY <1>3
  <2>2. a6["parent"][n] = IF n = x THEN y ELSE a5["parent"][n]
    BY <1>2, <1>13, <2>1 DEF LinkSet
  <2>3. a5["parent"][n] = a4["parent"][n]
    BY <1>2, <1>12, <2>1 DEF LinkSet
  <2>4. a4["parent"][n] = a3["parent"][n]
    <3>1. a4["parent"] = a4.parent /\ a3["parent"] = a3.parent
      BY <1>10, <1>11, TreeType DEF LinkSet, Relinked
    <3> QED
      BY <1>11, <3>1 DEF Relinked
  <2>5. a3["parent"][n] = IF n = y THEN p ELSE a2["parent"][n]
    BY <1>2, <1>10, <2>1 DEF LinkSet
  <2>6. a2["parent"][n] = IF n = b THEN x ELSE a1["parent"][n]
    BY <1>2, <1>9, <2>1 DEF LinkSet
  <2>7. a1["parent"][n] = t["parent"][n]
    BY <1>2, <1>8, <2>1 DEF LinkSet
  <2>8. a6["parent"] = a6.parent /\ t["parent"] = t.parent
    BY <1>3, <1>14, TreeType
  <2> QED
    BY <2>2, <2>3, <2>4, <2>5, <2>6, <2>7, <2>8
<1>16. ASSUME NEW n \in S, NEW s \in Sides
       PROVE  /\ a3[s][n] = IF s = o /\ n = x THEN b ELSE t[s][n]
              /\ a4[s][n] = IF n = p /\ s = SideOf(a3, p, x) THEN y ELSE a3[s][n]
              /\ a6[s][n] = IF s = side /\ n = y THEN x ELSE a4[s][n]
  <2>1. n \in Nodes /\ s \in Links /\ s # "parent"
    BY <1>3, OtherSide
  <2>2. a1[s][n] = IF s = o /\ n = x THEN b ELSE t[s][n]
    BY <1>8, <2>1 DEF LinkSet
  <2>3. a2[s][n] = a1[s][n] /\ a3[s][n] = a2[s][n]
    BY <1>9, <1>10, <2>1 DEF LinkSet
  <2>4. a4[s][n] = IF n = p /\ s = SideOf(a3, p, x) THEN y ELSE a3[s][n]
    BY <1>11, <2>1 DEF Relinked
  <2>5. a5[s][n] = IF s = side /\ n = y THEN x ELSE a4[s][n]
    BY <1>12, <2>1 DEF LinkSet
  <2>6. a6[s][n] = a5[s][n]
    BY <1>13, <2>1 DEF LinkSet
  <2> QED
    BY <2>2, <2>3, <2>4, <2>5, <2>6
<1>17. p # 0 => SideOf(a3, p, x) = SideOf(t, p, x)
  <2> SUFFICES ASSUME p # 0 PROVE SideOf(a3, p, x) = SideOf(t, p, x)
    OBVIOUS
  <2>1. "left" \in Sides /\ p \in S
    BY <1>5 DEF Sides
  <2>2. a3["left"][p] = t["left"][p]
    BY <1>6, <1>16, <2>1
  <2>3. a3["left"] = a3.left /\ t["left"] = t.left
    BY <1>3, <1>10, TreeType DEF LinkSet
  <2> QED
    BY <2>2, <2>3 DEF SideOf
<1>18. a6[o][x] = b /\ a6[side][x] = t[side][x] /\ a6[side][y] = x /\ a6[o][y] = t[o][y]
  BY <1>2, <1>3, <1>6, <1>16
<1>19. ASSUME NEW n \in S, NEW s \in Sides, n # x, n # y
       PROVE  a6[s][n] = IF t[s][n] = x THEN y ELSE t[s][n]
  <2>1. a6[s][n] = IF n = p /\ s = SideOf(a3, p, x) THEN y ELSE t[s][n]
    BY <1>16, <1>19
  <2>2. n = p => p # 0
    BY <1>3
  <2> QED
    BY <1>7, <1>17, <2>1, <2>2
<1> QED
  BY <1>1, <1>3, <1>4, <1>6, <1>14, <1>15, <1>18, <1>19 DEF Turned, o, b, p

\* Shape looks at the links of S only.
LEMMA SameShape ==
  ASSUME NEW t, NEW u \in Tree, NEW S, NEW R, NEW sub, Shape(t, S, R, sub),
         u.top = t.top, \A g \in Links, n \in S : u[g][n] = t[g][n]
  PROVE  Shape(u, S, R, sub)
<1>1. /\ t \in Tree /\ S \subseteq Nodes /\ sub \in [Null -> SUBSET S]
      /\ t.top \in S \cup {0} /\ sub[0] = {} /\ sub[t.top] = S
      /\ t.top # 0 => t.parent[t.top] = 0
  BY DEF Shape
<1>2. /\ "left" \in Links /\ "right" \in Links /\ "parent" \in Links /\ Sides \subseteq Links
      /\ 0 \notin S
  BY <1>1, NodeFacts DEF Links, Sides
<1>3. \A n \in S : u.parent[n] = t.parent[n]
  BY <1>1, <1>2, TreeType
<1>4. \A n \in S : Below(u, n, sub) = Below(t, n, sub)
  BY <1>2 DEF Below
<1>5. ASSUME NEW n \in S, NEW s \in Sides PROVE Child(u, S, R, sub, n, s)
  <2>1. Child(t, S, R, sub, n, s) /\ u[s][n] = t[s][n]
    BY <1>2 DEF Shape
  <2> QED
    BY <1>3, <2>1 DEF Child
<1>6. ASSUME NEW n \in S, n # u.top
      PROVE  u.parent[n] \in S /\ \E s \in Sides : u[s][u.parent[n]] = n
  <2>1. t.parent[n] \in S /\ \E s \in Sides : t[s][t.parent[n]] = n
    BY <1>6 DEF Shape
  <2> QED
    BY <1>2, <1>3, <2>1
<1>7. u.top # 0 => u.parent[u.top] = 0
  BY <1>1, <1>3
<1>8. \A n \in S : sub[n] = Below(u, n, sub)
  BY <1>4 DEF Shape
<1> QED
  BY <1>1, <1>5, <1>6, <1>7, <1>8 DEF Shape

LEMMA RotateShape ==
  ASSUME NEW t, NEW S, NEW R, NEW sub, Strict(R), Shape(t, S, R, sub),
         NEW side \in Sides, NEW x \in S, NEW y \in S, y = t[Other(side)][x],
         NEW u, Turned(t, u, S, side, x, y, t[side][y])
  PROVE  Shape(u, S, R, [sub EXCEPT ![x] = {x} \cup sub[t[side][x]] \cup sub[t[side][y]],
                                    ![y] = sub[x]])
<1> DEFINE o == Other(side)
           a == t[side][x]
           b == t[side][y]
           d == t[o][y]
           p == t.parent[x]
           new == [sub EXCEPT ![x] = {x} \cup sub[a] \cup sub[b], ![y] = sub[x]]
<1>1. /\ o \in Sides /\ o # side /\ Other(o) = side /\ \A r \in Sides : r = side \/ r = o
  BY OtherSide
<1>2. /\ t \in Tree /\ S \subseteq Nodes /\ S \subseteq Null /\ 0 \notin S /\ 0 \in Null
      /\ sub \in [Null -> SUBSET S] /\ sub[0] = {} /\ sub[t.top] = S /\ t.top \in S \cup {0}
  BY TopFacts, NodeFacts
<1>3. /\ x # y /\ b # x /\ b # y /\ p # x /\ p # y
      /\ a \in S \cup {0} /\ b \in S \cup {0} /\ d \in S \cup {0} /\ p \in S \cup {0}
      /\ (p = 0 <=> x = t.top)
  BY <1>1, RotateFields, ShapeFacts
<1>4. /\ sub[x] = {x} \cup sub[a] \cup sub[y] /\ sub[y] = {y} \cup sub[b] \cup sub[d]
      /\ sub[a] \subseteq S /\ sub[b] \subseteq S /\ sub[d] \subseteq S /\ sub[y] \subseteq S
      /\ y \in sub[y]
  BY <1>1, ShapeFacts
<1>5. /\ a # x /\ a # y /\ d # x /\ d # y /\ (a # 0 => a # b /\ a # d) /\ (d # 0 => d # b)
      /\ y # t.top
  <2>1. a # x /\ a # y /\ d # y /\ (d # 0 => d # b) /\ y # t.top
    BY <1>1, <1>2, ShapeFacts
  <2>2. d # x
    <3>1. x \notin sub[y] /\ (d # 0 => d \in sub[d])
      BY <1>1, <1>2, ShapeFacts
    <3> QED
      BY <1>2, <1>4, <3>1
  <2>3. a # 0 => a # b /\ a # d
    BY <1>1, <1>2, <1>3, ShapeFacts
  <2> QED
    BY <2>1, <2>2, <2>3
<1>6. /\ u \in Tree /\ u.top = (IF t.top = x THEN y ELSE t.top)
      /\ u[o][x] = b /\ u[side][x] = a /\ u[side][y] = x /\ u[o][y] = d
      /\ \A n \in S : u.parent[n] = IF n = x THEN y ELSE IF n = y THEN p
                                    ELSE IF n = b THEN x ELSE t.parent[n]
      /\ \A n \in S, s \in Sides : n # x /\ n # y =>
           u[s][n] = IF t[s][n] = x THEN y ELSE t[s][n]
  BY DEF Turned
<1>7. ASSUME NEW n \in S, NEW s \in Sides
      PROVE  /\ t[s][n] \in S \cup {0} /\ (t[s][n] # 0 => t.parent[t[s][n]] = n)
             /\ \A m \in sub[t[s][n]] : Aside(R, s, m, n)
             /\ sub[n] = {n} \cup sub[t["left"][n]] \cup sub[t["right"][n]]
  <2>1. Child(t, S, R, sub, n, s)
    BY DEF Shape
  <2> QED
    BY <2>1 DEF Child, Shape, Below
<1> HIDE DEF o, a, b, d, p
<1>8. /\ new \in [Null -> SUBSET S] /\ new[x] = {x} \cup sub[a] \cup sub[b] /\ new[y] = sub[x]
      /\ \A n \in Null : n # x /\ n # y => new[n] = sub[n]
  <2>1. {x} \cup sub[a] \cup sub[b] \in SUBSET S /\ sub[x] \in SUBSET S /\ x \in Null /\ y \in Null
    BY <1>2, <1>4
  <2> QED
    BY <1>2, <1>3, <2>1
<1> HIDE DEF new
<1>9. new[a] = sub[a] /\ new[b] = sub[b] /\ new[d] = sub[d] /\ new[0] = {} /\ new[u.top] = S
  <2>1. /\ a \in Null /\ b \in Null /\ d \in Null /\ 0 # x /\ 0 # y
    BY <1>2, <1>3
  <2>2. new[u.top] = S
    BY <1>2, <1>5, <1>6, <1>8
  <2> QED
    BY <1>2, <1>3, <1>5, <1>8, <2>1, <2>2
<1>10. u.top \in S \cup {0} /\ (u.top # 0 => u.parent[u.top] = 0)
  <2>1. t.top # 0 => t.parent[t.top] = 0
    BY DEF Shape
  <2>2. CASE t.top = x
    BY <1>2, <1>3, <1>6, <2>2
  <2>3. CASE t.top # x
    <3>1. t.top # b
      <4>1. b # 0 => t.parent[b] = y
        BY <1>7 DEF b
      <4> QED
        BY <1>2, <1>3, <2>1, <4>1
    <3> QED
      BY <1>2, <1>3, <1>5, <1>6, <2>1, <2>3, <3>1
  <2> QED
    BY <2>2, <2>3
<1>11. ASSUME NEW n \in S PROVE new[n] = Below(u, n, new)
  <2>1. \A m, l, r : Below(u, m, new) = {m} \cup new[u["left"][m]] \cup new[u["right"][m]]
    BY DEF Below
  <2>2. Below(u, n, new) = {n} \cup new[u[side][n]] \cup new[u[o][n]]
    <3>1. (side = "left" /\ o = "right") \/ (side = "right" /\ o = "left")
      BY <1>1 DEF Sides
    <3> QED
      BY <2>1, <3>1
  <2>3. sub[n] = {n} \cup sub[t[side][n]] \cup sub[t[o][n]]
    BY <1>1, ShapeFacts DEF o
  <2>4. CASE n = x
    BY <1>6, <1>8, <1>9, <2>2, <2>4
  <2>5. CASE n = y
    BY <1>4, <1>6, <1>8, <1>9, <2>2, <2>5
  <2>6. CASE n # x /\ n # y
    <3>1. ASSUME NEW s \in Sides PROVE new[u[s][n]] = sub[t[s][n]]
      <4>1. t[s][n] \in S \cup {0} /\ t[s][n] # y
        <5>1. t[s][n] = y => n = x
          <6>1. t[o][x] = y /\ y # 0
            BY <1>2 DEF o
          <6> QED
            BY <1>1, <6>1, ShapeFacts
        <5> QED
          BY <1>7, <2>6, <5>1
      <4>2. u[s][n] = IF t[s][n] = x THEN y ELSE t[s][n]
        BY <1>6, <2>6
      <4> QED
        BY <1>2, <1>8, <4>1, <4>2
    <3> QED
      BY <1>1, <1>2, <1>8, <2>2, <2>3, <2>6, <3>1
  <2> QED
    BY <2>4, <2>5, <2>6
<1>12. ASSUME NEW n \in S, NEW s \in Sides PROVE Child(u, S, R, new, n, s)
  <2>1. CASE n = x /\ s = side
    BY <1>2, <1>3, <1>5, <1>6, <1>7, <1>9, <2>1 DEF Child, a
  <2>2. CASE n = x /\ s = o
    <3>1. \A m \in sub[b] : m \in sub[y] /\ Aside(R, o, m, x)
      BY <1>1, <1>4, <1>7 DEF o
    <3> QED
      BY <1>2, <1>3, <1>6, <1>9, <2>2, <3>1 DEF Child
  <2>3. CASE n = y /\ s = side
    <3>1. Aside(R, o, y, x) /\ Aside(R, side, x, y)
      <4>1. Aside(R, o, y, x)
        BY <1>1, <1>4, <1>7 DEF o
      <4> QED
        BY <1>1, <1>2, <4>1, AsideFacts DEF o
    <3>2. \A m \in sub[a] : Aside(R, side, m, y)
      <4>1. \A m \in sub[a] : Aside(R, side, m, x) /\ m \in Nodes
        BY <1>2, <1>4, <1>7 DEF a
      <4> QED
        BY <1>2, <3>1, <4>1, AsideFacts
    <3>3. \A m \in sub[b] : Aside(R, side, m, y)
      BY <1>7 DEF b
    <3>4. \A m \in new[x] : Aside(R, side, m, y)
      BY <1>8, <3>1, <3>2, <3>3
    <3> QED
      BY <1>6, <2>3, <3>4 DEF Child
  <2>4. CASE n = y /\ s = o
    <3>1. d # 0 => t.parent[d] = y
      BY <1>1, <1>7 DEF d
    <3>2. \A m \in sub[d] : Aside(R, o, m, y)
      BY <1>1, <1>7 DEF d
    <3> QED
      BY <1>2, <1>3, <1>5, <1>6, <1>9, <2>4, <3>1, <3>2 DEF Child
  <2>5. CASE n # x /\ n # y
    <3>1. t[s][n] \in S \cup {0} /\ (t[s][n] # 0 => t.parent[t[s][n]] = n)
          /\ \A m \in sub[t[s][n]] : Aside(R, s, m, n)
      BY <1>7
    <3>2. t[s][n] # y
      <4>1. t[o][x] = y /\ y # 0
        BY <1>2 DEF o
      <4> QED
        BY <1>1, <2>5, <4>1, ShapeFacts
    <3>3. t[s][n] # 0 => t[s][n] # b
      <4>1. b # 0 => t.parent[b] = y
        BY <1>7 DEF b
      <4> QED
        BY <2>5, <3>1, <4>1
    <3>4. u[s][n] = IF t[s][n] = x THEN y ELSE t[s][n]
      BY <1>6, <2>5
    <3>5. CASE t[s][n] = x
      <4>1. u[s][n] = y /\ u.parent[y] = p /\ p = n
        BY <1>2, <1>3, <1>6, <3>1, <3>4, <3>5 DEF p
      <4>2. new[y] = sub[t[s][n]]
        BY <1>8, <3>5
      <4> QED
        BY <3>1, <4>1, <4>2 DEF Child
    <3>6. CASE t[s][n] # x
      <4>1. u[s][n] = t[s][n] /\ new[t[s][n]] = sub[t[s][n]]
        BY <1>2, <1>8, <3>1, <3>2, <3>4, <3>6
      <4>2. t[s][n] # 0 => u.parent[t[s][n]] = n
        BY <1>6, <3>1, <3>2, <3>3, <3>6
      <4> QED
        BY <3>1, <4>1, <4>2 DEF Child
    <3> QED
      BY <3>5, <3>6
  <2> QED
    BY <1>1, <2>1, <2>2, <2>3, <2>4, <2>5
<1>13. ASSUME NEW n \in S, n # u.top
       PROVE  u.parent[n] \in S /\ \E s \in Sides : u[s][u.parent[n]] = n
  <2>1. n # t.top => t.parent[n] \in S /\ \E s \in Sides : t[s][t.parent[n]] = n
    BY DEF Shape
  <2>2. CASE n = x
    BY <1>6, <2>2
  <2>3. CASE n = y
    <3>1. x # t.top
      BY <1>6, <1>13, <2>3
    <3>2. p \in S /\ \E s \in Sides : t[s][p] = x
      BY <3>1 DEF Shape, p
    <3> QED
      BY <1>3, <1>6, <2>3, <3>2
  <2>4. CASE n # x /\ n # y /\ n = b
    BY <1>1, <1>6, <2>4
  <2>5. CASE n # x /\ n # y /\ n # b
    <3>1. n # t.top
      BY <1>6, <1>13, <2>5
    <3>2. PICK s \in Sides : t[s][t.parent[n]] = n
      BY <2>1, <3>1
    <3>3. t.parent[n] \in S /\ u.parent[n] = t.parent[n]
      BY <1>6, <2>1, <2>5, <3>1
    <3>4. CASE t.parent[n] = x
      BY <1>1, <1>6, <2>5, <3>2, <3>3, <3>4 DEF o, a
    <3>5. CASE t.parent[n] = y
      BY <1>1, <1>6, <2>5, <3>2, <3>3, <3>5 DEF b, d
    <3>6. CASE t.parent[n] # x /\ t.parent[n] # y
      BY <1>6, <2>5, <3>2, <3>3, <3>6
    <3> QED
      BY <3>4, <3>5, <3>6
  <2> QED
    BY <2>2, <2>3, <2>4, <2>5
<1>14. S \subseteq Nodes
  BY <1>2
<1>15. Shape(u, S, R, new)
  BY <1>6, <1>8, <1>9, <1>10, <1>11, <1>12, <1>13, <1>14 DEF Shape
<1> QED
  BY <1>15 DEF new, a, b

\* u has the links of t, and perhaps other colours.
SameLinks(t, u) == u \in Tree /\ u.top = t.top /\ \A g \in Links : u[g] = t[g]

LEMMA ColouredShape ==
  ASSUME NEW t, NEW u, NEW S, NEW R, NEW sub, Shape(t, S, R, sub), SameLinks(t, u)
  PROVE  Shape(u, S, R, sub)
  BY SameShape DEF SameLinks

\* A rotation after a change of colours.
LEMMA RotateColoured ==
  ASSUME NEW t, NEW S, NEW R, NEW sub, Strict(R), Shape(t, S, R, sub),
         NEW side \in Sides, NEW x \in S, NEW y \in S, y = t[Other(side)][x],
         NEW v, SameLinks(t, v)
  PROVE  /\ Turned(t, Rotate(v, side, x), S, side, x, y, t[side][y])
         /\ Rotate(v, side, x).red = v.red
         /\ x # y /\ t[side][y] # x /\ t[side][y] # y /\ t[side][y] \in S \cup {0}
         /\ t.parent[x] # x /\ t.parent[x] # y
         /\ Shape(Rotate(v, side, x), S, R,
                  [sub EXCEPT ![x] = {x} \cup sub[t[side][x]] \cup sub[t[side][y]],
                              ![y] = sub[x]])
<1>1. Shape(v, S, R, sub)
  BY ColouredShape
<1>2. /\ Other(side) \in Links /\ side \in Links /\ "parent" \in Links /\ Sides \subseteq Links
      /\ v.top = t.top /\ t \in Tree /\ v \in Tree
      /\ \A g \in Links : v[g] = t[g]
  BY OtherSide DEF SameLinks, Shape, Links
<1>3. v[Other(side)] = t[Other(side)] /\ v[side] = t[side] /\ v.parent = t.parent
      /\ \A s \in Sides : v[s] = t[s]
  BY <1>2, TreeType
<1>4. /\ Turned(v, Rotate(v, side, x), S, side, x, y, t[side][y])
      /\ Rotate(v, side, x).red = v.red
      /\ x # y /\ t[side][y] # x /\ t[side][y] # y /\ t[side][y] \in S \cup {0}
      /\ t.parent[x] # x /\ t.parent[x] # y
  <2>1. y = v[Other(side)][x]
    BY <1>3
  <2>2. /\ Turned(v, Rotate(v, side, x), S, side, x, y, v[side][y])
        /\ Rotate(v, side, x).red = v.red
        /\ x # y /\ v[side][y] # x /\ v[side][y] # y /\ v[side][y] \in S \cup {0}
        /\ v.parent[x] # x /\ v.parent[x] # y
    BY <1>1, <2>1, RotateFields
  <2> QED
    BY <1>3, <2>2
<1> DEFINE u == Rotate(v, side, x)
<1> HIDE DEF u
<1>5. Turned(t, u, S, side, x, y, t[side][y])
  BY <1>2, <1>3, <1>4 DEF Turned, u
<1>6. Shape(u, S, R, [sub EXCEPT ![x] = {x} \cup sub[t[side][x]] \cup sub[t[side][y]],
                                 ![y] = sub[x]])
  BY <1>5, RotateShape
<1> QED
  BY <1>4, <1>5, <1>6 DEF u
-----------------------------------------------------------------------------
(* Colours.  bh gives the number of black nodes on each way down from a    *)
(* node, without itself; on the side ds of dp one of them is missing.      *)

Blk(t, n) == IF n # 0 /\ ~t.red[n] THEN 1 ELSE 0
Short(n, s, dp, ds) == IF n = dp /\ s = ds THEN 1 ELSE 0

HeightAt(t, bh, dp, ds, n, s) ==
  bh[n] = bh[t[s][n]] + Blk(t, t[s][n]) + Short(n, s, dp, ds)

Heights(t, S, bh, dp, ds) ==
  /\ bh \in [Null -> Nat] /\ bh[0] = 0
  /\ \A n \in S, s \in Sides : HeightAt(t, bh, dp, ds, n, s)

\* A red child of a red node is f, or a child of e.
Reds(t, S, e, f) ==
  \A n \in S, s \in Sides :
    t[s][n] # 0 /\ t.red[n] /\ t.red[t[s][n]] => n = e \/ t[s][n] = f

LEMMA HeightFacts ==
  ASSUME NEW t, NEW S, S \subseteq Nodes, NEW bh, NEW dp, NEW ds, Heights(t, S, bh, dp, ds)
  PROVE  /\ bh \in [Null -> Nat] /\ bh[0] = 0 /\ \A n \in S \cup {0} : bh[n] \in Nat
         /\ \A n \in S, s \in Sides :
              bh[n] = bh[t[s][n]] + Blk(t, t[s][n]) + Short(n, s, dp, ds)
<1>1. S \cup {0} \subseteq Null
  BY NodeFacts
<1> QED
  BY <1>1 DEF Heights, HeightAt

\* Only colours of nodes count.
LEMMA SameHeights ==
  ASSUME NEW t, NEW u, NEW S, NEW R, NEW sub, Strict(R), Shape(t, S, R, sub),
         NEW bh, NEW dp, NEW ds, Heights(t, S, bh, dp, ds),
         \A s \in Sides, n \in S : u[s][n] = t[s][n],
         \A n \in S : u.red[n] = t.red[n]
  PROVE  Heights(u, S, bh, dp, ds)
<1>1. ASSUME NEW n \in S, NEW s \in Sides PROVE HeightAt(u, bh, dp, ds, n, s)
  <2>1. t[s][n] \in S \cup {0} /\ u[s][n] = t[s][n]
    BY ShapeFacts
  <2>2. Blk(u, t[s][n]) = Blk(t, t[s][n])
    BY <2>1 DEF Blk
  <2>3. HeightAt(t, bh, dp, ds, n, s)
    BY DEF Heights
  <2> QED
    BY <2>1, <2>2, <2>3 DEF HeightAt
<1> QED
  BY <1>1 DEF Heights

\* When x and its red child y trade colours in a rotation, every way down keeps
\* its black nodes.
LEMMA TurnRed ==
  ASSUME NEW t, NEW S, NEW R, NEW sub, Strict(R), Shape(t, S, R, sub),
         NEW side \in Sides, NEW x \in S, NEW y \in S, y = t[Other(side)][x],
         NEW bh, NEW dp, NEW ds, Heights(t, S, bh, dp, ds),
         dp # y, ~(dp = x /\ ds = Other(side)),
         NEW u, Turned(t, u, S, side, x, y, t[side][y]),
         t.red[y], u.red[x] = TRUE, u.red[y] = t.red[x],
         \A n \in S : n # x /\ n # y => u.red[n] = t.red[n]
  PROVE  Heights(u, S, bh, dp, ds)
<1> DEFINE o == Other(side)
           a == t[side][x]
           b == t[side][y]
           d == t[o][y]
<1>1. /\ o \in Sides /\ o # side /\ Other(o) = side /\ \A r \in Sides : r = side \/ r = o
  BY OtherSide
<1>2. /\ x # y /\ b # x /\ b # y /\ a # x /\ a # y /\ d # y /\ x # 0 /\ y # 0
      /\ a \in S \cup {0} /\ b \in S \cup {0} /\ d \in S \cup {0}
  BY <1>1, RotateFields, ShapeFacts
<1>3. d # x
  <2>1. x \notin sub[y]
    BY <1>1, ShapeFacts
  <2>2. d # 0 => d \in sub[d] /\ sub[d] \subseteq sub[y]
    BY <1>1, ShapeFacts
  <2> QED
    BY <1>2, <2>1, <2>2
<1>4. /\ u[o][x] = b /\ u[side][x] = a /\ u[side][y] = x /\ u[o][y] = d
      /\ \A n \in S, s \in Sides : n # x /\ n # y =>
           u[s][n] = IF t[s][n] = x THEN y ELSE t[s][n]
  BY DEF Turned
<1>5. bh \in [Null -> Nat] /\ \A n \in S \cup {0} : bh[n] \in Nat
  <2>1. S \cup {0} \subseteq Null
    BY TopFacts, NodeFacts
  <2> QED
    BY <2>1 DEF Heights
<1>6. ASSUME NEW n \in S, NEW s \in Sides
      PROVE  bh[n] = bh[t[s][n]] + Blk(t, t[s][n]) + Short(n, s, dp, ds)
  BY DEF Heights, HeightAt
<1> HIDE DEF o, a, b, d
<1>7. \A n \in S \cup {0} : n # x /\ n # y => Blk(u, n) = Blk(t, n)
  BY DEF Blk
<1>8. Blk(t, y) = 0 /\ Blk(u, x) = 0 /\ Blk(u, y) = Blk(t, x)
  BY <1>2 DEF Blk
<1>9. Blk(t, x) \in Nat /\ \A n \in S \cup {0} : Blk(t, n) \in Nat
  BY DEF Blk
<1>10. bh[x] = bh[y] /\ bh[y] = bh[b] + Blk(t, b)
  <2>1. Short(x, o, dp, ds) = 0 /\ Short(y, side, dp, ds) = 0
    BY DEF Short, o
  <2>2. bh[x] = bh[y] + Blk(t, y) + 0
    BY <1>1, <1>6, <2>1 DEF o
  <2>3. bh[y] = bh[b] + Blk(t, b) + 0
    BY <1>6, <2>1 DEF b
  <2> QED
    BY <1>2, <1>5, <1>8, <1>9, <2>2, <2>3
<1>11. ASSUME NEW n \in S, NEW s \in Sides PROVE HeightAt(u, bh, dp, ds, n, s)
  <2>1. CASE n = x /\ s = side
    BY <1>2, <1>4, <1>6, <1>7, <2>1 DEF HeightAt, a
  <2>2. CASE n = x /\ s = o
    <3>1. Short(x, o, dp, ds) = 0
      BY DEF Short, o
    <3>2. bh[x] = bh[b] + Blk(u, b) + 0
      BY <1>2, <1>5, <1>7, <1>9, <1>10
    <3> QED
      BY <1>4, <2>2, <3>1, <3>2 DEF HeightAt
  <2>3. CASE n = y /\ s = side
    <3>1. Short(y, side, dp, ds) = 0
      BY DEF Short
    <3>2. bh[y] = bh[x] + Blk(u, x) + 0
      BY <1>2, <1>5, <1>8, <1>10
    <3> QED
      BY <1>4, <2>3, <3>1, <3>2 DEF HeightAt
  <2>4. CASE n = y /\ s = o
    BY <1>1, <1>2, <1>3, <1>4, <1>6, <1>7, <2>4 DEF HeightAt, d
  <2>5. CASE n # x /\ n # y
    <3>1. t[s][n] \in S \cup {0} /\ t[s][n] # y
      <4>1. t[o][x] = y /\ t[s][n] \in S \cup {0}
        BY ShapeFacts DEF o
      <4> QED
        BY <1>1, <1>2, <2>5, <4>1, ShapeFacts
    <3>2. u[s][n] = IF t[s][n] = x THEN y ELSE t[s][n]
      BY <1>4, <2>5
    <3>3. bh[u[s][n]] = bh[t[s][n]] /\ Blk(u, u[s][n]) = Blk(t, t[s][n])
      BY <1>7, <1>8, <1>10, <3>1, <3>2
    <3> QED
      BY <1>6, <3>3 DEF HeightAt
  <2> QED
    BY <1>1, <2>1, <2>2, <2>3, <2>4, <2>5
<1> QED
  BY <1>11 DEF Heights

\* x and its red child y traded colours in a rotation.
Traded(t, u, S, side, x, y) ==
  /\ y = t[Other(side)][x] /\ Turned(t, u, S, side, x, y, t[side][y])
  /\ t.red[y] /\ u.red[x] = TRUE /\ u.red[y] = t.red[x]
  /\ \A n \in S : n # x /\ n # y => u.red[n] = t.red[n]

LEMMA TradedShort ==
  ASSUME NEW t, NEW S, NEW R, NEW sub, Strict(R), Shape(t, S, R, sub),
         NEW bh, NEW dp, NEW ds, Heights(t, S, bh, dp, ds),
         NEW u, NEW side \in Sides, NEW x \in S, NEW y \in S, Traded(t, u, S, side, x, y),
         dp # y, ~(dp = x /\ ds = Other(side))
  PROVE  Heights(u, S, bh, dp, ds)
<1>1. /\ y = t[Other(side)][x] /\ Turned(t, u, S, side, x, y, t[side][y])
      /\ t.red[y] /\ u.red[x] = TRUE /\ u.red[y] = t.red[x]
      /\ \A n \in S : n # x /\ n # y => u.red[n] = t.red[n]
  BY DEF Traded
<1> QED
  BY <1>1, TurnRed, ZenonT(60)

LEMMA TradedHeights ==
  ASSUME NEW t, NEW S, NEW R, NEW sub, Strict(R), Shape(t, S, R, sub),
         NEW bh, Heights(t, S, bh, 0, "left"),
         NEW u, NEW side \in Sides, NEW x \in S, NEW y \in S, Traded(t, u, S, side, x, y)
  PROVE  Heights(u, S, bh, 0, "left")
<1>1. 0 # x /\ 0 # y
  BY TopFacts
<1>2. /\ y = t[Other(side)][x] /\ Turned(t, u, S, side, x, y, t[side][y])
      /\ t.red[y] /\ u.red[x] = TRUE /\ u.red[y] = t.red[x]
      /\ \A n \in S : n # x /\ n # y => u.red[n] = t.red[n]
  BY DEF Traded
<1> QED
  BY <1>1, <1>2, TurnRed, ZenonT(60)
-----------------------------------------------------------------------------
(* The fixup of an insertion: s.at is red and may have a red parent.       *)

Fixing(t, at, S, R, sub, bh) ==
  /\ Shape(t, S, R, sub) /\ Heights(t, S, bh, 0, "left")
  /\ at \in S /\ t.red[at] /\ Reds(t, S, 0, at)
  /\ t.top # at => ~t.red[t.top]

\* s.at is not the top, and its parent is red.
InsertGoesOn(s) == s.tree.top # s.at /\ IsRed(s.tree, s.tree.parent[s.at])

\* The parent and grandparent of s.at.
LEMMA InsertFacts ==
  ASSUME NEW t, NEW S, NEW R, NEW sub, Strict(R), Shape(t, S, R, sub),
         NEW at \in S, Reds(t, S, 0, at), at # t.top, ~t.red[t.top],
         NEW p, p = t.parent[at], t.red[p], NEW g, g = t.parent[p],
         NEW side, side = SideOf(t, g, p)
  PROVE  /\ p \in S /\ g \in S /\ side \in Sides /\ t[side][g] = p /\ ~t.red[g]
         /\ p # t.top /\ at # p /\ at # g /\ p # g
         /\ \E r \in Sides : t[r][p] = at
         /\ t[Other(side)][g] \in S \cup {0} /\ t[Other(side)][g] # p
         /\ t[Other(side)][g] # at /\ t[Other(side)][g] # g
<1>1. p \in S /\ at # 0 /\ \E r \in Sides : t[r][p] = at
  BY SideOfIs, TopFacts
<1>2. p # t.top
  OBVIOUS
<1>3. g \in S /\ side \in Sides /\ t[side][g] = p
  BY <1>1, <1>2, SideOfIs
<1>4. at # p /\ p # g
  BY <1>1, <1>3, ShapeFacts
<1>5. at # g
  <2>1. Cardinality(sub[at]) < Cardinality(sub[p]) /\ Cardinality(sub[p]) < Cardinality(sub[g])
    BY <1>1, <1>3, Smaller
  <2>2. \A n \in S : Cardinality(sub[n]) \in Nat
    BY TopFacts
  <2> QED
    BY <1>1, <1>3, <2>1, <2>2
<1>6. ~t.red[g]
  <2>1. p # 0 /\ g # 0
    BY <1>1, <1>3, TopFacts
  <2> QED
    BY <1>3, <1>4, <2>1 DEF Reds
<1>7. Other(side) \in Sides /\ Other(side) # side
  BY <1>3, OtherSide
<1>8. /\ t[Other(side)][g] \in S \cup {0} /\ t[Other(side)][g] # p
      /\ t[Other(side)][g] # at /\ t[Other(side)][g] # g
  BY <1>1, <1>3, <1>4, <1>7, ShapeFacts, TopFacts
<1> QED
  BY <1>1, <1>2, <1>3, <1>4, <1>5, <1>6, <1>8

\* u has the links of t; three colours, or two, are others.
Reds3(t, u, a, b, c, f, g, h) ==
  /\ SameLinks(t, u)
  /\ \A n \in Nodes : u.red[n] = IF n = c THEN h ELSE IF n = b THEN g
                                 ELSE IF n = a THEN f ELSE t.red[n]

Reds2(t, u, a, b, f, g) ==
  /\ SameLinks(t, u)
  /\ \A n \in Nodes : u.red[n] = IF n = b THEN g ELSE IF n = a THEN f ELSE t.red[n]

LEMMA ThreeReds ==
  ASSUME NEW t \in Tree, NEW a \in Null, NEW b \in Null, NEW c \in Null,
         NEW f \in BOOLEAN, NEW g \in BOOLEAN, NEW h \in BOOLEAN
  PROVE  Reds3(t, Set(Set(Set(t, "red", a, f), "red", b, g), "red", c, h),
               a, b, c, f, g, h)
<1> DEFINE u1 == Set(t, "red", a, f)
           u2 == Set(u1, "red", b, g)
           u == Set(u2, "red", c, h)
<1>1. RedSet(t, u1, a, f)
  BY SetRed
<1>2. RedSet(u1, u2, b, g)
  <2>1. u1 \in Tree
    BY <1>1 DEF RedSet
  <2> HIDE DEF u1
  <2> QED
    BY <2>1, SetRed
<1>3. RedSet(u2, u, c, h)
  <2>1. u2 \in Tree
    BY <1>2 DEF RedSet
  <2> HIDE DEF u2
  <2> QED
    BY <2>1, SetRed
<1> SUFFICES Reds3(t, u, a, b, c, f, g, h)
  OBVIOUS
<1> HIDE DEF u, u1, u2
<1> QED
  BY <1>1, <1>2, <1>3 DEF RedSet, SameLinks, Reds3

LEMMA TwoReds ==
  ASSUME NEW t \in Tree, NEW a \in Null, NEW b \in Null,
         NEW f \in BOOLEAN, NEW g \in BOOLEAN
  PROVE  Reds2(t, Set(Set(t, "red", a, f), "red", b, g), a, b, f, g)
<1> DEFINE u1 == Set(t, "red", a, f)
           u == Set(u1, "red", b, g)
<1>1. RedSet(t, u1, a, f)
  BY SetRed
<1>2. RedSet(u1, u, b, g)
  <2>1. u1 \in Tree
    BY <1>1 DEF RedSet
  <2> HIDE DEF u1
  <2> QED
    BY <2>1, SetRed
<1> SUFFICES Reds2(t, u, a, b, f, g)
  OBVIOUS
<1> HIDE DEF u, u1
<1> QED
  BY <1>1, <1>2 DEF RedSet, SameLinks, Reds2

\* The links of a tree with other colours.
LEMMA LinksSame ==
  ASSUME NEW t \in Tree, NEW u, SameLinks(t, u)
  PROVE  /\ u \in Tree /\ u.top = t.top /\ u.parent = t.parent
         /\ u.left = t.left /\ u.right = t.right
         /\ \A s \in Sides : u[s] = t[s]
<1>1. u \in Tree /\ \A g \in Links : u[g] = t[g]
  BY DEF SameLinks
<1>2. "left" \in Links /\ "right" \in Links /\ "parent" \in Links /\ Sides \subseteq Links
  BY DEF Links, Sides
<1> QED
  BY <1>1, <1>2, TreeType DEF SameLinks

\* "at" has a red parent p, which is on the given side of g; y is on the other one.
Family(t, at, side, p, g, y) ==
  /\ t.top # at /\ t.top # p
  /\ t[side][g] = p /\ t[Other(side)][g] = y /\ \E r \in Sides : t[r][p] = at
  /\ t.red[p] /\ ~t.red[g] /\ p # g /\ y # g /\ y # p

\* Parent p and uncle y are black, the grandparent g is red.
Pushed(t, u, S, p, g, y) ==
  /\ SameLinks(t, u) /\ u.red[g] /\ ~u.red[p] /\ ~u.red[y]
  /\ \A n \in S : n \notin {g, p, y} => u.red[n] = t.red[n]

LEMMA RedUncle ==
  ASSUME NEW t, NEW S, NEW R, NEW sub, Strict(R), NEW bh, NEW at \in S,
         Fixing(t, at, S, R, sub, bh),
         NEW p \in S, NEW g \in S, NEW y \in S, NEW side \in Sides,
         Family(t, at, side, p, g, y), t.red[y],
         NEW u, Pushed(t, u, S, p, g, y)
  PROVE  \E new : Fixing(u, g, S, R, sub, new)
<1>0. /\ Shape(t, S, R, sub) /\ Heights(t, S, bh, 0, "left")
      /\ Reds(t, S, 0, at) /\ ~t.red[t.top]
      /\ t[side][g] = p /\ t[Other(side)][g] = y /\ \E r \in Sides : t[r][p] = at
      /\ t.red[p] /\ t.red[y] /\ ~t.red[g] /\ p # g /\ y # g /\ y # p
      /\ SameLinks(t, u) /\ u.red[g] /\ ~u.red[p] /\ ~u.red[y]
      /\ \A n \in S : n \notin {g, p, y} => u.red[n] = t.red[n]
  BY DEF Pushed, Family, Fixing
<1> USE <1>0
<1> DEFINE o == Other(side)
           new == [bh EXCEPT ![g] = bh[g] + 1]
<1>3. /\ o \in Sides /\ o # side /\ \A r \in Sides : r = side \/ r = o
  BY OtherSide
<1>4. /\ S \subseteq Nodes /\ S \subseteq Null /\ 0 \notin S /\ t \in Tree /\ t.top \in S
  BY TopFacts
<1>5. Shape(u, S, R, sub)
  BY ColouredShape
<1>6. \A s \in Sides : u[s] = t[s] /\ u.top = t.top
  BY <1>4, LinksSame
<1>7. \A n \in S, s \in Sides :
        /\ t[s][n] \in S \cup {0} /\ (t[s][n] = p => n = g /\ s = side)
        /\ (t[s][n] = y => n = g /\ s = o) /\ (t[s][n] = at => n = p)
  <2>1. p # 0 /\ at # 0 /\ y # 0
    BY <1>4
  <2>2. PICK r \in Sides : t[r][p] = at
    OBVIOUS
  <2>3. t[o][g] = y
    OBVIOUS
  <2>4. ASSUME NEW n \in S, NEW s \in Sides
        PROVE  /\ t[s][n] \in S \cup {0} /\ (t[s][n] = at => n = p)
               /\ (t[s][n] = p => n = g /\ s = side) /\ (t[s][n] = y => n = g /\ s = o)
    <3> HIDE DEF o
    <3>1. t[s][n] \in S \cup {0}
      BY ChildIn
    <3>2. t[s][n] = at => n = p
      BY <2>1, <2>2, OneParent
    <3>3. t[s][n] = p => n = g /\ s = side
      BY <2>1, OneParent
    <3>4. t[s][n] = y => n = g /\ s = o
      BY <1>3, <2>1, <2>3, OneParent
    <3> QED
      BY <3>1, <3>2, <3>3, <3>4
  <2> QED
    BY <2>4
<1>8. bh \in [Null -> Nat] /\ bh[0] = 0 /\ \A n \in S \cup {0} : bh[n] \in Nat
  <2>1. bh \in [Null -> Nat] /\ bh[0] = 0
    BY DEF Heights
  <2>2. S \cup {0} \subseteq Null
    BY <1>4, NodeFacts
  <2> QED
    BY <2>1, <2>2
<1>9. new \in [Null -> Nat] /\ new[g] = bh[g] + 1 /\ \A n \in Null : n # g => new[n] = bh[n]
  <2>1. g \in Null /\ bh[g] + 1 \in Nat
    BY <1>4, <1>8
  <2> QED
    BY <1>8, <2>1
<1> HIDE DEF new, o
<1>10. ASSUME NEW n \in S, NEW s \in Sides
       PROVE  bh[n] = bh[t[s][n]] + Blk(t, t[s][n])
  <2>1. Short(n, s, 0, "left") = 0
    BY <1>4 DEF Short
  <2>2. bh[n] = bh[t[s][n]] + Blk(t, t[s][n]) + 0
    BY <2>1 DEF Heights, HeightAt
  <2>3. bh[t[s][n]] \in Nat /\ Blk(t, t[s][n]) \in Nat
    BY <1>7, <1>8 DEF Blk
  <2> QED
    BY <2>2, <2>3
<1>11. /\ Blk(u, g) = 0 /\ Blk(t, g) = 1 /\ Blk(u, p) = 1 /\ Blk(t, p) = 0
       /\ Blk(u, y) = 1 /\ Blk(t, y) = 0
       /\ \A n \in S \cup {0} : n \notin {g, p, y} => Blk(u, n) = Blk(t, n)
  BY <1>4 DEF Blk
<1>12. ASSUME NEW n \in S, NEW s \in Sides PROVE HeightAt(u, new, 0, "left", n, s)
  <2>1. Short(n, s, 0, "left") = 0
    BY <1>4 DEF Short
  <2>2. n \in Null /\ t[s][n] \in Null /\ bh[n] \in Nat /\ bh[t[s][n]] \in Nat
    BY <1>4, <1>7, <1>8, NodeFacts
  <2>3. new[n] = new[t[s][n]] + Blk(u, t[s][n]) + 0
    <3>1. CASE n = g
      <4>1. t[s][n] = p \/ t[s][n] = y
        BY <1>3, <3>1 DEF o
      <4>2. new[n] = bh[n] + 1 /\ new[t[s][n]] = bh[t[s][n]]
        BY <1>9, <2>2, <3>1, <4>1
      <4>3. Blk(u, t[s][n]) = 1 /\ Blk(t, t[s][n]) = 0
        BY <1>11, <4>1
      <4> QED
        BY <1>10, <2>2, <4>2, <4>3
    <3>2. CASE n # g /\ t[s][n] = g
      <4>1. new[n] = bh[n] /\ new[t[s][n]] = bh[t[s][n]] + 1
        BY <1>9, <2>2, <3>2
      <4>2. Blk(u, t[s][n]) = 0 /\ Blk(t, t[s][n]) = 1
        BY <1>11, <3>2
      <4> QED
        BY <1>10, <2>2, <4>1, <4>2
    <3>3. CASE n # g /\ t[s][n] # g
      <4>1. new[n] = bh[n] /\ new[t[s][n]] = bh[t[s][n]]
        BY <1>9, <2>2, <3>3
      <4>2. t[s][n] \notin {g, p, y} /\ t[s][n] \in S \cup {0}
        BY <1>7, <3>3
      <4>3. Blk(u, t[s][n]) = Blk(t, t[s][n]) /\ Blk(t, t[s][n]) \in Nat
        BY <1>11, <4>2 DEF Blk
      <4> QED
        BY <1>10, <2>2, <4>1, <4>3
    <3> QED
      BY <3>1, <3>2, <3>3
  <2> QED
    BY <1>6, <2>1, <2>3 DEF HeightAt
<1>13. Heights(u, S, new, 0, "left")
  <2>1. new[0] = 0
    BY <1>4, <1>8, <1>9, NodeFacts
  <2> QED
    BY <1>9, <1>12, <2>1 DEF Heights
<1>14. u.red[g] /\ (u.top # g => ~u.red[u.top])
  BY <1>4, <1>6, <1>7
<1>15. Reds(u, S, 0, g)
  <2> SUFFICES ASSUME NEW n \in S, NEW s \in Sides, u[s][n] # 0, u.red[n], u.red[u[s][n]],
                      u[s][n] # g
               PROVE  FALSE
    BY DEF Reds
  <2>1. u[s][n] = t[s][n] /\ t[s][n] \in S /\ n \in Nodes /\ t[s][n] \in Nodes
    BY <1>4, <1>6, <1>7
  <2>2. t[s][n] \notin {p, y} /\ t.red[t[s][n]] /\ n \notin {p, y}
    <3>1. t[s][n] # p /\ t[s][n] # y /\ n # p /\ n # y
      BY <2>1
    <3>2. u.red[t[s][n]] = t.red[t[s][n]]
      BY <2>1, <3>1
    <3> QED
      BY <2>1, <3>1, <3>2
  <2>3. n # g
    BY <1>3, <2>2 DEF o
  <2>4. t.red[n] /\ n # 0
    BY <1>4, <2>1, <2>2, <2>3
  <2>5. t[s][n] = at
    BY <2>1, <2>2, <2>4 DEF Reds
  <2> QED
    BY <1>7, <2>2, <2>5
<1>16. Fixing(u, g, S, R, sub, new)
  BY <1>5, <1>13, <1>14, <1>15 DEF Fixing
<1> QED
  BY <1>16

\* "at" and its red parent q are on the same side of g, whose other child is black.
OuterChild(t, at, side, q, g) ==
  /\ t.top # at /\ t[side][g] = q /\ t[side][q] = at /\ t.red[q] /\ ~t.red[g]
  /\ ~IsRed(t, t[Other(side)][g])

\* s.at is an inner grandchild: it trades places with its parent.
LEMMA InnerTurn ==
  ASSUME NEW t, NEW S, NEW R, NEW sub, Strict(R), NEW bh, NEW at \in S,
         Fixing(t, at, S, R, sub, bh), NEW p \in S, NEW g \in S, NEW y,
         NEW side \in Sides, Family(t, at, side, p, g, y),
         t[Other(side)][p] = at, ~IsRed(t, y)
  PROVE  /\ \E new : Fixing(Rotate(t, side, p), p, S, R, new, bh)
         /\ OuterChild(Rotate(t, side, p), p, side, at, g)
<1> DEFINE u == Rotate(t, side, p)
<1>0. /\ Shape(t, S, R, sub) /\ Heights(t, S, bh, 0, "left")
      /\ t.red[at] /\ Reds(t, S, 0, at) /\ ~t.red[t.top]
      /\ t[side][g] = p /\ t[Other(side)][p] = at /\ t.red[p] /\ ~t.red[g]
      /\ t.top # p /\ t[Other(side)][g] = y /\ p # g
  BY DEF Fixing, Family
<1> USE <1>0
<1> DEFINE o == Other(side)
           b == t[side][at]
<1>1. /\ o \in Sides /\ o # side /\ Other(o) = side /\ \A r \in Sides : r = side \/ r = o
  BY OtherSide
<1>2. /\ S \subseteq Nodes /\ S \subseteq Null /\ 0 \notin S /\ t \in Tree /\ t.top \in S
  BY TopFacts
<1>3. SameLinks(t, t)
  BY <1>2 DEF SameLinks
<1>4. /\ Turned(t, u, S, side, p, at, b) /\ u.red = t.red
      /\ p # at /\ b # p /\ b # at /\ b \in S \cup {0}
      /\ \E new : Shape(u, S, R, new)
  <2>1. at = t[Other(side)][p]
    BY <1>0
  <2>2. /\ Turned(t, Rotate(t, side, p), S, side, p, at, t[side][at])
        /\ Rotate(t, side, p).red = t.red
        /\ p # at /\ t[side][at] # p /\ t[side][at] # at /\ t[side][at] \in S \cup {0}
        /\ Shape(Rotate(t, side, p), S, R,
                 [sub EXCEPT ![p] = {p} \cup sub[t[side][p]] \cup sub[t[side][at]],
                             ![at] = sub[p]])
    BY <1>3, <2>1, RotateColoured
  <2> QED
    BY <2>2, Zenon DEF u
<1> HIDE DEF u
<1>5. Heights(u, S, bh, 0, "left")
  <2>1. u.red[p] = TRUE /\ u.red[at] = t.red[p]
        /\ \A n \in S : n # p /\ n # at => u.red[n] = t.red[n]
    <3>1. t.red[p] \in BOOLEAN /\ t.red[at] \in BOOLEAN
      BY <1>2 DEF Tree
    <3> QED
      BY <1>4, <3>1
  <2>2. Traded(t, u, S, side, p, at)
    BY <1>4, <2>1 DEF Traded
  <2> QED
    BY <2>2, TradedHeights
<1>6. g # p /\ g # at
  <2>1. g # p
    BY ShapeFacts
  <2>2. t.red[at] /\ ~t.red[g]
    OBVIOUS
  <2> QED
    BY <2>1, <2>2
<1>7. /\ u[o][p] = b /\ u[side][p] = t[side][p] /\ u[side][at] = p /\ u[o][at] = t[o][at]
      /\ \A n \in S, s \in Sides : n # p /\ n # at =>
           u[s][n] = IF t[s][n] = p THEN at ELSE t[s][n]
      /\ u.top = IF t.top = p THEN at ELSE t.top
  BY <1>4 DEF Turned
<1>8. t.top # p
  OBVIOUS
<1>9. t[o][g] # p
  <2>1. t[side][g] # 0 => t[side][g] # t[o][g]
    BY ShapeFacts, SMTT(60)
  <2> QED
    BY <1>2, <2>1
<1>10. u[side][g] = at /\ u[o][g] = t[o][g]
  BY <1>1, <1>6, <1>7, <1>9
<1> HIDE DEF o, b
<1>11. Reds(u, S, 0, p)
  <2> SUFFICES ASSUME NEW n \in S, NEW s \in Sides, u[s][n] # 0, t.red[n], t.red[u[s][n]],
                      u[s][n] # p
               PROVE  FALSE
    BY <1>4 DEF Reds
  <2>1. \A m \in S, r \in Sides : t[r][m] # 0 /\ t.red[m] /\ t.red[t[r][m]] => t[r][m] = at
    BY <1>2 DEF Reds
  <2>2. CASE n = p /\ s = side
    <3>1. t[side][p] = at
      BY <1>7, <2>1, <2>2
    <3>2. t[side][p] # 0 => t[side][p] # t[o][p]
      BY ShapeFacts, SMTT(60) DEF o
    <3> QED
      BY <1>2, <3>1, <3>2 DEF o
  <2>3. CASE n = p /\ s = o
    <3>1. b = at
      BY <1>7, <2>1, <2>3 DEF b
    <3> QED
      BY <1>4, <3>1
  <2>4. CASE n = at /\ s = side
    BY <1>7, <2>4
  <2>5. CASE n = at /\ s = o
    <3>1. t[o][at] = at
      BY <1>1, <1>7, <2>1, <2>5
    <3>2. t[o][at] # at
      BY <1>1, ShapeFacts
    <3> QED
      BY <3>1, <3>2
  <2>6. CASE n # p /\ n # at
    <3>1. u[s][n] = IF t[s][n] = p THEN at ELSE t[s][n]
      BY <1>7, <2>6
    <3>2. CASE t[s][n] = p
      <4>1. n = g
        BY <1>2, <3>2, OneParent
      <4> QED
        BY <4>1
    <3>3. CASE t[s][n] # p
      <4>1. t[s][n] = at
        BY <2>1, <3>1, <3>3
      <4>2. n = p
        BY <1>1, <1>2, <4>1, OneParent DEF o
      <4> QED
        BY <2>6, <4>2
    <3> QED
      BY <3>2, <3>3
  <2> QED
    BY <1>1, <2>2, <2>3, <2>4, <2>5, <2>6
<1>12. PICK new : Shape(u, S, R, new)
  BY <1>4
<1>13. u.red[p] /\ (u.top # p => ~u.red[u.top])
  BY <1>4, <1>7
<1>14. Fixing(u, p, S, R, new, bh)
  BY <1>5, <1>11, <1>12, <1>13 DEF Fixing
<1>15. OuterChild(u, p, side, at, g)
  <2>1. u.top # p /\ u[side][g] = at /\ u[side][at] = p /\ u.red[at] /\ ~u.red[g]
    BY <1>4, <1>7, <1>8, <1>10
  <2>2. u[o][g] = y
    BY <1>10 DEF o
  <2>3. ~IsRed(u, u[o][g])
    BY <1>4, <2>2 DEF IsRed
  <2> QED
    BY <2>1, <2>3 DEF o, OuterChild
<1> QED
  BY <1>14, <1>15 DEF u

\* s.at is an outer grandchild: its parent becomes black and goes up.
LEMMA OuterTurn ==
  ASSUME NEW t, NEW S, NEW R, NEW sub, Strict(R), NEW bh, NEW at \in S,
         Fixing(t, at, S, R, sub, bh), NEW q \in S, NEW g \in S, NEW side \in Sides,
         OuterChild(t, at, side, q, g), NEW v, Reds2(t, v, q, g, FALSE, TRUE)
  PROVE  /\ \E new : Fixing(Rotate(v, Other(side), g), at, S, R, new, bh)
         /\ Rotate(v, Other(side), g).parent[at] = q
         /\ ~IsRed(Rotate(v, Other(side), g), q)
<1> DEFINE u == Rotate(v, Other(side), g)
<1>0. /\ Shape(t, S, R, sub) /\ Heights(t, S, bh, 0, "left")
      /\ t.red[at] /\ Reds(t, S, 0, at) /\ ~t.red[t.top]
      /\ t[side][g] = q /\ t[side][q] = at /\ t.red[q] /\ ~t.red[g]
      /\ ~IsRed(t, t[Other(side)][g])
  BY DEF Fixing, OuterChild
<1>00. /\ SameLinks(t, v) /\ v.red[q] = FALSE /\ v.red[g] = TRUE
       /\ \A n \in S : n # q /\ n # g => v.red[n] = t.red[n]
  <2>1. /\ SameLinks(t, v)
        /\ \A n \in Nodes : v.red[n] = IF n = g THEN TRUE ELSE IF n = q THEN FALSE
                                       ELSE t.red[n]
    BY DEF Reds2
  <2>2. S \subseteq Nodes
    BY <1>0 DEF Shape
  <2>3. q # g
    BY <1>0
  <2> QED
    BY <2>1, <2>2, <2>3
<1> USE <1>0, <1>00
<1> DEFINE o == Other(side)
           b == t[o][q]
<1>1. /\ o \in Sides /\ o # side /\ Other(o) = side /\ \A r \in Sides : r = side \/ r = o
  BY OtherSide
<1>2. /\ S \subseteq Nodes /\ S \subseteq Null /\ 0 \notin S /\ t \in Tree /\ t.top \in S
  BY TopFacts
<1>3. /\ Turned(t, u, S, o, g, q, b) /\ u.red = v.red
      /\ g # q /\ b # g /\ b # q /\ b \in S \cup {0}
      /\ \E new : Shape(u, S, R, new)
  <2>1. q = t[Other(o)][g]
    BY <1>1
  <2> HIDE DEF o
  <2>2. /\ Turned(t, Rotate(v, o, g), S, o, g, q, t[o][q])
        /\ Rotate(v, o, g).red = v.red
        /\ g # q /\ t[o][q] # g /\ t[o][q] # q /\ t[o][q] \in S \cup {0}
        /\ Shape(Rotate(v, o, g), S, R,
                 [sub EXCEPT ![g] = {g} \cup sub[t[o][g]] \cup sub[t[o][q]],
                             ![q] = sub[g]])
    BY <1>1, <2>1, RotateColoured
  <2>3. u = Rotate(v, o, g)
    BY DEF o, u
  <2> QED
    BY <2>2, <2>3, Zenon
<1> HIDE DEF u
<1>4. at # q /\ at # g /\ at # b
  <2>1. at # q
    BY ShapeFacts
  <2>2. at # g
    OBVIOUS
  <2>3. at # b
    <3>1. t[side][q] # 0 => t[side][q] # t[o][q]
      BY TwoChildren
    <3> QED
      BY <1>2, <3>1
  <2> QED
    BY <2>1, <2>2, <2>3
<1>5. /\ u.red[q] = FALSE /\ u.red[g] = TRUE
      /\ \A n \in S : n # q /\ n # g => u.red[n] = t.red[n]
  BY <1>3
<1>6. Heights(u, S, bh, 0, "left")
  <2>1. t.red[g] = FALSE
    BY <1>2 DEF Tree
  <2>2. 0 # q /\ 0 # g /\ q = t[Other(o)][g]
    BY <1>1, <1>2
  <2>3. /\ Turned(t, u, S, o, g, q, t[o][q]) /\ t.red[q]
        /\ u.red[g] = TRUE /\ u.red[q] = t.red[g]
        /\ \A n \in S : n # g /\ n # q => u.red[n] = t.red[n]
    BY <1>3, <1>5, <2>1
  <2> HIDE DEF o
  <2>4. Traded(t, u, S, o, g, q)
    BY <2>2, <2>3 DEF Traded
  <2> QED
    BY <1>1, <2>4, TradedHeights
<1>7. /\ u[side][g] = b /\ u[o][g] = t[o][g] /\ u[o][q] = g /\ u[side][q] = at
      /\ \A n \in S, s \in Sides : n # g /\ n # q =>
           u[s][n] = IF t[s][n] = g THEN q ELSE t[s][n]
      /\ u.top = IF t.top = g THEN q ELSE t.top
      /\ \A n \in S : u.parent[n] = IF n = g THEN q ELSE IF n = q THEN t.parent[g]
                                    ELSE IF n = b THEN g ELSE t.parent[n]
  BY <1>1, <1>3 DEF Turned
<1>8. u.parent[at] = q
  <2>1. t.parent[at] = q
    <3>1. t[side][q] # 0 => t.parent[t[side][q]] = q
      BY ChildIn
    <3> QED
      BY <1>2, <3>1
  <2> QED
    BY <1>4, <1>7, <2>1
<1>9. ~u.red[u.top]
  <2>1. CASE t.top = g
    BY <1>5, <1>7, <2>1
  <2>2. CASE t.top # g
    <3>1. t.top # q /\ ~t.red[t.top]
      BY <1>2 DEF IsRed
    <3> QED
      BY <1>2, <1>5, <1>7, <2>2, <3>1
  <2> QED
    BY <2>1, <2>2
<1> HIDE DEF o, b
<1>10. Reds(u, S, 0, 0)
  <2> SUFFICES ASSUME NEW n \in S, NEW s \in Sides, u[s][n] # 0, u.red[n], u.red[u[s][n]]
               PROVE  FALSE
    BY DEF Reds
  <2>1. \A m \in S, r \in Sides : t[r][m] # 0 /\ t.red[m] /\ t.red[t[r][m]] => t[r][m] = at
    BY <1>2 DEF Reds
  <2>2. n # q
    BY <1>5
  <2>3. CASE n = g /\ s = side
    <3>1. b \in S /\ b # 0 /\ u.red[b]
      BY <1>3, <1>7, <2>3
    <3>2. t.red[b]
      BY <1>3, <1>5, <3>1
    <3>3. b = at
      BY <1>1, <2>1, <3>1, <3>2 DEF b
    <3> QED
      BY <1>4, <3>3
  <2>4. CASE n = g /\ s = o
    <3>1. t[o][g] \in S \cup {0} /\ t[o][g] # 0 /\ u.red[t[o][g]] /\ t[o][g] # g
      BY <1>1, <1>7, <2>4, ShapeFacts
    <3>2. t[o][g] # q
      BY <1>5, <3>1
    <3>3. t.red[t[o][g]]
      BY <1>5, <3>1, <3>2
    <3> QED
      BY <3>1, <3>3 DEF IsRed, o
  <2>5. CASE n # g
    <3>1. u[s][n] = IF t[s][n] = g THEN q ELSE t[s][n]
      BY <1>7, <2>2, <2>5
    <3>2. t[s][n] # g /\ u[s][n] = t[s][n]
      BY <1>5, <3>1
    <3>3. t[s][n] \in S /\ t[s][n] # q
      <4>1. t[s][n] \in S \cup {0}
        BY ChildIn
      <4> QED
        BY <1>5, <3>2, <4>1
    <3>4. t.red[n] /\ t.red[t[s][n]]
      BY <1>5, <2>2, <2>5, <3>2, <3>3
    <3>5. t[s][n] = at
      BY <1>2, <2>1, <3>3, <3>4
    <3>6. n = q
      BY <1>2, <3>5, OneParent
    <3> QED
      BY <2>2, <3>6
  <2> QED
    BY <1>1, <2>3, <2>4, <2>5
<1>11. u.red[at]
  BY <1>4, <1>5
<1>12. PICK new : Shape(u, S, R, new)
  BY <1>3
<1>13. Reds(u, S, 0, at)
  BY <1>2, <1>10 DEF Reds
<1>14. Fixing(u, at, S, R, new, bh)
  BY <1>6, <1>9, <1>11, <1>12, <1>13 DEF Fixing
<1>15. ~IsRed(u, q)
  BY <1>5 DEF IsRed
<1> QED
  BY <1>8, <1>14, <1>15 DEF u

\* The nodes of the subtrees of a tree.
SubOf(t, S, R) == CHOOSE sub : Shape(t, S, R, sub)

LEMMA ShapeUnique ==
  ASSUME NEW t, NEW S, NEW R, NEW sub, Strict(R), Shape(t, S, R, sub)
  PROVE  /\ Shape(t, S, R, SubOf(t, S, R))
         /\ \A n \in S \cup {0} : SubOf(t, S, R)[n] = sub[n]
<1> DEFINE new == SubOf(t, S, R)
           G == {n \in S : new[n] = sub[n]}
<1>1. Shape(t, S, R, new)
  BY DEF SubOf
<1> HIDE DEF new
<1>2. new[0] = sub[0]
  BY <1>1 DEF Shape
<1>3. ASSUME NEW n \in S, \A s \in Sides : t[s][n] \in G \cup {0} PROVE n \in G
  <2>1. /\ new[n] = {n} \cup new[t["left"][n]] \cup new[t["right"][n]]
        /\ sub[n] = {n} \cup sub[t["left"][n]] \cup sub[t["right"][n]]
    BY <1>1 DEF Shape, Below
  <2>2. \A s \in Sides : new[t[s][n]] = sub[t[s][n]]
    BY <1>2, <1>3
  <2>3. "left" \in Sides /\ "right" \in Sides
    BY DEF Sides
  <2> QED
    BY <2>1, <2>2, <2>3
<1> HIDE DEF G
<1>4. S \subseteq G
  BY <1>3, TreeInduction
<1> QED
  BY <1>1, <1>2, <1>4 DEF new, G

\* One turn when the uncle is red.
LEMMA InsertUncle ==
  ASSUME NEW t, NEW S, NEW R, NEW sub, NEW bh, Strict(R), NEW at \in S,
         Fixing(t, at, S, R, sub, bh), NEW p \in S, NEW g \in S, NEW y \in S,
         NEW side \in Sides, Family(t, at, side, p, g, y), t.red[y]
  PROVE  /\ \E new : Fixing(Set(Set(Set(t, "red", p, FALSE), "red", y, FALSE), "red", g, TRUE),
                            g, S, R, sub, new)
         /\ Cardinality(sub[g]) > Cardinality(sub[at])
<1> DEFINE u == Set(Set(Set(t, "red", p, FALSE), "red", y, FALSE), "red", g, TRUE)
<1>1. Shape(t, S, R, sub)
  BY DEF Fixing
<1>2. S \subseteq Nodes /\ S \subseteq Null /\ t \in Tree
  BY <1>1, TopFacts
<1>3. Reds3(t, u, p, y, g, FALSE, FALSE, TRUE)
  <2>1. p \in Null /\ y \in Null /\ g \in Null /\ TRUE \in BOOLEAN /\ FALSE \in BOOLEAN
    BY <1>2
  <2> QED
    BY <1>2, <2>1, ThreeReds, Zenon
<1> HIDE DEF u
<1>4. Pushed(t, u, S, p, g, y)
  <2>1. p # g /\ y # g /\ y # p
    BY DEF Family
  <2>2. /\ SameLinks(t, u)
        /\ \A n \in Nodes : u.red[n] = IF n = g THEN TRUE ELSE IF n = y THEN FALSE
                                       ELSE IF n = p THEN FALSE ELSE t.red[n]
    BY <1>3 DEF Reds3
  <2>3. /\ u.red[g] /\ ~u.red[p] /\ ~u.red[y]
        /\ \A n \in S : n \notin {g, p, y} => u.red[n] = t.red[n]
    BY <1>2, <2>1, <2>2
  <2> QED
    BY <2>2, <2>3 DEF Pushed
<1>5. \E new : Fixing(u, g, S, R, sub, new)
  BY <1>1, <1>4, RedUncle
<1>6. t[side][g] = p /\ \E r \in Sides : t[r][p] = at
  BY DEF Family
<1>7. Cardinality(sub[p]) < Cardinality(sub[g])
  BY <1>1, <1>6, Smaller
<1>8. Cardinality(sub[at]) < Cardinality(sub[p])
  <2>1. PICK r \in Sides : t[r][p] = at
    BY <1>6
  <2>2. Cardinality(sub[t[r][p]]) < Cardinality(sub[p])
    BY <1>1, Smaller
  <2> QED
    BY <2>1, <2>2
<1>9. Cardinality(sub[at]) \in Nat /\ Cardinality(sub[p]) \in Nat /\ Cardinality(sub[g]) \in Nat
  BY <1>1, <1>2, TopFacts
<1>10. Cardinality(sub[g]) > Cardinality(sub[at])
  BY <1>7, <1>8, <1>9
<1> QED
  BY <1>5, <1>10 DEF u

LEMMA FamilyIs ==
  ASSUME NEW t, NEW S, NEW R, NEW sub, Strict(R), NEW bh, NEW at \in S,
         Fixing(t, at, S, R, sub, bh), t.top # at, IsRed(t, t.parent[at]),
         NEW p, p = t.parent[at], NEW g, g = t.parent[p],
         NEW side, side = SideOf(t, g, p), NEW y, y = t[Other(side)][g]
  PROVE  /\ p \in S /\ g \in S /\ side \in Sides /\ y \in S \cup {0}
         /\ Family(t, at, side, p, g, y)
<1>1. /\ Shape(t, S, R, sub) /\ Reds(t, S, 0, at) /\ ~t.red[t.top] /\ t.red[p]
  BY DEF Fixing, IsRed
<1>2. /\ p \in S /\ g \in S /\ side \in Sides /\ t[side][g] = p /\ ~t.red[g]
      /\ p # t.top /\ at # p /\ at # g /\ p # g
      /\ \E r \in Sides : t[r][p] = at
      /\ t[Other(side)][g] \in S \cup {0} /\ t[Other(side)][g] # p
      /\ t[Other(side)][g] # at /\ t[Other(side)][g] # g
  BY <1>1, InsertFacts
<1> QED
  BY <1>1, <1>2 DEF Family

\* A turn of the fixup.
LEMMA InsertStep ==
  ASSUME NEW S, NEW R, NEW sub, Strict(R), NEW bh, NEW s \in [tree : Tree, at : Nodes],
         Fixing(s.tree, s.at, S, R, sub, bh), InsertGoesOn(s)
  PROVE  \/ /\ \E new : Fixing(InsertFixupStep(s).tree, InsertFixupStep(s).at, S, R, sub, new)
            /\ Cardinality(sub[InsertFixupStep(s).at]) > Cardinality(sub[s.at])
         \/ /\ \E new : Fixing(InsertFixupStep(s).tree, InsertFixupStep(s).at, S, R, new, bh)
            /\ ~InsertGoesOn(InsertFixupStep(s))
<1> DEFINE t    == s.tree
           p    == t.parent[s.at]
           g    == t.parent[p]
           side == SideOf(t, g, p)
           o    == Other(side)
           y    == t[o][g]
           in   == s.at = t[o][p]
           t1   == IF in THEN Rotate(t, side, p) ELSE t
           at   == IF in THEN p ELSE s.at
           t2   == Set(Set(t1, "red", t1.parent[at], FALSE), "red", g, TRUE)
           t3   == Set(Set(Set(t, "red", p, FALSE), "red", y, FALSE), "red", g, TRUE)
<1>1. InsertFixupStep(s) = IF IsRed(t, y) THEN [tree |-> t3, at |-> g]
                           ELSE [tree |-> Rotate(t2, o, g), at |-> at]
  BY DEF InsertFixupStep
<1>2. /\ s.at \in S /\ t.top # s.at /\ IsRed(t, p) /\ Shape(t, S, R, sub)
  BY DEF Fixing, InsertGoesOn
<1>3. /\ p \in S /\ g \in S /\ side \in Sides /\ y \in S \cup {0}
      /\ Family(t, s.at, side, p, g, y)
  <2> HIDE DEF t, p, g, side, o, y
  <2>1. p = t.parent[s.at] /\ g = t.parent[p] /\ side = SideOf(t, g, p) /\ y = t[Other(side)][g]
    BY DEF p, g, side, y, o
  <2>2. Fixing(t, s.at, S, R, sub, bh)
    BY DEF t
  <2>3. IsRed(t, t.parent[s.at])
    BY <1>2, <2>1
  <2> QED
    BY <1>2, <2>1, <2>2, <2>3, FamilyIs
<1>4. CASE IsRed(t, y)
  <2> HIDE DEF t, p, g, side, o, y
  <2>1. Fixing(t, s.at, S, R, sub, bh)
    BY DEF t
  <2>2. y \in S /\ t.red[y]
    BY <1>3, <1>4 DEF IsRed
  <2>3. /\ \E new : Fixing(Set(Set(Set(t, "red", p, FALSE), "red", y, FALSE), "red", g, TRUE),
                           g, S, R, sub, new)
        /\ Cardinality(sub[g]) > Cardinality(sub[s.at])
    BY <1>2, <1>3, <2>1, <2>2, InsertUncle
  <2> HIDE DEF t3, t2, t1, at
  <2>4. InsertFixupStep(s).tree = t3 /\ InsertFixupStep(s).at = g
    BY <1>1, <1>4
  <2>5. \E new : Fixing(t3, g, S, R, sub, new)
    BY <2>3 DEF t3
  <2> QED
    BY <2>3, <2>4, <2>5
<1>5. CASE ~IsRed(t, y)
  <2> DEFINE q == IF in THEN s.at ELSE p
  <2>1. q \in S /\ at \in S
    BY <1>2, <1>3
  <2>2. /\ \E new : Fixing(t1, at, S, R, new, bh)
        /\ OuterChild(t1, at, side, q, g)
    <3> HIDE DEF t, p, g, side, o, y
    <3>1. Fixing(t, s.at, S, R, sub, bh)
      BY DEF t
    <3>2. CASE in
      <4>1. t[Other(side)][p] = s.at
        BY <3>2 DEF o
      <4>2. /\ \E new : Fixing(Rotate(t, side, p), p, S, R, new, bh)
            /\ OuterChild(Rotate(t, side, p), p, side, s.at, g)
        BY <1>2, <1>3, <1>5, <3>1, <4>1, InnerTurn
      <4> QED
        BY <3>2, <4>2
    <3>3. CASE ~in
      <4>1. /\ t.top # s.at /\ t[side][g] = p /\ t[Other(side)][g] = y
            /\ \E r \in Sides : t[r][p] = s.at
            /\ t.red[p] /\ ~t.red[g]
        BY <1>3 DEF Family
      <4>2. \A r \in Sides : r = side \/ r = Other(side)
        BY <1>3, OtherSide
      <4>3. t[side][p] = s.at
        BY <3>3, <4>1, <4>2 DEF o
      <4>4. OuterChild(t, s.at, side, p, g)
        BY <1>5, <4>1, <4>3 DEF OuterChild
      <4> QED
        BY <3>1, <3>3, <4>4
    <3> QED
      BY <3>2, <3>3
  <2> HIDE DEF t, p, g, side, o, y, t1, at, q
  <2>3. PICK new : Fixing(t1, at, S, R, new, bh)
    BY <2>2
  <2>4. Shape(t1, S, R, new)
    BY <2>3 DEF Fixing
  <2>5. t1.parent[at] = q
    <3>1. t1[side][q] = at
      BY <2>2 DEF OuterChild
    <3>2. at # 0
      BY <2>1, <2>4, TopFacts
    <3>3. t1[side][q] # 0 => t1.parent[t1[side][q]] = q
      BY <1>3, <2>1, <2>4, ChildIn
    <3> QED
      BY <3>1, <3>2, <3>3
  <2>6. Reds2(t1, t2, q, g, FALSE, TRUE)
    <3>1. t1 \in Tree /\ q \in Null /\ g \in Null /\ FALSE \in BOOLEAN /\ TRUE \in BOOLEAN
      BY <1>3, <2>1, <2>4, TopFacts
    <3>2. Reds2(t1, Set(Set(t1, "red", q, FALSE), "red", g, TRUE), q, g, FALSE, TRUE)
      BY <3>1, TwoReds, Zenon
    <3> QED
      BY <2>5, <3>2, Zenon DEF t2
  <2> HIDE DEF t2
  <2> DEFINE u == Rotate(t2, Other(side), g)
  <2>7. /\ \E fin : Fixing(u, at, S, R, fin, bh)
        /\ u.parent[at] = q /\ ~IsRed(u, q)
    <3>1. /\ \E fin : Fixing(Rotate(t2, Other(side), g), at, S, R, fin, bh)
          /\ Rotate(t2, Other(side), g).parent[at] = q
          /\ ~IsRed(Rotate(t2, Other(side), g), q)
      BY <1>3, <2>1, <2>2, <2>3, <2>6, OuterTurn
    <3> QED
      BY <3>1
  <2>8. InsertFixupStep(s) = [tree |-> u, at |-> at]
    BY <1>1, <1>5 DEF o
  <2> HIDE DEF u
  <2>9. InsertFixupStep(s).tree = u /\ InsertFixupStep(s).at = at
    BY <2>8
  <2>10. ~InsertGoesOn(InsertFixupStep(s))
    BY <2>7, <2>9 DEF InsertGoesOn
  <2> QED
    BY <2>7, <2>9, <2>10
<1> QED
  BY <1>4, <1>5

\* A red-black tree of the nodes S.
GoodTree(t, S, R) ==
  /\ \E sub : Shape(t, S, R, sub)
  /\ \E bh : Heights(t, S, bh, 0, "left")
  /\ Reds(t, S, 0, 0) /\ ~IsRed(t, t.top)

\* The fixup ends at the top or below a black node: the top becomes black.
LEMMA BlackTop ==
  ASSUME NEW t, NEW S, NEW R, NEW sub, Strict(R), NEW bh, NEW at \in S,
         Fixing(t, at, S, R, sub, bh), t.top = at \/ ~IsRed(t, t.parent[at])
  PROVE  GoodTree(Set(t, "red", t.top, FALSE), S, R)
<1> DEFINE u == Set(t, "red", t.top, FALSE)
<1>1. /\ Shape(t, S, R, sub) /\ Heights(t, S, bh, 0, "left") /\ Reds(t, S, 0, at)
  BY DEF Fixing
<1>2. /\ S \subseteq Nodes /\ S \subseteq Null /\ 0 \notin S /\ t \in Tree /\ t.top \in S
  BY <1>1, TopFacts
<1>3. RedSet(t, u, t.top, FALSE)
  <2>1. t.top \in Null /\ FALSE \in BOOLEAN
    BY <1>2
  <2> QED
    BY <1>2, <2>1, SetRed, Zenon
<1> HIDE DEF u
<1>4. /\ u \in Tree /\ u.top = t.top /\ \A g \in Links : u[g] = t[g]
      /\ \A m \in Nodes : u.red[m] = IF m = t.top THEN FALSE ELSE t.red[m]
  BY <1>3 DEF RedSet
<1>5. SameLinks(t, u) /\ \A s \in Sides : u[s] = t[s]
  BY <1>4 DEF SameLinks, Links
<1>6. Shape(u, S, R, sub)
  BY <1>1, <1>5, ColouredShape
<1>7. \A n \in S, s \in Sides : t[s][n] # t.top /\ t[s][n] \in S \cup {0}
  <2> SUFFICES ASSUME NEW n \in S, NEW s \in Sides
               PROVE  t[s][n] # t.top /\ t[s][n] \in S \cup {0}
    OBVIOUS
  <2>1. t[s][n] # 0 => t[s][n] # t.top
    BY <1>1, ShapeFacts
  <2>2. t[s][n] \in S \cup {0}
    BY <1>1, ChildIn
  <2> QED
    BY <1>2, <2>1, <2>2
<1>8. Heights(u, S, bh, 0, "left")
  <2>1. \A m \in S : m # t.top => Blk(u, m) = Blk(t, m)
    BY <1>2, <1>4 DEF Blk
  <2>2. Blk(u, 0) = Blk(t, 0)
    BY DEF Blk
  <2>3. ASSUME NEW n \in S, NEW s \in Sides PROVE HeightAt(u, bh, 0, "left", n, s)
    <3>1. HeightAt(t, bh, 0, "left", n, s)
      BY <1>1 DEF Heights
    <3>2. Blk(u, t[s][n]) = Blk(t, t[s][n])
      BY <1>7, <2>1, <2>2
    <3> QED
      BY <1>5, <3>1, <3>2 DEF HeightAt
  <2> QED
    BY <1>1, <2>3 DEF Heights
<1>9. Reds(u, S, 0, 0)
  <2> SUFFICES ASSUME NEW n \in S, NEW s \in Sides, u[s][n] # 0, u.red[n], u.red[u[s][n]]
               PROVE  FALSE
    BY DEF Reds
  <2>1. t[s][n] # 0 /\ t[s][n] \in S /\ u[s][n] = t[s][n]
    BY <1>5, <1>7
  <2>2. t.red[n] /\ t.red[t[s][n]] /\ n # t.top
    BY <1>2, <1>4, <1>7, <2>1
  <2>3. t[s][n] = at
    BY <1>1, <1>2, <2>1, <2>2 DEF Reds
  <2>4. t.parent[at] = n
    BY <1>1, <2>1, <2>3, ChildIn
  <2>5. t.top # at
    BY <1>7, <2>3
  <2> QED
    BY <1>2, <2>2, <2>4, <2>5 DEF IsRed
<1>10. ~IsRed(u, u.top)
  BY <1>2, <1>4 DEF IsRed
<1> QED
  BY <1>6, <1>8, <1>9, <1>10 DEF GoodTree, u

\* A node that is not at the top has a smaller subtree than the top.
LEMMA NotAll ==
  ASSUME NEW t, NEW S, NEW R, NEW sub, Strict(R), Shape(t, S, R, sub),
         NEW n \in S, n # t.top
  PROVE  Cardinality(sub[n]) < MaxTimers
<1>1. PICK s \in Sides : t[s][t.parent[n]] = n /\ t.parent[n] \in S
  BY DEF Shape
<1>2. Cardinality(sub[n]) < Cardinality(sub[t.parent[n]])
  BY <1>1, Smaller
<1>3. /\ Cardinality(sub[t.parent[n]]) <= Cardinality(S) /\ Cardinality(S) <= MaxTimers
      /\ Cardinality(sub[t.parent[n]]) \in Nat /\ Cardinality(S) \in Nat
      /\ Cardinality(sub[n]) \in Nat
  BY <1>1, TopFacts
<1> QED
  BY <1>2, <1>3, NodeFacts

\* Where the fixup of an insertion is, and how much is below it.
FixStates(S, R) == {s \in [tree : Tree, at : Nodes] : \E sub, bh : Fixing(s.tree, s.at, S, R, sub, bh)}
FixSize(s, S, R) == Cardinality(SubOf(s.tree, S, R)[s.at])

LEMMA FixTurn ==
  ASSUME NEW S, NEW R, Strict(R), NEW s \in FixStates(S, R)
  PROVE  /\ FixSize(s, S, R) \in Nat
         /\ InsertGoesOn(s) =>
              LET r == InsertFixupStep(s)
              IN  /\ FixSize(s, S, R) < MaxTimers /\ r \in FixStates(S, R)
                  /\ InsertGoesOn(r) => FixSize(r, S, R) > FixSize(s, S, R)
<1> DEFINE r == InsertFixupStep(s)
<1>1. PICK sub, bh : Fixing(s.tree, s.at, S, R, sub, bh)
  BY DEF FixStates
<1>2. s \in [tree : Tree, at : Nodes] /\ s.at \in S /\ Shape(s.tree, S, R, sub)
  BY <1>1 DEF FixStates, Fixing
<1>3. FixSize(s, S, R) = Cardinality(sub[s.at])
  BY <1>2, ShapeUnique DEF FixSize
<1>4. Cardinality(sub[s.at]) \in Nat
  BY <1>2, TopFacts
<1>5. ASSUME InsertGoesOn(s)
      PROVE  /\ FixSize(s, S, R) < MaxTimers /\ r \in FixStates(S, R)
             /\ InsertGoesOn(r) => FixSize(r, S, R) > FixSize(s, S, R)
  <2>1. FixSize(s, S, R) < MaxTimers
    <3>1. s.at # s.tree.top
      BY <1>5 DEF InsertGoesOn
    <3> QED
      BY <1>2, <1>3, <3>1, NotAll
  <2>2. r = [tree |-> r.tree, at |-> r.at]
    BY DEF InsertFixupStep
  <2> HIDE DEF r
  <2>3. \/ /\ \E new : Fixing(r.tree, r.at, S, R, sub, new)
           /\ Cardinality(sub[r.at]) > Cardinality(sub[s.at])
        \/ /\ \E new : Fixing(r.tree, r.at, S, R, new, bh)
           /\ ~InsertGoesOn(r)
    BY <1>1, <1>2, <1>5, InsertStep DEF r
  <2>4. PICK a, b : Fixing(r.tree, r.at, S, R, a, b)
    BY <2>3
  <2>5. Shape(r.tree, S, R, a) /\ r.at \in S
    BY <2>4 DEF Fixing
  <2>6. r.tree \in Tree /\ r.at \in Nodes
    BY <2>5, TopFacts
  <2>7. r \in [tree : Tree, at : Nodes]
    BY <2>2, <2>6
  <2>8. r \in FixStates(S, R)
    BY <2>4, <2>7 DEF FixStates
  <2>9. ASSUME InsertGoesOn(r) PROVE FixSize(r, S, R) > FixSize(s, S, R)
    <3>1. PICK new : Fixing(r.tree, r.at, S, R, sub, new)
      BY <2>3, <2>9
    <3>2. Shape(r.tree, S, R, sub)
      BY <3>1 DEF Fixing
    <3>3. FixSize(r, S, R) = Cardinality(sub[r.at])
      BY <2>5, <3>2, ShapeUnique DEF FixSize
    <3> QED
      BY <1>3, <2>3, <2>9, <3>3
  <2> QED
    BY <2>1, <2>8, <2>9
<1> QED
  BY <1>3, <1>4, <1>5

LEMMA InsertFixupGood ==
  ASSUME NEW S, NEW R, Strict(R), NEW t, NEW n, NEW sub, NEW bh, Fixing(t, n, S, R, sub, bh)
  PROVE  GoodTree(InsertFixup(t, n), S, R)
<1> DEFINE N == Cardinality(DOMAIN t.red)
           start == [tree |-> t, at |-> n]
           Rec(g) == g = [i \in 0 .. N |->
                            IF i = 0 THEN start
                            ELSE LET s == g[i - 1]
                                 IN  IF s.tree.top # s.at /\ IsRed(s.tree, s.tree.parent[s.at])
                                     THEN InsertFixupStep(s) ELSE s]
           u == CHOOSE g : Rec(g)
           T == FixStates(S, R)
           W == {s \in T : InsertGoesOn(s)}
           mu == [s \in T |-> FixSize(s, S, R)]
           turn == [s \in T |-> IF InsertGoesOn(s) THEN InsertFixupStep(s) ELSE s]
<1>1. InsertFixup(t, n) = Set(u[N].tree, "red", u[N].tree.top, FALSE)
  BY DEF InsertFixup, Loop
<1>2. Shape(t, S, R, sub) /\ n \in S /\ t \in Tree /\ n \in Nodes
  <2>1. Shape(t, S, R, sub) /\ n \in S
    BY DEF Fixing
  <2> QED
    BY <2>1, TopFacts
<1>3. N = MaxTimers /\ N \in Nat
  BY <1>2, TreeType, NodeFacts
<1>4. start \in T
  <2>1. start \in [tree : Tree, at : Nodes] /\ start.tree = t /\ start.at = n
    BY <1>2
  <2> QED
    BY <2>1 DEF FixStates
<1>5. turn \in [T -> T] /\ mu \in [T -> Nat]
  BY FixTurn
<1> HIDE DEF N, start, u
<1>6. Rec(u)
  <2>0. PICK g : Runs(g, N, T, start, turn)
    <3> HIDE DEF T, turn
    <3> QED
      BY <1>3, <1>4, <1>5, RunExists
  <2>1. g \in [0 .. N -> T] /\ g[0] = start /\ \A i \in 1 .. N : g[i] = turn[g[i - 1]]
    <3> HIDE DEF T, turn
    <3> QED
      BY <2>0 DEF Runs
  <2>2. ASSUME NEW i \in 0 .. N
        PROVE  g[i] = IF i = 0 THEN start
                      ELSE LET s == g[i - 1]
                           IN  IF s.tree.top # s.at /\ IsRed(s.tree, s.tree.parent[s.at])
                               THEN InsertFixupStep(s) ELSE s
    <3>1. CASE i = 0
      <4>1. g[i] = start
        <5> HIDE DEF T, turn
        <5> QED
          BY <2>1, <3>1
      <4> QED
        BY <3>1, <4>1
    <3>2. CASE i # 0
      <4>1. i \in 1 .. N /\ i - 1 \in 0 .. N
        BY <1>3, <3>2
      <4>2. g[i] = turn[g[i - 1]] /\ g[i - 1] \in T
        <5> HIDE DEF T, turn
        <5> QED
          BY <2>1, <4>1
      <4>3. \A s \in T : turn[s] = IF InsertGoesOn(s) THEN InsertFixupStep(s) ELSE s
        OBVIOUS
      <4> HIDE DEF T, turn
      <4>4. g[i] = IF InsertGoesOn(g[i - 1]) THEN InsertFixupStep(g[i - 1]) ELSE g[i - 1]
        BY <4>2, <4>3
      <4> QED
        BY <3>2, <4>4 DEF InsertGoesOn
    <3> QED
      BY <3>1, <3>2
  <2>3. Rec(g)
    BY <2>1, <2>2
  <2> HIDE DEF Rec
  <2> QED
    BY <2>3 DEF u
<1>7. u[0] = start
  BY <1>3, <1>6
<1>8. ASSUME NEW i \in 1 .. N
      PROVE  u[i] = IF InsertGoesOn(u[i - 1]) THEN InsertFixupStep(u[i - 1]) ELSE u[i - 1]
  <2>1. i \in 0 .. N /\ i # 0
    BY <1>3
  <2> QED
    BY <1>6, <2>1 DEF InsertGoesOn
<1> HIDE DEF Rec, T, turn
<1>9. \A i \in 0 .. N : u[i] \in T
  <2>1. ASSUME NEW i \in 1 .. N, u[i - 1] \in T PROVE u[i] \in T
    BY <1>8, <2>1, FixTurn DEF T
  <2> QED
    BY <1>3, <1>4, <1>7, <2>1, StaysIn
<1>10. u[N] \notin W
  <2>1. \A i \in 1 .. N : i - 1 \in 0 .. N /\ i \in 0 .. N
    BY <1>3
  <2>2. \A i \in 1 .. N : u[i - 1] \notin W => u[i] = u[i - 1]
    BY <1>8, <1>9, <2>1
  <2>3. \A i \in 1 .. N : u[i - 1] \in W /\ u[i] \in W => mu[u[i]] > mu[u[i - 1]]
    BY <1>8, <1>9, <2>1, FixTurn DEF T
  <2>4. \A s \in T : s \in W => mu[s] < N
    BY <1>3, FixTurn DEF T
  <2> HIDE DEF W, mu
  <2> QED
    BY <1>3, <1>5, <1>9, <2>2, <2>3, <2>4, LoopEnds
<1>11. u[N] \in T /\ ~InsertGoesOn(u[N])
  BY <1>3, <1>9, <1>10
<1>12. PICK a, b : Fixing(u[N].tree, u[N].at, S, R, a, b)
  BY <1>11 DEF T, FixStates
<1>13. u[N].at \in S
  BY <1>12 DEF Fixing
<1>14. u[N].tree.top = u[N].at \/ ~IsRed(u[N].tree, u[N].tree.parent[u[N].at])
  BY <1>11 DEF InsertGoesOn
<1> QED
  BY <1>1, <1>12, <1>13, <1>14, BlackTop
-----------------------------------------------------------------------------
(* Where an insertion puts a node.                                         *)

Way(later, m) == IF m \in later THEN "left" ELSE "right"

\* Going down from m is right for n: it is on the same side of all nodes above.
Spots(t, S, R, sub, n) ==
  {m \in S \cup {0} :
     /\ m = 0 => S = {}
     /\ \A k \in S, s \in Sides : m \in sub[t[s][k]] => Aside(R, s, n, k)}

LEMMA NotTop ==
  ASSUME NEW t, NEW S, NEW R, NEW sub, Strict(R), Shape(t, S, R, sub),
         NEW k \in S, NEW s \in Sides
  PROVE  t.top \notin sub[t[s][k]]
<1> SUFFICES ASSUME t.top \in sub[t[s][k]] PROVE FALSE
  OBVIOUS
<1>1. t[s][k] \in S
  <2>1. t[s][k] \in S \cup {0}
    BY ChildIn
  <2>2. sub[0] = {}
    BY TopFacts
  <2> QED
    BY <2>1, <2>2
<1>2. t[s][k] # t.top
  <2>1. t[s][k] # 0 /\ k # 0
    BY <1>1, TopFacts
  <2>2. t.parent[t[s][k]] = k
    BY <2>1, ChildIn
  <2>3. t.top # 0 => t.parent[t.top] = 0
    BY DEF Shape
  <2> QED
    BY <2>1, <2>2, <2>3
<1> QED
  BY <1>1, <1>2, ParentIn

LEMMA DownTurn ==
  ASSUME NEW t, NEW S, NEW R, NEW sub, Strict(R), Shape(t, S, R, sub), NEW n, NEW later,
         \A k \in S : Aside(R, Way(later, k), n, k),
         NEW m \in Spots(t, S, R, sub, n), m # 0, t[Way(later, m)][m] # 0
  PROVE  /\ t[Way(later, m)][m] \in Spots(t, S, R, sub, n)
         /\ Cardinality(sub[t[Way(later, m)][m]]) < Cardinality(sub[m])
<1> DEFINE w == Way(later, m)
           c == t[w][m]
<1>1. m \in S /\ w \in Sides
  BY DEF Spots, Way, Sides
<1> HIDE DEF w
<1>2. c \in S
  <2>1. c \in S \cup {0}
    BY <1>1, ChildIn
  <2> QED
    BY <2>1 DEF w
<1>3. ASSUME NEW k \in S, NEW s \in Sides, c \in sub[t[s][k]]
      PROVE  Aside(R, s, n, k)
  <2>1. CASE t[s][k] = c
    <3>1. c # 0
      BY <1>2, TopFacts
    <3>2. t[w][m] # 0 /\ t[s][k] = t[w][m]
      BY <2>1, <3>1
    <3>3. k = m /\ s = w
      BY <1>1, <3>2, OneParent
    <3> QED
      BY <3>3 DEF w
  <2>2. CASE t[s][k] # c
    <3>1. t[s][k] \in S
      <4>1. t[s][k] \in S \cup {0}
        BY ChildIn
      <4>2. sub[0] = {}
        BY TopFacts
      <4> QED
        BY <1>3, <4>1, <4>2
    <3>2. t.parent[c] \in sub[t[s][k]]
      BY <1>3, <2>2, <3>1, ParentIn
    <3>3. t.parent[c] = m
      <4>1. t[w][m] # 0 => t.parent[t[w][m]] = m
        BY <1>1, ChildIn
      <4>2. c # 0
        BY <1>2, TopFacts
      <4> QED
        BY <4>1, <4>2
    <3>4. \A j \in S, r \in Sides : m \in sub[t[r][j]] => Aside(R, r, n, j)
      BY DEF Spots
    <3> QED
      BY <3>2, <3>3, <3>4
  <2> QED
    BY <2>1, <2>2
<1>4. c \in Spots(t, S, R, sub, n)
  <2>1. c # 0
    BY <1>2, TopFacts
  <2> QED
    BY <1>2, <1>3, <2>1 DEF Spots
<1>5. Cardinality(sub[c]) < Cardinality(sub[m])
  BY <1>1, Smaller
<1> QED
  BY <1>4, <1>5 DEF w

LEMMA InsertPointIs ==
  ASSUME NEW t, NEW S, NEW R, NEW sub, Strict(R), Shape(t, S, R, sub), NEW n, NEW later,
         \A k \in S : Aside(R, Way(later, k), n, k)
  PROVE  /\ InsertPoint(t, later) \in Spots(t, S, R, sub, n)
         /\ InsertPoint(t, later) # 0 =>
              t[Way(later, InsertPoint(t, later))][InsertPoint(t, later)] = 0
<1> DEFINE N == Cardinality(DOMAIN t.red)
           Down(m) == IF m \in later THEN t.left[m] ELSE t.right[m]
           Rec(g) == g = [i \in 0 .. N |->
                            IF i = 0 THEN t.top
                            ELSE LET m == g[i - 1]
                                 IN  IF m # 0 /\ Down(m) # 0 THEN Down(m) ELSE m]
           u == CHOOSE g : Rec(g)
           T == Spots(t, S, R, sub, n)
           W == {m \in T : m # 0 /\ Down(m) # 0}
           mu == [m \in T |-> MaxTimers - Cardinality(sub[m])]
           turn == [m \in T |-> IF m # 0 /\ Down(m) # 0 THEN Down(m) ELSE m]
<1>1. InsertPoint(t, later) = u[N]
  BY DEF InsertPoint, Loop
<1>2. t \in Tree /\ t.top \in S \cup {0} /\ (t.top = 0 => S = {})
  BY TopFacts
<1>3. N = MaxTimers /\ N \in Nat
  BY <1>2, TreeType, NodeFacts
<1>4. \A m : Down(m) = t[Way(later, m)][m]
  BY <1>2, TreeType DEF Way
<1> HIDE DEF N, u, Down
<1>5. t.top \in T
  <2>1. \A k \in S, s \in Sides : t.top \notin sub[t[s][k]]
    BY NotTop
  <2> QED
    BY <1>2, <2>1 DEF Spots
<1>6. ASSUME NEW m \in T
      PROVE  /\ Cardinality(sub[m]) \in Nat /\ Cardinality(sub[m]) <= MaxTimers
             /\ m # 0 => Cardinality(sub[m]) > 0
             /\ m # 0 /\ Down(m) # 0 =>
                  Down(m) \in T /\ Cardinality(sub[Down(m)]) < Cardinality(sub[m])
  <2>1. m \in S \cup {0} /\ m \in Null
    <3>1. m \in S \cup {0}
      BY DEF Spots
    <3> QED
      BY <3>1, TopFacts, NodeFacts
  <2>2. /\ IsFiniteSet(sub[m]) /\ Cardinality(sub[m]) \in Nat
        /\ Cardinality(sub[m]) <= Cardinality(S)
        /\ Cardinality(S) \in Nat /\ Cardinality(S) <= MaxTimers
    BY <2>1, TopFacts
  <2>3. m # 0 => Cardinality(sub[m]) > 0
    <3>1. m # 0 => m \in sub[m]
      BY <2>1, TopFacts
    <3> QED
      BY <2>2, <3>1, FS_EmptySet
  <2>4. m # 0 /\ Down(m) # 0 =>
          Down(m) \in T /\ Cardinality(sub[Down(m)]) < Cardinality(sub[m])
    BY <1>4, DownTurn
  <2> QED
    BY <2>2, <2>3, <2>4, NodeFacts
<1> HIDE DEF T
<1>7. turn \in [T -> T] /\ mu \in [T -> Nat]
  <2>1. \A m \in T : MaxTimers - Cardinality(sub[m]) \in Nat
    BY <1>6, NodeFacts
  <2> QED
    BY <1>6, <2>1
<1>8. Rec(u)
  <2>1. PICK g : Runs(g, N, T, t.top, turn)
    <3> HIDE DEF turn
    <3> QED
      BY <1>3, <1>5, <1>7, RunExists
  <2>2. g \in [0 .. N -> T] /\ g[0] = t.top /\ \A i \in 1 .. N : g[i] = turn[g[i - 1]]
    <3> HIDE DEF turn
    <3> QED
      BY <2>1 DEF Runs
  <2>3. ASSUME NEW i \in 0 .. N
        PROVE  g[i] = IF i = 0 THEN t.top
                      ELSE LET m == g[i - 1]
                           IN  IF m # 0 /\ Down(m) # 0 THEN Down(m) ELSE m
    <3>1. CASE i = 0
      BY <2>2, <3>1
    <3>2. CASE i # 0
      <4>1. i \in 1 .. N /\ i - 1 \in 0 .. N
        BY <1>3, <3>2
      <4>2. g[i] = turn[g[i - 1]] /\ g[i - 1] \in T
        <5> HIDE DEF turn
        <5> QED
          BY <2>2, <4>1
      <4> QED
        BY <3>2, <4>2
    <3> QED
      BY <3>1, <3>2
  <2>4. Rec(g)
    BY <2>2, <2>3
  <2> HIDE DEF Rec
  <2> QED
    BY <2>4 DEF u
<1>9. u[0] = t.top
  BY <1>3, <1>8
<1>10. ASSUME NEW i \in 1 .. N
       PROVE  u[i] = IF u[i - 1] # 0 /\ Down(u[i - 1]) # 0 THEN Down(u[i - 1]) ELSE u[i - 1]
  <2>1. i \in 0 .. N /\ i # 0
    BY <1>3
  <2> QED
    BY <1>8, <2>1
<1> HIDE DEF Rec, turn
<1>11. \A i \in 0 .. N : u[i] \in T
  <2>1. ASSUME NEW i \in 1 .. N, u[i - 1] \in T PROVE u[i] \in T
    BY <1>6, <1>10, <2>1
  <2> QED
    BY <1>3, <1>5, <1>9, <2>1, StaysIn
<1>12. u[N] \notin W
  <2>1. \A i \in 1 .. N : i - 1 \in 0 .. N /\ i \in 0 .. N
    BY <1>3
  <2>2. \A i \in 1 .. N : u[i - 1] \notin W => u[i] = u[i - 1]
    BY <1>10, <1>11, <2>1
  <2>3. ASSUME NEW i \in 1 .. N, u[i - 1] \in W PROVE mu[u[i]] > mu[u[i - 1]]
    <3>1. u[i - 1] \in T /\ u[i] \in T /\ Cardinality(sub[u[i]]) < Cardinality(sub[u[i - 1]])
      BY <1>6, <1>10, <1>11, <2>1, <2>3
    <3>2. Cardinality(sub[u[i]]) \in Nat /\ Cardinality(sub[u[i - 1]]) \in Nat
      BY <1>6, <3>1
    <3> QED
      BY <3>1, <3>2, NodeFacts
  <2>4. \A s \in T : s \in W => mu[s] < N
    BY <1>3, <1>6, NodeFacts
  <2> HIDE DEF W, mu
  <2> QED
    BY <1>3, <1>7, <1>11, <2>2, <2>3, <2>4, LoopEnds
<1>13. u[N] \in T /\ (u[N] # 0 => Down(u[N]) = 0)
  BY <1>3, <1>11, <1>12
<1> QED
  BY <1>1, <1>4, <1>13 DEF T

\* n is a red leaf of u on the given side of last, where t has nothing.
Leafed(t, u, S, n, last, side) ==
  /\ u \in Tree /\ u.top = t.top /\ u.red[n] /\ \A m \in S : u.red[m] = t.red[m]
  /\ u["left"][n] = 0 /\ u["right"][n] = 0 /\ u.parent[n] = last
  /\ \A m \in S : u.parent[m] = t.parent[m]
  /\ \A m \in S, s \in Sides : u[s][m] = IF m = last /\ s = side THEN n ELSE t[s][m]

LEMMA LeafFields ==
  ASSUME NEW t \in Tree, NEW S \in SUBSET Nodes, NEW n \in Nodes, n \notin S,
         NEW last \in S, NEW side \in Sides
  PROVE  Leafed(t, Set(Set(Set(Set(Set(t, "left", n, 0), "right", n, 0), "parent", n, last),
                               side, last, n), "red", n, TRUE), S, n, last, side)
<1> DEFINE t1 == Set(t, "left", n, 0)
           t2 == Set(t1, "right", n, 0)
           t3 == Set(t2, "parent", n, last)
           t4 == Set(t3, side, last, n)
           u  == Set(t4, "red", n, TRUE)
<1>1. /\ n \in Null /\ last \in Null /\ 0 \in Null /\ n # last
      /\ "left" \in Links /\ "right" \in Links /\ "parent" \in Links /\ side \in Links
      /\ "left" \in Sides /\ "right" \in Sides
  BY NodeFacts DEF Links, Sides
<1>2. LinkSet(t, t1, "left", n, 0)
  BY <1>1, SetLink
<1>3. LinkSet(t1, t2, "right", n, 0)
  <2>1. t1 \in Tree
    BY <1>2 DEF LinkSet
  <2> HIDE DEF t1
  <2> QED
    BY <1>1, <2>1, SetLink
<1>4. LinkSet(t2, t3, "parent", n, last)
  <2>1. t2 \in Tree
    BY <1>3 DEF LinkSet
  <2> HIDE DEF t2
  <2> QED
    BY <1>1, <2>1, SetLink
<1>5. LinkSet(t3, t4, side, last, n)
  <2>1. t3 \in Tree
    BY <1>4 DEF LinkSet
  <2> HIDE DEF t3
  <2> QED
    BY <1>1, <2>1, SetLink
<1>6. RedSet(t4, u, n, TRUE)
  <2>1. t4 \in Tree /\ TRUE \in BOOLEAN
    BY <1>5 DEF LinkSet
  <2> HIDE DEF t4
  <2> QED
    BY <1>1, <2>1, SetRed, Zenon
<1> SUFFICES Leafed(t, u, S, n, last, side)
  OBVIOUS
<1> HIDE DEF t1, t2, t3, t4, u
<1>7. u \in Tree /\ u.top = t.top /\ u.red[n] /\ \A m \in S : u.red[m] = t.red[m]
  <2>1. u \in Tree /\ u.top = t4.top /\ \A m \in Nodes : u.red[m] = IF m = n THEN TRUE ELSE t4.red[m]
    BY <1>6 DEF RedSet
  <2>2. t4.top = t.top /\ t4.red = t.red
    BY <1>2, <1>3, <1>4, <1>5 DEF LinkSet
  <2> QED
    BY <2>1, <2>2
<1>8. ASSUME NEW g \in Links, NEW m \in Nodes
      PROVE  u[g][m] = IF g = side /\ m = last THEN n
                       ELSE IF g = "parent" /\ m = n THEN last
                       ELSE IF g \in Sides /\ m = n THEN 0 ELSE t[g][m]
  <2>1. u[g][m] = t4[g][m]
    BY <1>6 DEF RedSet
  <2>2. t4[g][m] = IF g = side /\ m = last THEN n ELSE t3[g][m]
    BY <1>5 DEF LinkSet
  <2>3. t3[g][m] = IF g = "parent" /\ m = n THEN last ELSE t2[g][m]
    BY <1>4 DEF LinkSet
  <2>4. t2[g][m] = IF g = "right" /\ m = n THEN 0 ELSE t1[g][m]
    BY <1>3 DEF LinkSet
  <2>5. t1[g][m] = IF g = "left" /\ m = n THEN 0 ELSE t[g][m]
    BY <1>2 DEF LinkSet
  <2> QED
    BY <2>1, <2>2, <2>3, <2>4, <2>5 DEF Links, Sides
<1>9. u["left"][n] = 0 /\ u["right"][n] = 0
  BY <1>1, <1>8
<1>10. \A m \in Nodes : u["parent"][m] = IF m = n THEN last ELSE t["parent"][m]
  BY <1>1, <1>8 DEF Sides
<1>11. \A m \in S, s \in Sides : u[s][m] = IF m = last /\ s = side THEN n ELSE t[s][m]
  BY <1>1, <1>8 DEF Links, Sides
<1>12. u["parent"] = u.parent /\ t["parent"] = t.parent
  BY <1>7, TreeType
<1> QED
  BY <1>7, <1>9, <1>10, <1>11, <1>12 DEF Leafed

LEMMA LeafShape ==
  ASSUME NEW t, NEW S, NEW R, NEW sub, Strict(R), Shape(t, S, R, sub),
         NEW n \in Nodes, n \notin S, NEW last \in S, last \in Spots(t, S, R, sub, n),
         NEW side \in Sides, t[side][last] = 0, Aside(R, side, n, last),
         NEW u, Leafed(t, u, S, n, last, side)
  PROVE  \E new : Shape(u, S \cup {n}, R, new)
<1> DEFINE new == [k \in Null |-> IF k = n THEN {n}
                                  ELSE IF last \in sub[k] THEN sub[k] \cup {n} ELSE sub[k]]
           Q == S \cup {n}
<1>1. /\ S \subseteq Nodes /\ S \subseteq Null /\ 0 \notin S /\ t \in Tree /\ t.top \in S
      /\ sub[t.top] = S /\ sub[0] = {} /\ n # 0 /\ n \in Null
      /\ \A k \in S : k \in sub[k]
  BY TopFacts, NodeFacts
<1>2. \A k \in Null : sub[k] \subseteq S
  BY TopFacts
<1>3. /\ u \in Tree /\ u.top = t.top
      /\ u["left"][n] = 0 /\ u["right"][n] = 0 /\ u.parent[n] = last
      /\ \A m \in S : u.parent[m] = t.parent[m]
      /\ \A m \in S, s \in Sides : u[s][m] = IF m = last /\ s = side THEN n ELSE t[s][m]
  BY DEF Leafed
<1>4. /\ new[0] = {} /\ new[n] = {n} /\ new[t.top] = Q
      /\ \A k \in S \cup {0} : new[k] = IF last \in sub[k] THEN sub[k] \cup {n} ELSE sub[k]
  BY <1>1, NodeFacts
<1>5. new \in [Null -> SUBSET Q]
  BY <1>1, <1>2
<1> HIDE DEF new
<1>6. /\ "left" \in Sides /\ "right" \in Sides
      /\ \A s \in Sides : s = "left" \/ s = "right"
  BY DEF Sides
<1>7. \A s \in Sides : u[s][n] = 0
  BY <1>3, <1>6
<1>8. ASSUME NEW k \in S, NEW s \in Sides
      PROVE  /\ t[s][k] \in S \cup {0}
             /\ (k = last /\ s = side) => u[s][k] = n
             /\ ~(k = last /\ s = side) =>
                  /\ u[s][k] = t[s][k]
                  /\ new[u[s][k]] = IF last \in sub[t[s][k]] THEN sub[t[s][k]] \cup {n}
                                    ELSE sub[t[s][k]]
  <2>1. t[s][k] \in S \cup {0}
    BY ChildIn
  <2> QED
    BY <1>3, <1>4, <2>1
<1>9. ASSUME NEW k \in S
      PROVE  /\ new[k] = Below(u, k, new)
  <2>1. sub[k] = {k} \cup sub[t["left"][k]] \cup sub[t["right"][k]]
    BY DEF Shape, Below
  <2>2. CASE k # last
    <3> DEFINE Add(X) == IF last \in X THEN X \cup {n} ELSE X
    <3>1. new[u["left"][k]] = Add(sub[t["left"][k]])
      BY <1>6, <1>8, <2>2
    <3>2. new[u["right"][k]] = Add(sub[t["right"][k]])
      BY <1>6, <1>8, <2>2
    <3>3. new[k] = Add(sub[k])
      BY <1>4
    <3>4. \A X, Y : Add({k} \cup X \cup Y) = {k} \cup Add(X) \cup Add(Y)
      BY <2>2
    <3> HIDE DEF Add
    <3>5. Add(sub[k]) = {k} \cup Add(sub[t["left"][k]]) \cup Add(sub[t["right"][k]])
      BY <2>1, <3>4
    <3> QED
      BY <3>1, <3>2, <3>3, <3>5 DEF Below
  <2>3. CASE k = last
    <3>1. \A s \in Sides : last \notin sub[t[s][k]]
      BY <2>3, ShapeFacts
    <3>2. new[k] = sub[k] \cup {n}
      BY <1>1, <1>4, <2>3
    <3>3. \A s \in Sides : new[u[s][k]] = IF s = side THEN {n} ELSE sub[t[s][k]]
      BY <1>4, <1>8, <2>3, <3>1, ZenonT(60)
    <3>4. sub[t[side][k]] = {}
      BY <1>1, <2>3
    <3>5. CASE side = "left"
      BY <1>6, <2>1, <3>2, <3>3, <3>4, <3>5 DEF Below
    <3>6. CASE side = "right"
      BY <1>6, <2>1, <3>2, <3>3, <3>4, <3>6 DEF Below
    <3> QED
      BY <1>6, <3>5, <3>6
  <2> QED
    BY <2>2, <2>3
<1>10. new[n] = Below(u, n, new)
  BY <1>3, <1>4 DEF Below
<1>11. ASSUME NEW k \in S, NEW s \in Sides PROVE Child(u, Q, R, new, k, s)
  <2>1. Child(t, S, R, sub, k, s)
    BY DEF Shape
  <2>2. CASE k = last /\ s = side
    <3>1. u[s][k] = n /\ new[u[s][k]] = {n}
      BY <1>4, <1>8, <2>2
    <3> QED
      BY <1>3, <2>2, <3>1 DEF Child
  <2>3. CASE ~(k = last /\ s = side)
    <3>1. u[s][k] = t[s][k] /\ t[s][k] \in S \cup {0}
      BY <1>8, <2>3
    <3>2. u[s][k] # 0 => u.parent[u[s][k]] = k
      BY <1>3, <2>1, <3>1 DEF Child
    <3>3. last \in sub[t[s][k]] => Aside(R, s, n, k)
      BY DEF Spots
    <3>4. \A m \in sub[t[s][k]] : Aside(R, s, m, k)
      BY <2>1 DEF Child
    <3>5. \A m \in new[u[s][k]] : Aside(R, s, m, k)
      <4>1. new[u[s][k]] = IF last \in sub[t[s][k]] THEN sub[t[s][k]] \cup {n}
                           ELSE sub[t[s][k]]
        BY <1>8, <2>3
      <4> QED
        BY <3>3, <3>4, <4>1
    <3> QED
      BY <3>1, <3>2, <3>5 DEF Child
  <2> QED
    BY <2>2, <2>3
<1>12. ASSUME NEW s \in Sides PROVE Child(u, Q, R, new, n, s)
  BY <1>4, <1>7 DEF Child
<1>13. ASSUME NEW k \in Q, k # u.top
       PROVE  u.parent[k] \in Q /\ \E s \in Sides : u[s][u.parent[k]] = k
  <2>1. CASE k = n
    BY <1>3, <2>1
  <2>2. CASE k # n
    <3>1. k \in S /\ u.parent[k] = t.parent[k] /\ k # t.top
      BY <1>3, <1>13, <2>2
    <3>2. PICK s \in Sides : t[s][t.parent[k]] = k /\ t.parent[k] \in S
      BY <3>1 DEF Shape
    <3>3. ~(t.parent[k] = last /\ s = side)
      BY <1>1, <3>1, <3>2
    <3>4. u[s][t.parent[k]] = k
      BY <1>3, <3>2, <3>3
    <3> QED
      BY <3>1, <3>2, <3>4
  <2> QED
    BY <2>1, <2>2
<1>14. u.top # 0 => u.parent[u.top] = 0
  <2>1. t.parent[t.top] = 0
    BY <1>1 DEF Shape
  <2> QED
    BY <1>1, <1>3, <2>1
<1>15. Q \subseteq Nodes /\ u.top \in Q \cup {0} /\ new[u.top] = Q
  BY <1>1, <1>3, <1>4
<1>16. \A k \in Q : new[k] = Below(u, k, new)
  BY <1>9, <1>10
<1>17. \A k \in Q, s \in Sides : Child(u, Q, R, new, k, s)
  BY <1>11, <1>12
<1> HIDE DEF Q
<1>18. Shape(u, Q, R, new)
  BY <1>3, <1>4, <1>5, <1>13, <1>14, <1>15, <1>16, <1>17 DEF Shape
<1> QED
  BY <1>18 DEF Q

LEMMA LeafFixing ==
  ASSUME NEW t, NEW S, NEW R, Strict(R), GoodTree(t, S, R),
         NEW n \in Nodes, n \notin S, NEW last \in S, NEW side \in Sides, t[side][last] = 0,
         NEW u, Leafed(t, u, S, n, last, side),
         NEW new, Shape(u, S \cup {n}, R, new)
  PROVE  \E bh : Fixing(u, n, S \cup {n}, R, new, bh)
<1>1. PICK sub : Shape(t, S, R, sub)
  BY DEF GoodTree
<1>2. PICK bh : Heights(t, S, bh, 0, "left")
  BY DEF GoodTree
<1>3. Reds(t, S, 0, 0) /\ ~IsRed(t, t.top)
  BY DEF GoodTree
<1>4. /\ S \subseteq Nodes /\ S \subseteq Null /\ 0 \notin S /\ t \in Tree /\ t.top \in S
      /\ n # 0 /\ n \in Null
  BY <1>1, TopFacts, NodeFacts
<1>5. /\ u \in Tree /\ u.top = t.top /\ u.red[n] /\ \A m \in S : u.red[m] = t.red[m]
      /\ u["left"][n] = 0 /\ u["right"][n] = 0
      /\ \A m \in S, s \in Sides : u[s][m] = IF m = last /\ s = side THEN n ELSE t[s][m]
  BY DEF Leafed
<1>6. \A s \in Sides : u[s][n] = 0
  BY <1>5 DEF Sides
<1> DEFINE nbh == [bh EXCEPT ![n] = 0]
<1>7. /\ bh \in [Null -> Nat] /\ bh[0] = 0
      /\ \A k \in S, s \in Sides : HeightAt(t, bh, 0, "left", k, s)
  BY <1>2 DEF Heights
<1>8. /\ nbh \in [Null -> Nat] /\ nbh[n] = 0 /\ nbh[0] = 0
      /\ \A k \in Null : k # n => nbh[k] = bh[k]
  BY <1>4, <1>7, NodeFacts
<1> HIDE DEF nbh
<1>9. /\ Blk(u, n) = 0 /\ Blk(u, 0) = 0 /\ Blk(t, 0) = 0
      /\ \A k \in S : Blk(u, k) = Blk(t, k)
  BY <1>5 DEF Blk
<1>10. ASSUME NEW k \in S \cup {n}, NEW s \in Sides
       PROVE  HeightAt(u, nbh, 0, "left", k, s)
  <2>1. Short(k, s, 0, "left") = 0
    BY <1>4 DEF Short
  <2>2. CASE k = n
    <3>1. u[s][k] = 0 /\ nbh[k] = 0
      BY <1>6, <1>8, <2>2
    <3> QED
      BY <1>8, <1>9, <2>1, <3>1 DEF HeightAt
  <2>3. CASE k = last /\ s = side
    <3>1. HeightAt(t, bh, 0, "left", k, s)
      BY <1>7, <2>3
    <3>2. bh[k] = 0
      BY <1>7, <1>9, <2>1, <2>3, <3>1 DEF HeightAt
    <3>3. u[s][k] = n /\ nbh[k] = 0 /\ nbh[n] = 0
      BY <1>4, <1>5, <1>8, <2>3, <3>2
    <3> QED
      BY <1>9, <2>1, <3>3 DEF HeightAt
  <2>4. CASE k # n /\ ~(k = last /\ s = side)
    <3>1. HeightAt(t, bh, 0, "left", k, s)
      BY <1>7, <2>4
    <3>2. u[s][k] = t[s][k] /\ t[s][k] \in S \cup {0} /\ nbh[k] = bh[k]
      BY <1>1, <1>4, <1>5, <1>8, <2>4, ChildIn
    <3>3. Blk(u, t[s][k]) = Blk(t, t[s][k]) /\ nbh[t[s][k]] = bh[t[s][k]]
      BY <1>4, <1>8, <1>9, <3>2, NodeFacts
    <3> QED
      BY <3>1, <3>2, <3>3 DEF HeightAt
  <2> QED
    BY <2>2, <2>3, <2>4
<1>11. Heights(u, S \cup {n}, nbh, 0, "left")
  BY <1>8, <1>10 DEF Heights
<1>12. Reds(u, S \cup {n}, 0, n)
  <2> SUFFICES ASSUME NEW k \in S \cup {n}, NEW s \in Sides,
                      u[s][k] # 0, u.red[k], u.red[u[s][k]], u[s][k] # n
               PROVE  FALSE
    BY DEF Reds
  <2>1. k \in S
    BY <1>6
  <2>2. u[s][k] = t[s][k] /\ t[s][k] \in S
    <3>1. t[s][k] \in S \cup {0}
      BY <1>1, <2>1, ChildIn
    <3> QED
      BY <1>5, <2>1, <3>1
  <2>3. t.red[k] /\ t.red[t[s][k]] /\ t[s][k] # 0 /\ k # 0
    BY <1>4, <1>5, <2>1, <2>2
  <2> QED
    BY <1>3, <2>1, <2>3 DEF Reds
<1>13. u.top # n => ~u.red[u.top]
  BY <1>3, <1>4, <1>5 DEF IsRed
<1>14. Fixing(u, n, S \cup {n}, R, new, nbh)
  BY <1>5, <1>11, <1>12, <1>13 DEF Fixing
<1> QED
  BY <1>14

\* A tree of one node.
LEMMA OneNode ==
  ASSUME NEW R, NEW n \in Nodes, NEW u \in Tree, u.top = n, u["left"][n] = 0,
         u["right"][n] = 0, u.parent[n] = 0, u.red[n] = FALSE
  PROVE  GoodTree(u, {n}, R)
<1> DEFINE sub == [k \in Null |-> IF k = n THEN {n} ELSE {}]
           bh == [k \in Null |-> 0]
<1>1. n # 0 /\ n \in Null /\ 0 \in Null
  BY NodeFacts
<1>2. sub \in [Null -> SUBSET {n}] /\ sub[0] = {} /\ sub[n] = {n}
  BY <1>1
<1>3. bh \in [Null -> Nat] /\ bh[0] = 0 /\ bh[n] = 0
  BY <1>1
<1> HIDE DEF sub, bh
<1>4. \A s \in Sides : u[s][n] = 0
  BY DEF Sides
<1>5. Shape(u, {n}, R, sub)
  <2>1. sub[n] = Below(u, n, sub)
    BY <1>2 DEF Below
  <2>2. \A s \in Sides : Child(u, {n}, R, sub, n, s)
    BY <1>2, <1>4 DEF Child
  <2> QED
    BY <1>2, <2>1, <2>2 DEF Shape
<1>6. Heights(u, {n}, bh, 0, "left")
  <2>1. Blk(u, 0) = 0
    BY DEF Blk
  <2>2. \A s \in Sides : Short(n, s, 0, "left") = 0
    BY <1>1 DEF Short
  <2>3. \A s \in Sides : HeightAt(u, bh, 0, "left", n, s)
    BY <1>3, <1>4, <2>1, <2>2 DEF HeightAt
  <2> QED
    BY <1>3, <2>3 DEF Heights
<1>7. Reds(u, {n}, 0, 0)
  BY <1>4 DEF Reds
<1>8. ~IsRed(u, u.top)
  BY DEF IsRed
<1> QED
  BY <1>5, <1>6, <1>7, <1>8 DEF GoodTree

\* GSK_RBTREE_INSERT_ leaves a red-black tree.
LEMMA TreeInsertGood ==
  ASSUME NEW t, NEW S, NEW R, Strict(R), GoodTree(t, S, R),
         NEW n \in Nodes, n \notin S, NEW later,
         \A k \in S : Aside(R, Way(later, k), n, k)
  PROVE  GoodTree(TreeInsert(t, n, later), S \cup {n}, R)
<1> DEFINE last == InsertPoint(t, later)
           side == Way(later, last)
           fresh == Set(Set(Set(t, "left", n, 0), "right", n, 0), "parent", n, last)
<1>1. PICK sub : Shape(t, S, R, sub)
  BY DEF GoodTree
<1>2. TreeInsert(t, n, later) =
        IF t.top = 0 THEN [Set(fresh, "red", n, FALSE) EXCEPT !.top = n]
        ELSE InsertFixup(Set(Set(fresh, side, last, n), "red", n, TRUE), n)
  BY DEF TreeInsert, Way
<1>3. last \in Spots(t, S, R, sub, n) /\ (last # 0 => t[side][last] = 0)
  BY <1>1, InsertPointIs
<1>4. /\ t \in Tree /\ S \subseteq Nodes /\ (t.top = 0 <=> S = {}) /\ n # 0 /\ n \in Null
      /\ 0 \in Null
  BY <1>1, TopFacts, NodeFacts
<1>5. side \in Sides
  BY DEF Way, Sides
<1>6. last \in S \cup {0} /\ (last = 0 => S = {})
  BY <1>3 DEF Spots
<1> HIDE DEF last, side
<1>7. CASE t.top = 0
  <2> DEFINE t1 == Set(t, "left", n, 0)
             t2 == Set(t1, "right", n, 0)
             t4 == Set(fresh, "red", n, FALSE)
             u  == [t4 EXCEPT !.top = n]
  <2>1. last = 0 /\ S = {}
    BY <1>4, <1>6, <1>7
  <2>2. "left" \in Links /\ "right" \in Links /\ "parent" \in Links
    BY DEF Links, Sides
  <2>3. LinkSet(t, t1, "left", n, 0)
    BY <1>4, <2>2, SetLink
  <2>4. LinkSet(t1, t2, "right", n, 0)
    <3>1. t1 \in Tree
      BY <2>3 DEF LinkSet
    <3> HIDE DEF t1
    <3> QED
      BY <1>4, <2>2, <3>1, SetLink
  <2>5. LinkSet(t2, fresh, "parent", n, 0)
    <3>1. t2 \in Tree /\ fresh = Set(t2, "parent", n, 0)
      BY <2>1, <2>4 DEF LinkSet
    <3> HIDE DEF t2, fresh
    <3> QED
      BY <1>4, <2>2, <3>1, SetLink
  <2> HIDE DEF t1, t2, fresh
  <2>6. RedSet(fresh, t4, n, FALSE)
    <3>1. fresh \in Tree /\ FALSE \in BOOLEAN
      BY <2>5 DEF LinkSet
    <3> QED
      BY <1>4, <3>1, SetRed, Zenon
  <2> HIDE DEF t4
  <2>7. t4 \in Tree /\ t4["left"][n] = 0 /\ t4["right"][n] = 0 /\ t4["parent"][n] = 0 /\ t4.red[n] = FALSE
    <3>1. t4 \in Tree /\ t4.red[n] = FALSE /\ \A g \in Links : t4[g] = fresh[g]
      BY <2>6 DEF RedSet
    <3>2. fresh["left"][n] = 0 /\ fresh["right"][n] = 0 /\ fresh["parent"][n] = 0
      BY <2>2, <2>3, <2>4, <2>5 DEF LinkSet
    <3> QED
      BY <2>2, <3>1, <3>2
  <2>8. u \in Tree /\ u.top = n /\ u.left = t4.left /\ u.right = t4.right
        /\ u.parent = t4.parent /\ u.red = t4.red
    BY <1>4, <2>7 DEF Tree
  <2> HIDE DEF u
  <2>9. u["left"][n] = 0 /\ u["right"][n] = 0 /\ u.parent[n] = 0 /\ u.red[n] = FALSE
    BY <2>7, <2>8, TreeType
  <2>10. GoodTree(u, {n}, R)
    BY <2>8, <2>9, OneNode
  <2> QED
    BY <1>2, <1>7, <2>1, <2>10 DEF u, t4
<1>8. CASE t.top # 0
  <2> DEFINE u == Set(Set(fresh, side, last, n), "red", n, TRUE)
  <2>1. last \in S /\ t[side][last] = 0 /\ Aside(R, side, n, last)
    <3>1. last \in S /\ last # 0
      BY <1>4, <1>6, <1>8, NodeFacts
    <3> QED
      BY <1>3, <3>1 DEF side
  <2>2. Leafed(t, u, S, n, last, side)
    BY <1>4, <1>5, <2>1, LeafFields
  <2> HIDE DEF u
  <2>3. PICK new : Shape(u, S \cup {n}, R, new)
    BY <1>1, <1>3, <1>5, <2>1, <2>2, LeafShape
  <2>4. PICK bh : Fixing(u, n, S \cup {n}, R, new, bh)
    BY <1>5, <2>1, <2>2, <2>3, LeafFixing
  <2>5. GoodTree(InsertFixup(u, n), S \cup {n}, R)
    BY <2>4, InsertFixupGood
  <2> QED
    BY <1>2, <1>8, <2>5 DEF u
<1> QED
  BY <1>7, <1>8
-----------------------------------------------------------------------------
(* The last node on the way down on one side.                              *)

\* All other nodes below n are below m or on the other side of it.
Outmost(t, S, R, sub, side, n) ==
  {m \in S : /\ m \in sub[n]
             /\ \A k \in sub[n], j \in sub[m] : k \in sub[m] \/ Aside(R, side, j, k)}

LEMMA OutmostTurn ==
  ASSUME NEW t, NEW S, NEW R, NEW sub, Strict(R), Shape(t, S, R, sub),
         NEW side \in Sides, NEW n \in S, NEW m \in Outmost(t, S, R, sub, side, n),
         t[side][m] # 0
  PROVE  /\ t[side][m] \in Outmost(t, S, R, sub, side, n)
         /\ Cardinality(sub[t[side][m]]) < Cardinality(sub[m])
<1> DEFINE c == t[side][m]
<1>1. /\ m \in S /\ m \in sub[n]
      /\ \A k \in sub[n], j \in sub[m] : k \in sub[m] \/ Aside(R, side, j, k)
  BY DEF Outmost
<1>2. c \in S
  <2>1. c \in S \cup {0}
    BY <1>1, ChildIn
  <2> QED
    BY <2>1
<1>3. sub[m] = {m} \cup sub[c] \cup sub[t[Other(side)][m]]
  BY <1>1, ShapeFacts
<1>4. sub[m] \subseteq sub[n] /\ c \in sub[c] /\ sub[n] \subseteq Nodes /\ sub[m] \subseteq Nodes
  <2>1. sub[m] \subseteq sub[n]
    BY <1>1, Nested
  <2>2. c \in sub[c]
    BY <1>2, TopFacts
  <2>3. n \in Null /\ S \subseteq Nodes
    BY TopFacts
  <2>4. sub[n] \subseteq S
    BY <2>3, TopFacts
  <2> QED
    BY <2>1, <2>2, <2>3, <2>4
<1>5. ASSUME NEW k \in sub[n], NEW j \in sub[c] PROVE k \in sub[c] \/ Aside(R, side, j, k)
  <2>1. j \in sub[m] /\ j \in Nodes /\ m \in Nodes /\ k \in Nodes
    BY <1>1, <1>3, <1>4
  <2>2. Aside(R, side, j, m)
    BY <1>1 DEF Shape, Child
  <2>3. CASE k \notin sub[m]
    BY <1>1, <2>1, <2>3
  <2>4. CASE k = m
    BY <2>2, <2>4
  <2>5. CASE k \in sub[t[Other(side)][m]]
    <3>1. Other(side) \in Sides /\ Other(Other(side)) = side
      BY OtherSide
    <3>2. Aside(R, Other(side), k, m)
      BY <1>1, <2>5, <3>1 DEF Shape, Child
    <3>3. Aside(R, side, m, k)
      BY <2>1, <3>1, <3>2, AsideFacts
    <3> QED
      BY <2>1, <2>2, <3>3, AsideFacts
  <2> QED
    BY <1>3, <2>3, <2>4, <2>5
<1>6. c \in Outmost(t, S, R, sub, side, n)
  BY <1>2, <1>3, <1>4, <1>5 DEF Outmost
<1>7. Cardinality(sub[c]) < Cardinality(sub[m])
  BY <1>1, Smaller
<1> QED
  BY <1>6, <1>7

LEMMA ExtremeIn ==
  ASSUME NEW t, NEW S, NEW R, NEW sub, Strict(R), Shape(t, S, R, sub),
         NEW side \in Sides, NEW n \in S
  PROVE  /\ Extreme(t, side, n) \in Outmost(t, S, R, sub, side, n)
         /\ t[side][Extreme(t, side, n)] = 0
<1> DEFINE N == Cardinality(DOMAIN t.red)
           Rec(g) == g = [i \in 0 .. N |->
                            IF i = 0 THEN n
                            ELSE LET m == g[i - 1]
                                 IN  IF t[side][m] # 0 THEN t[side][m] ELSE m]
           u == CHOOSE g : Rec(g)
           T == Outmost(t, S, R, sub, side, n)
           W == {m \in T : t[side][m] # 0}
           mu == [m \in T |-> MaxTimers - Cardinality(sub[m])]
           turn == [m \in T |-> IF t[side][m] # 0 THEN t[side][m] ELSE m]
<1>1. Extreme(t, side, n) = u[N]
  BY DEF Extreme, Loop
<1>2. t \in Tree
  BY TopFacts
<1>3. N = MaxTimers /\ N \in Nat
  BY <1>2, TreeType, NodeFacts
<1> HIDE DEF N, u
<1>5. n \in T
  <2>1. n \in sub[n]
    BY TopFacts
  <2> QED
    BY <2>1 DEF Outmost
<1>6. ASSUME NEW m \in T
      PROVE  /\ Cardinality(sub[m]) \in Nat /\ Cardinality(sub[m]) <= MaxTimers
             /\ Cardinality(sub[m]) > 0
             /\ t[side][m] # 0 =>
                  t[side][m] \in T /\ Cardinality(sub[t[side][m]]) < Cardinality(sub[m])
  <2>1. m \in S /\ m \in Null
    <3>1. m \in S
      BY DEF Outmost
    <3> QED
      BY <3>1, TopFacts
  <2>2. /\ IsFiniteSet(sub[m]) /\ Cardinality(sub[m]) \in Nat
        /\ Cardinality(sub[m]) <= Cardinality(S)
        /\ Cardinality(S) \in Nat /\ Cardinality(S) <= MaxTimers
    BY <2>1, TopFacts
  <2>3. Cardinality(sub[m]) > 0
    <3>1. m \in sub[m]
      BY <2>1, TopFacts
    <3> QED
      BY <2>2, <3>1, FS_EmptySet
  <2>4. t[side][m] # 0 =>
          t[side][m] \in T /\ Cardinality(sub[t[side][m]]) < Cardinality(sub[m])
    BY OutmostTurn
  <2> QED
    BY <2>2, <2>3, <2>4, NodeFacts
<1> HIDE DEF T
<1>7. turn \in [T -> T] /\ mu \in [T -> Nat]
  <2>1. \A m \in T : MaxTimers - Cardinality(sub[m]) \in Nat
    BY <1>6, NodeFacts
  <2> QED
    BY <1>6, <2>1
<1>8. Rec(u)
  <2>1. PICK g : Runs(g, N, T, n, turn)
    <3> HIDE DEF turn
    <3> QED
      BY <1>3, <1>5, <1>7, RunExists
  <2>2. g \in [0 .. N -> T] /\ g[0] = n /\ \A i \in 1 .. N : g[i] = turn[g[i - 1]]
    <3> HIDE DEF turn
    <3> QED
      BY <2>1 DEF Runs
  <2>3. ASSUME NEW i \in 0 .. N
        PROVE  g[i] = IF i = 0 THEN n
                      ELSE LET m == g[i - 1]
                           IN  IF t[side][m] # 0 THEN t[side][m] ELSE m
    <3>1. CASE i = 0
      BY <2>2, <3>1
    <3>2. CASE i # 0
      <4>1. i \in 1 .. N /\ i - 1 \in 0 .. N
        BY <1>3, <3>2
      <4>2. g[i] = turn[g[i - 1]] /\ g[i - 1] \in T
        <5> HIDE DEF turn
        <5> QED
          BY <2>2, <4>1
      <4> QED
        BY <3>2, <4>2
    <3> QED
      BY <3>1, <3>2
  <2>4. Rec(g)
    BY <2>2, <2>3
  <2> HIDE DEF Rec
  <2> QED
    BY <2>4 DEF u
<1>9. u[0] = n
  BY <1>3, <1>8
<1>10. ASSUME NEW i \in 1 .. N
       PROVE  u[i] = IF t[side][u[i - 1]] # 0 THEN t[side][u[i - 1]] ELSE u[i - 1]
  <2>1. i \in 0 .. N /\ i # 0
    BY <1>3
  <2> QED
    BY <1>8, <2>1
<1> HIDE DEF Rec, turn
<1>11. \A i \in 0 .. N : u[i] \in T
  <2>1. ASSUME NEW i \in 1 .. N, u[i - 1] \in T PROVE u[i] \in T
    BY <1>6, <1>10, <2>1
  <2> QED
    BY <1>3, <1>5, <1>9, <2>1, StaysIn
<1>12. u[N] \notin W
  <2>1. \A i \in 1 .. N : i - 1 \in 0 .. N /\ i \in 0 .. N
    BY <1>3
  <2>2. \A i \in 1 .. N : u[i - 1] \notin W => u[i] = u[i - 1]
    BY <1>10, <1>11, <2>1
  <2>3. ASSUME NEW i \in 1 .. N, u[i - 1] \in W PROVE mu[u[i]] > mu[u[i - 1]]
    <3>1. u[i - 1] \in T /\ u[i] \in T /\ Cardinality(sub[u[i]]) < Cardinality(sub[u[i - 1]])
      BY <1>6, <1>10, <1>11, <2>1, <2>3
    <3>2. Cardinality(sub[u[i]]) \in Nat /\ Cardinality(sub[u[i - 1]]) \in Nat
      BY <1>6, <3>1
    <3> QED
      BY <3>1, <3>2, NodeFacts
  <2>4. \A s \in T : s \in W => mu[s] < N
    BY <1>3, <1>6, NodeFacts
  <2> HIDE DEF W, mu
  <2> QED
    BY <1>3, <1>7, <1>11, <2>2, <2>3, <2>4, LoopEnds
<1>13. u[N] \in T /\ t[side][u[N]] = 0
  BY <1>3, <1>11, <1>12
<1> QED
  BY <1>1, <1>13 DEF T

\* The last node on one side is on that side of all others.
LEMMA ExtremeIs ==
  ASSUME NEW t, NEW S, NEW R, NEW sub, Strict(R), Shape(t, S, R, sub),
         NEW side \in Sides, NEW n \in S
  PROVE  /\ Extreme(t, side, n) \in sub[n] /\ Extreme(t, side, n) \in S
         /\ t[side][Extreme(t, side, n)] = 0
         /\ \A k \in sub[n] : k # Extreme(t, side, n) => Aside(R, side, Extreme(t, side, n), k)
<1> DEFINE e == Extreme(t, side, n)
<1>1. e \in Outmost(t, S, R, sub, side, n) /\ t[side][e] = 0
  BY ExtremeIn
<1> HIDE DEF e
<1>2. /\ e \in S /\ e \in sub[n]
      /\ \A k \in sub[n], j \in sub[e] : k \in sub[e] \/ Aside(R, side, j, k)
  BY <1>1 DEF Outmost
<1>3. e \in sub[e] /\ sub[0] = {} /\ S \subseteq Nodes /\ \A m \in Null : sub[m] \subseteq S
  BY <1>2, TopFacts
<1>4. sub[e] = {e} \cup sub[t[side][e]] \cup sub[t[Other(side)][e]]
  BY <1>2, ShapeFacts
<1>5. ASSUME NEW k \in sub[n], k # e PROVE Aside(R, side, e, k)
  <2>1. CASE k \notin sub[e]
    BY <1>2, <1>3, <2>1
  <2>2. CASE k \in sub[t[Other(side)][e]]
    <3>1. Other(side) \in Sides /\ Other(Other(side)) = side
      BY OtherSide
    <3>2. Aside(R, Other(side), k, e)
      BY <1>2, <2>2, <3>1 DEF Shape, Child
    <3>3. t[Other(side)][e] \in Null
      BY <1>2, <3>1, ChildIn
    <3>4. k \in Nodes /\ e \in Nodes
      BY <1>2, <1>3, <2>2, <3>3
    <3> QED
      BY <3>1, <3>2, <3>4, AsideFacts
  <2> QED
    BY <1>1, <1>3, <1>4, <1>5, <2>1, <2>2
<1> QED
  BY <1>1, <1>2, <1>5 DEF e

\* GSK_RBTREE_FIRST_ is the first node.
LEMMA TreeFirstIs ==
  ASSUME NEW t, NEW S, NEW R, Strict(R), GoodTree(t, S, R), t.top # 0
  PROVE  TreeFirst(t) \in S /\ \A k \in S : k # TreeFirst(t) => <<TreeFirst(t), k>> \in R
<1>1. PICK sub : Shape(t, S, R, sub)
  BY DEF GoodTree
<1>2. t.top \in S /\ sub[t.top] = S
  BY <1>1, TopFacts
<1>3. TreeFirst(t) = Extreme(t, "left", t.top)
  BY DEF TreeFirst
<1>4. "left" \in Sides
  BY DEF Sides
<1>5. \A k \in S : k # Extreme(t, "left", t.top) => Aside(R, "left", Extreme(t, "left", t.top), k)
  BY <1>1, <1>2, <1>4, ExtremeIs
<1>6. Extreme(t, "left", t.top) \in S
  BY <1>1, <1>2, <1>4, ExtremeIs
<1> QED
  BY <1>3, <1>5, <1>6 DEF Aside
-----------------------------------------------------------------------------
(* The fixup of a removal: the node x is black by one too much.            *)

\* On the given side of xp, where the black node x or NULL is, a black node is
\* missing.
Lacking(t, S, R, sub, bh, x, xp, side) ==
  /\ Shape(t, S, R, sub) /\ Heights(t, S, bh, xp, side)
  /\ Reds(t, S, 0, 0) /\ ~IsRed(t, t.top)
  /\ xp \in S /\ side \in Sides /\ t[side][xp] = x /\ ~IsRed(t, x)

\* There is a sibling.
LEMMA Sibling ==
  ASSUME NEW t, NEW S, NEW R, NEW sub, Strict(R), NEW bh, NEW x, NEW xp, NEW side,
         Lacking(t, S, R, sub, bh, x, xp, side)
  PROVE  /\ t[Other(side)][xp] \in S /\ t[Other(side)][xp] # xp /\ t[Other(side)][xp] # x
         /\ bh[xp] = bh[x] + Blk(t, x) + 1
         /\ bh[xp] = bh[t[Other(side)][xp]] + Blk(t, t[Other(side)][xp])
         /\ bh[xp] \in Nat /\ bh[x] \in Nat /\ bh[t[Other(side)][xp]] \in Nat
<1> DEFINE o == Other(side)
           w == t[o][xp]
<1>1. /\ Shape(t, S, R, sub) /\ Heights(t, S, bh, xp, side)
      /\ xp \in S /\ side \in Sides /\ t[side][xp] = x
  BY DEF Lacking
<1>2. o \in Sides /\ o # side
  BY <1>1, OtherSide
<1>3. w \in S \cup {0} /\ x \in S \cup {0}
  BY <1>1, <1>2, ChildIn
<1>4. S \subseteq Null /\ 0 \in Null /\ 0 \notin S
  BY <1>1, TopFacts, NodeFacts
<1>5. bh \in [Null -> Nat] /\ bh[0] = 0 /\ HeightAt(t, bh, xp, side, xp, side)
      /\ HeightAt(t, bh, xp, side, xp, o)
  BY <1>1, <1>2 DEF Heights
<1>6. bh[xp] \in Nat /\ bh[x] \in Nat /\ bh[w] \in Nat
  BY <1>1, <1>3, <1>4, <1>5
<1>7. bh[xp] = bh[x] + Blk(t, x) + 1
  BY <1>1, <1>5 DEF HeightAt, Short
<1>8. bh[xp] = bh[w] + Blk(t, w)
  <2>1. Short(xp, o, xp, side) = 0
    BY <1>2 DEF Short
  <2>2. bh[xp] = bh[w] + Blk(t, w) + 0
    BY <1>5, <2>1 DEF HeightAt
  <2>3. Blk(t, w) \in Nat
    BY DEF Blk
  <2> QED
    BY <1>6, <2>2, <2>3
<1>9. w # 0
  <2>1. Blk(t, 0) = 0 /\ Blk(t, x) \in Nat
    BY DEF Blk
  <2> QED
    BY <1>5, <1>6, <1>7, <1>8, <2>1
<1>10. w # xp /\ w # x
  <2>1. o \in Sides /\ Other(o) = side
    BY <1>1, OtherSide
  <2>2. (t[o][xp] # 0 => t[o][xp] # t[Other(o)][xp]) /\ t[o][xp] # xp
    BY <1>1, <2>1, TwoChildren
  <2> QED
    BY <1>1, <1>9, <2>1, <2>2
<1> QED
  BY <1>3, <1>6, <1>7, <1>8, <1>9, <1>10

\* A red sibling is rotated away.
LEMMA SiblingTurned ==
  ASSUME NEW t, NEW S, NEW R, NEW sub, Strict(R), NEW bh, NEW x, NEW xp, NEW side,
         Lacking(t, S, R, sub, bh, x, xp, side), IsRed(t, t[Other(side)][xp])
  PROVE  /\ \E new : Lacking(SiblingBlack(t, side, xp), S, R, new, bh, x, xp, side)
         /\ ~IsRed(SiblingBlack(t, side, xp), SiblingBlack(t, side, xp)[Other(side)][xp])
         /\ IsRed(SiblingBlack(t, side, xp), xp)
<1> DEFINE o == Other(side)
           w == t[o][xp]
           v == Set(Set(t, "red", w, FALSE), "red", xp, TRUE)
           u == Rotate(v, side, xp)
           b == t[side][w]
<1>1. /\ Shape(t, S, R, sub) /\ Heights(t, S, bh, xp, side)
      /\ Reds(t, S, 0, 0) /\ ~IsRed(t, t.top)
      /\ xp \in S /\ side \in Sides /\ t[side][xp] = x /\ ~IsRed(t, x)
  BY DEF Lacking
<1>2. /\ o \in Sides /\ o # side /\ Other(o) = side /\ \A r \in Sides : r = side \/ r = o
  BY <1>1, OtherSide
<1>3. w \in S /\ w # xp /\ w # x
  BY Sibling
<1>4. /\ S \subseteq Nodes /\ S \subseteq Null /\ 0 \notin S /\ t \in Tree /\ t.top \in S
  BY <1>1, TopFacts
<1>5. SiblingBlack(t, side, xp) = u
  BY DEF SiblingBlack
<1>6. Reds2(t, v, w, xp, FALSE, TRUE)
  <2>1. w \in Null /\ xp \in Null /\ TRUE \in BOOLEAN /\ FALSE \in BOOLEAN
    BY <1>1, <1>3, <1>4
  <2> QED
    BY <1>4, <2>1, TwoReds, Zenon
<1> HIDE DEF v
<1>7. /\ SameLinks(t, v) /\ v.red[xp] = TRUE /\ v.red[w] = FALSE
      /\ \A n \in S : n # xp /\ n # w => v.red[n] = t.red[n]
  <2>1. /\ SameLinks(t, v)
        /\ \A n \in Nodes : v.red[n] = IF n = xp THEN TRUE ELSE IF n = w THEN FALSE
                                       ELSE t.red[n]
    BY <1>6 DEF Reds2
  <2> QED
    BY <1>1, <1>3, <1>4, <2>1
<1>8. /\ Turned(t, u, S, side, xp, w, b) /\ u.red = v.red
      /\ b # xp /\ b # w /\ b \in S \cup {0}
      /\ \E new : Shape(u, S, R, new)
  <2>1. w = t[Other(side)][xp]
    OBVIOUS
  <2> HIDE DEF w
  <2>2. /\ Turned(t, Rotate(v, side, xp), S, side, xp, w, t[side][w])
        /\ Rotate(v, side, xp).red = v.red
        /\ xp # w /\ t[side][w] # xp /\ t[side][w] # w /\ t[side][w] \in S \cup {0}
        /\ Shape(Rotate(v, side, xp), S, R,
                 [sub EXCEPT ![xp] = {xp} \cup sub[t[side][xp]] \cup sub[t[side][w]],
                             ![w] = sub[xp]])
    BY <1>1, <1>3, <1>7, <2>1, RotateColoured
  <2> QED
    BY <2>2, Zenon DEF w
<1>9. t.red[w] /\ ~t.red[xp]
  <2>1. t.red[w] /\ w # 0
    BY <1>3, <1>4 DEF IsRed
  <2>2. xp # 0
    BY <1>1, <1>4
  <2> QED
    BY <1>1, <1>2, <2>1, <2>2 DEF Reds
<1> HIDE DEF u
<1>10. Heights(u, S, bh, xp, side)
  <2>1. w = t[Other(side)][xp] /\ xp # w /\ ~(xp = xp /\ side = Other(side))
    BY <1>2, <1>3
  <2>2. t.red[xp] = FALSE
    BY <1>1, <1>4, <1>9 DEF Tree
  <2>3. /\ u.red[xp] = TRUE /\ u.red[w] = t.red[xp]
        /\ \A n \in S : n # xp /\ n # w => u.red[n] = t.red[n]
    BY <1>7, <1>8, <2>2
  <2> HIDE DEF w, b
  <2>4. Turned(t, u, S, side, xp, w, t[side][w])
    BY <1>8 DEF b
  <2>5. Traded(t, u, S, side, xp, w)
    BY <1>9, <2>1, <2>3, <2>4 DEF Traded
  <2> QED
    BY <1>1, <1>3, <2>1, <2>5, TradedShort
<1>11. /\ u.top = IF t.top = xp THEN w ELSE t.top
       /\ u[o][xp] = b /\ u[side][xp] = x /\ u[side][w] = xp /\ u[o][w] = t[o][w]
       /\ \A n \in S, s \in Sides : n # xp /\ n # w =>
            u[s][n] = IF t[s][n] = xp THEN w ELSE t[s][n]
  BY <1>1, <1>8 DEF Turned
<1>12. ~IsRed(t, b)
  <2>1. b # 0 => ~(t.red[w] /\ t.red[b])
    BY <1>1, <1>3, <1>4 DEF Reds
  <2> QED
    BY <1>9, <2>1 DEF IsRed
<1>13. ~IsRed(u, b)
  <2>1. b # 0 => u.red[b] = t.red[b]
    BY <1>7, <1>8
  <2> QED
    BY <1>12, <2>1 DEF IsRed
<1>14. ~IsRed(u, x)
  <2>1. x \in S \cup {0} /\ x # xp
    BY <1>1, ChildIn, TwoChildren
  <2>2. x # 0 => u.red[x] = t.red[x]
    BY <1>3, <1>7, <1>8, <2>1
  <2> QED
    BY <1>1, <2>2 DEF IsRed
<1>15. IsRed(u, xp)
  BY <1>1, <1>4, <1>7, <1>8 DEF IsRed
<1>16. ~IsRed(u, u.top)
  BY <1>1, <1>4, <1>7, <1>8, <1>11 DEF IsRed
<1> HIDE DEF o, w, b
<1>17. Reds(u, S, 0, 0)
  <2> SUFFICES ASSUME NEW n \in S, NEW s \in Sides, u[s][n] # 0, u.red[n], u.red[u[s][n]]
               PROVE  FALSE
    BY DEF Reds
  <2>1. n # w
    BY <1>7, <1>8
  <2>2. CASE n = xp
    <3>1. s = side \/ s = o
      BY <1>2
    <3>2. u[s][n] = x \/ u[s][n] = b
      BY <1>11, <2>2, <3>1
    <3> QED
      BY <1>13, <1>14, <3>2 DEF IsRed
  <2>3. CASE n # xp
    <3>1. u[s][n] = IF t[s][n] = xp THEN w ELSE t[s][n]
      BY <1>11, <2>1, <2>3
    <3>2. t[s][n] # xp /\ u[s][n] = t[s][n]
      BY <1>7, <1>8, <3>1
    <3>3. t[s][n] \in S /\ t[s][n] # w
      <4>1. t[s][n] \in S \cup {0}
        BY <1>1, ChildIn
      <4> QED
        BY <1>7, <1>8, <3>2, <4>1
    <3>4. t.red[n] /\ t.red[t[s][n]]
      BY <1>7, <1>8, <2>1, <2>3, <3>2, <3>3
    <3> QED
      BY <1>1, <1>4, <3>3, <3>4 DEF Reds
  <2> QED
    BY <2>2, <2>3
<1>18. PICK new : Shape(u, S, R, new)
  BY <1>8
<1>19. Lacking(u, S, R, new, bh, x, xp, side)
  BY <1>1, <1>10, <1>11, <1>14, <1>16, <1>17, <1>18 DEF Lacking
<1> QED
  BY <1>5, <1>11, <1>13, <1>15, <1>19 DEF o

\* x, perhaps NULL below np, is black by one too much, unless it is the top.
Heavy(t, S, R, sub, bh, x, np) ==
  /\ Shape(t, S, R, sub) /\ x \in S \cup {0} /\ Reds(t, S, x, x)
  /\ IsRed(t, t.top) => t.top = x
  /\ \/ x = t.top /\ Heights(t, S, bh, 0, "left")
     \/ /\ x # t.top
        /\ \E dp \in S, ds \in Sides :
             t[ds][dp] = x /\ Heights(t, S, bh, dp, ds) /\ (x = 0 => np = dp)

\* The sibling and its children are black: it becomes red, and the black that is
\* too much goes up.
LEMMA BlackFamily ==
  ASSUME NEW t, NEW S, NEW R, NEW sub, Strict(R), NEW bh, NEW x, NEW xp, NEW side, NEW np,
         Lacking(t, S, R, sub, bh, x, xp, side), ~IsRed(t, t[Other(side)][xp]),
         \A s \in Sides : ~IsRed(t, t[s][t[Other(side)][xp]])
  PROVE  \E new : Heavy(Set(t, "red", t[Other(side)][xp], TRUE), S, R, sub, new, xp, np)
<1> DEFINE o == Other(side)
           w == t[o][xp]
           u == Set(t, "red", w, TRUE)
           new == [bh EXCEPT ![xp] = bh[xp] - 1]
<1>1. /\ Shape(t, S, R, sub) /\ Heights(t, S, bh, xp, side)
      /\ Reds(t, S, 0, 0) /\ ~IsRed(t, t.top)
      /\ xp \in S /\ side \in Sides /\ t[side][xp] = x /\ ~IsRed(t, x)
  BY DEF Lacking
<1>2. /\ o \in Sides /\ o # side /\ Other(o) = side /\ \A r \in Sides : r = side \/ r = o
  BY <1>1, OtherSide
<1>3. /\ w \in S /\ w # xp /\ w # x
      /\ bh[xp] = bh[x] + Blk(t, x) + 1 /\ bh[xp] = bh[w] + Blk(t, w)
      /\ bh[xp] \in Nat /\ bh[x] \in Nat /\ bh[w] \in Nat
  BY Sibling
<1>4. /\ S \subseteq Nodes /\ S \subseteq Null /\ 0 \notin S /\ t \in Tree /\ t.top \in S
  BY <1>1, TopFacts
<1>5. /\ SameLinks(t, u) /\ u.red[w] = TRUE
      /\ \A n \in S : n # w => u.red[n] = t.red[n]
  <2>1. RedSet(t, u, w, TRUE)
    <3>1. w \in Null /\ TRUE \in BOOLEAN
      BY <1>3, <1>4
    <3> QED
      BY <1>4, <3>1, SetRed, Zenon
  <2> HIDE DEF u
  <2> QED
    BY <1>3, <1>4, <2>1 DEF RedSet, SameLinks
<1> HIDE DEF u
<1>6. u \in Tree /\ u.top = t.top /\ u.parent = t.parent /\ \A s \in Sides : u[s] = t[s]
  BY <1>4, <1>5, LinksSame
<1>7. Shape(u, S, R, sub)
  BY <1>1, <1>5, ColouredShape
<1>8. Blk(t, x) \in Nat
  BY DEF Blk
<1>9. /\ new \in [Null -> Nat] /\ new[xp] = bh[xp] - 1 /\ new[0] = 0
      /\ \A n \in Null : n # xp => new[n] = bh[n]
  <2>1. bh \in [Null -> Nat] /\ bh[0] = 0
    BY <1>1 DEF Heights
  <2>2. xp \in Null /\ bh[xp] - 1 \in Nat
    BY <1>1, <1>3, <1>4, <1>8
  <2> QED
    BY <1>1, <1>4, <2>1, <2>2, NodeFacts
<1> HIDE DEF new
<1>10. /\ Blk(u, w) = 0 /\ Blk(t, w) = 1 /\ Blk(u, 0) = Blk(t, 0)
       /\ \A n \in S : n # w => Blk(u, n) = Blk(t, n)
  BY <1>3, <1>4, <1>5 DEF Blk, IsRed
<1> DEFINE Down(n, s) == new[n] = new[t[s][n]] + Blk(u, t[s][n])
<1>11. ASSUME NEW s \in Sides PROVE Down(xp, s)
  <2>1. CASE s = side
    <3>1. x \in S \cup {0} /\ x # xp
      BY <1>1, ChildIn, TwoChildren
    <3>2. new[x] = bh[x] /\ Blk(u, x) = Blk(t, x)
      BY <1>3, <1>4, <1>9, <1>10, <3>1, NodeFacts
    <3> QED
      BY <1>1, <1>3, <1>8, <1>9, <2>1, <3>2
  <2>2. CASE s = o
    <3>1. new[w] = bh[w]
      BY <1>3, <1>4, <1>9
    <3> QED
      BY <1>3, <1>9, <1>10, <2>2, <3>1
  <2> QED
    BY <1>2, <2>1, <2>2
<1>12. ASSUME NEW n \in S, NEW s \in Sides, n # xp
       PROVE  /\ t[s][n] # xp => Down(n, s)
              /\ t[s][n] = xp => new[n] = new[t[s][n]] + Blk(u, t[s][n]) + 1
  <2>1. HeightAt(t, bh, xp, side, n, s) /\ Short(n, s, xp, side) = 0
    BY <1>1, <1>12 DEF Heights, Short
  <2>2. t[s][n] \in S \cup {0} /\ t[s][n] \in Null /\ t[s][n] # w
    <3>1. t[s][n] \in S \cup {0} /\ t[s][n] \in Null
      BY <1>1, ChildIn
    <3>2. CASE t[s][n] = w
      <4>1. t[o][xp] = t[s][n] /\ t[s][n] # 0
        BY <1>3, <1>4, <3>2
      <4>2. xp = n
        BY <1>1, <1>2, <4>1, OneParent
      <4> QED
        BY <1>12, <4>2
    <3> QED
      BY <3>1, <3>2
  <2>3. bh[n] \in Nat /\ bh[t[s][n]] \in Nat /\ Blk(t, t[s][n]) \in Nat
    <3>1. bh \in [Null -> Nat]
      BY <1>1 DEF Heights
    <3>2. Blk(t, t[s][n]) \in Nat
      BY DEF Blk
    <3> QED
      BY <1>4, <2>2, <3>1, <3>2
  <2>4. bh[n] = bh[t[s][n]] + Blk(t, t[s][n])
    <3>1. bh[n] = bh[t[s][n]] + Blk(t, t[s][n]) + 0
      BY <2>1 DEF HeightAt
    <3> QED
      BY <2>3, <3>1
  <2>5. new[n] = bh[n] /\ Blk(u, t[s][n]) = Blk(t, t[s][n])
    BY <1>4, <1>9, <1>10, <1>12, <2>2
  <2>6. CASE t[s][n] # xp
    <3>1. new[t[s][n]] = bh[t[s][n]]
      BY <1>9, <2>2, <2>6
    <3> QED
      BY <2>4, <2>5, <2>6, <3>1
  <2>7. CASE t[s][n] = xp
    <3>1. new[t[s][n]] = bh[t[s][n]] - 1
      BY <1>9, <2>7
    <3> QED
      BY <2>3, <2>4, <2>5, <2>7, <3>1
  <2> QED
    BY <2>6, <2>7
<1>13. \A n \in S, s \in Sides : Down(n, s) => new[n] = new[t[s][n]] + Blk(u, t[s][n]) + 0
  <2> SUFFICES ASSUME NEW n \in S, NEW s \in Sides, Down(n, s)
               PROVE  new[n] = new[t[s][n]] + Blk(u, t[s][n]) + 0
    OBVIOUS
  <2>1. t[s][n] \in Null
    BY <1>1, ChildIn
  <2>2. new[t[s][n]] \in Nat /\ Blk(u, t[s][n]) \in Nat
    BY <1>9, <2>1 DEF Blk
  <2> QED
    BY <2>2
<1> HIDE DEF Down
<1>14. Reds(u, S, xp, xp)
  <2> SUFFICES ASSUME NEW n \in S, NEW s \in Sides, u[s][n] # 0, u.red[n], u.red[u[s][n]],
                      n # xp, u[s][n] # xp
               PROVE  FALSE
    BY DEF Reds
  <2>1. u[s][n] = t[s][n] /\ t[s][n] \in S \cup {0}
    BY <1>1, <1>6, ChildIn
  <2>2. t[s][n] # w
    <3> SUFFICES ASSUME t[s][n] = w PROVE FALSE
      OBVIOUS
    <3>1. t[o][xp] = t[s][n] /\ t[s][n] # 0
      BY <1>3, <1>4
    <3>2. xp = n
      BY <1>1, <1>2, <3>1, OneParent
    <3> QED
      BY <3>2
  <2>3. t.red[t[s][n]] /\ t[s][n] # 0
    BY <1>5, <2>1, <2>2
  <2>4. n # w
    BY <2>3 DEF IsRed
  <2>5. t.red[n] /\ n # 0
    BY <1>4, <1>5, <2>4
  <2> QED
    BY <1>1, <1>4, <2>3, <2>5 DEF Reds
<1>15. ~IsRed(u, u.top)
  <2>1. t.top # w
    <3>1. t[o][xp] # 0 => t.parent[t[o][xp]] = xp
      BY <1>1, <1>2, ChildIn
    <3>2. t.parent[t.top] = 0
      BY <1>1, <1>4 DEF Shape
    <3> QED
      BY <1>1, <1>3, <1>4, <3>1, <3>2
  <2> QED
    BY <1>1, <1>4, <1>5, <1>6, <2>1 DEF IsRed
<1>16. CASE xp = t.top
  <2>1. ASSUME NEW n \in S, NEW s \in Sides PROVE HeightAt(u, new, 0, "left", n, s)
    <3>1. t[s][n] # xp
      <4>1. t[s][n] # 0 => t.parent[t[s][n]] = n
        BY <1>1, ChildIn
      <4>2. t.parent[t.top] = 0
        BY <1>1, <1>4 DEF Shape
      <4> QED
        BY <1>4, <1>16, <4>1, <4>2
    <3>2. Down(n, s)
      BY <1>11, <1>12, <3>1
    <3>3. Short(n, s, 0, "left") = 0
      BY <1>4 DEF Short
    <3> QED
      BY <1>6, <1>13, <3>2, <3>3 DEF HeightAt
  <2>2. Heights(u, S, new, 0, "left")
    BY <1>9, <2>1 DEF Heights
  <2>3. xp = u.top
    BY <1>6, <1>16
  <2>4. Heavy(u, S, R, sub, new, xp, np)
    BY <1>1, <1>7, <1>14, <1>15, <2>2, <2>3 DEF Heavy
  <2> QED
    BY <2>4 DEF u
<1>17. CASE xp # t.top
  <2>1. PICK ds \in Sides : t[ds][t.parent[xp]] = xp /\ t.parent[xp] \in S
    BY <1>1, <1>17 DEF Shape
  <2> DEFINE dp == t.parent[xp]
  <2>2. dp \in S /\ t[ds][dp] = xp /\ dp # xp
    BY <1>1, <2>1, TwoChildren
  <2> HIDE DEF dp
  <2>3. ASSUME NEW n \in S, NEW s \in Sides PROVE HeightAt(u, new, dp, ds, n, s)
    <3>1. CASE t[s][n] = xp
      <4>1. t[ds][dp] = t[s][n] /\ t[s][n] # 0
        BY <1>1, <1>4, <2>2, <3>1
      <4>2. n = dp /\ s = ds
        BY <1>1, <2>2, <4>1, OneParent
      <4>3. Short(n, s, dp, ds) = 1
        BY <4>2 DEF Short
      <4> QED
        BY <1>6, <1>12, <2>2, <3>1, <4>2, <4>3 DEF HeightAt
    <3>2. CASE t[s][n] # xp
      <4>1. ~(n = dp /\ s = ds)
        BY <2>2, <3>2
      <4>2. Short(n, s, dp, ds) = 0
        BY <4>1 DEF Short
      <4>3. Down(n, s)
        BY <1>11, <1>12, <3>2
      <4> QED
        BY <1>6, <1>13, <4>2, <4>3 DEF HeightAt
    <3> QED
      BY <3>1, <3>2
  <2>4. Heights(u, S, new, dp, ds)
    BY <1>9, <2>3 DEF Heights
  <2>5. xp # u.top /\ u[ds][dp] = xp /\ xp # 0
    BY <1>1, <1>4, <1>6, <1>17, <2>2
  <2>6. Heavy(u, S, R, sub, new, xp, np)
    BY <1>1, <1>7, <1>14, <1>15, <2>2, <2>4, <2>5 DEF Heavy
  <2> QED
    BY <2>6 DEF u
<1> QED
  BY <1>16, <1>17

\* The sibling of x is black; its outer child is red.
OuterIsRed(t, side, xp) ==
  /\ ~IsRed(t, t[Other(side)][xp])
  /\ IsRed(t, t[Other(side)][t[Other(side)][xp]])

\* Only the inner child of the sibling is red: it becomes the sibling.
LEMMA InnerNephew ==
  ASSUME NEW t, NEW S, NEW R, NEW sub, Strict(R), NEW bh, NEW x, NEW xp, NEW side,
         Lacking(t, S, R, sub, bh, x, xp, side), ~IsRed(t, t[Other(side)][xp]),
         IsRed(t, t[side][t[Other(side)][xp]]),
         ~IsRed(t, t[Other(side)][t[Other(side)][xp]])
  PROVE  /\ \E new : Lacking(OuterRed(t, side, t[Other(side)][xp]), S, R, new, bh, x, xp, side)
         /\ OuterIsRed(OuterRed(t, side, t[Other(side)][xp]), side, xp)
<1> DEFINE o == Other(side)
           w == t[o][xp]
           y == t[side][w]
           v == Set(Set(t, "red", y, FALSE), "red", w, TRUE)
           u == Rotate(v, o, w)
           b == t[o][y]
<1>1. /\ Shape(t, S, R, sub) /\ Heights(t, S, bh, xp, side)
      /\ Reds(t, S, 0, 0) /\ ~IsRed(t, t.top)
      /\ xp \in S /\ side \in Sides /\ t[side][xp] = x /\ ~IsRed(t, x)
  BY DEF Lacking
<1>2. /\ o \in Sides /\ o # side /\ Other(o) = side /\ \A r \in Sides : r = side \/ r = o
  BY <1>1, OtherSide
<1>3. w \in S /\ w # xp /\ w # x
  BY Sibling
<1>4. /\ S \subseteq Nodes /\ S \subseteq Null /\ 0 \notin S /\ t \in Tree /\ t.top \in S
  BY <1>1, TopFacts
<1>5. OuterRed(t, side, w) = u
  BY DEF OuterRed
<1>6. y \in S /\ t.red[y] /\ ~t.red[w] /\ y # w /\ ~IsRed(t, t[o][w]) /\ t[o][w] \in S \cup {0}
      /\ t[o][w] # y /\ t[o][w] # w
  <2>1. y \in S \cup {0} /\ y # w /\ t[o][w] \in S \cup {0} /\ t[o][w] # w
        /\ (y # 0 => y # t[o][w])
    BY <1>1, <1>2, <1>3, ChildIn, TwoChildren
  <2>2. w # 0
    BY <1>3, <1>4
  <2> QED
    BY <2>1, <2>2 DEF IsRed
<1>7. y # xp /\ y # x
  <2>1. CASE y = xp
    <3>1. t.parent[xp] = w /\ t.parent[w] = xp
      <4>1. t[side][w] # 0 => t.parent[t[side][w]] = w
        BY <1>1, <1>3, ChildIn
      <4>2. t[o][xp] # 0 => t.parent[t[o][xp]] = xp
        BY <1>1, <1>2, ChildIn
      <4> QED
        BY <1>3, <1>4, <1>6, <2>1, <4>1, <4>2
    <3>2. Cardinality(sub[w]) < Cardinality(sub[xp]) /\ Cardinality(sub[xp]) < Cardinality(sub[w])
      <4>1. Cardinality(sub[t[o][xp]]) < Cardinality(sub[xp])
        BY <1>1, <1>2, Smaller
      <4>2. Cardinality(sub[t[side][w]]) < Cardinality(sub[w])
        BY <1>1, <1>3, Smaller
      <4> QED
        BY <2>1, <4>1, <4>2
    <3>3. Cardinality(sub[w]) \in Nat /\ Cardinality(sub[xp]) \in Nat
      BY <1>1, <1>3, <1>4, TopFacts
    <3> QED
      BY <3>2, <3>3
  <2>2. CASE y = x
    <3>1. t[side][xp] = t[side][w] /\ t[side][w] # 0
      BY <1>1, <1>4, <1>6, <2>2
    <3>2. xp = w
      BY <1>1, <1>3, <3>1, OneParent
    <3> QED
      BY <1>3, <3>2
  <2> QED
    BY <2>1, <2>2
<1>8. Reds2(t, v, y, w, FALSE, TRUE)
  <2>1. w \in Null /\ y \in Null /\ TRUE \in BOOLEAN /\ FALSE \in BOOLEAN
    BY <1>3, <1>4, <1>6
  <2> QED
    BY <1>4, <2>1, TwoReds, Zenon
<1> HIDE DEF v
<1>9. /\ SameLinks(t, v) /\ v.red[w] = TRUE /\ v.red[y] = FALSE
      /\ \A n \in S : n # w /\ n # y => v.red[n] = t.red[n]
  <2>1. /\ SameLinks(t, v)
        /\ \A n \in Nodes : v.red[n] = IF n = w THEN TRUE ELSE IF n = y THEN FALSE
                                       ELSE t.red[n]
    BY <1>8 DEF Reds2
  <2> QED
    BY <1>3, <1>4, <1>6, <2>1
<1>10. /\ Turned(t, u, S, o, w, y, b) /\ u.red = v.red
       /\ b # w /\ b # y /\ b \in S \cup {0}
       /\ \E new : Shape(u, S, R, new)
  <2>1. y = t[Other(o)][w]
    BY <1>2
  <2> HIDE DEF w, o, y
  <2>2. /\ Turned(t, Rotate(v, o, w), S, o, w, y, t[o][y])
        /\ Rotate(v, o, w).red = v.red
        /\ w # y /\ t[o][y] # w /\ t[o][y] # y /\ t[o][y] \in S \cup {0}
        /\ Shape(Rotate(v, o, w), S, R,
                 [sub EXCEPT ![w] = {w} \cup sub[t[o][w]] \cup sub[t[o][y]],
                             ![y] = sub[w]])
    BY <1>1, <1>2, <1>3, <1>6, <1>9, <2>1, RotateColoured
  <2> QED
    BY <2>2, Zenon
<1> HIDE DEF u
<1>11. Heights(u, S, bh, xp, side)
  <2>1. y = t[Other(o)][w] /\ xp # y /\ ~(xp = w /\ side = Other(o))
    BY <1>2, <1>3, <1>7
  <2>2. t.red[w] = FALSE
    BY <1>3, <1>4, <1>6 DEF Tree
  <2>3. /\ u.red[w] = TRUE /\ u.red[y] = t.red[w]
        /\ \A n \in S : n # w /\ n # y => u.red[n] = t.red[n]
    BY <1>9, <1>10, <2>2
  <2> HIDE DEF w, b, o, y
  <2>4. Turned(t, u, S, o, w, y, t[o][y])
    BY <1>10 DEF b
  <2>5. Traded(t, u, S, o, w, y)
    BY <1>6, <2>1, <2>3, <2>4 DEF Traded
  <2> QED
    BY <1>1, <1>2, <1>3, <1>6, <2>1, <2>5, TradedShort
<1>12. /\ u.top = IF t.top = w THEN y ELSE t.top
       /\ u[side][w] = b /\ u[o][w] = t[o][w] /\ u[o][y] = w /\ u[side][y] = t[side][y]
       /\ \A n \in S, s \in Sides : n # w /\ n # y =>
            u[s][n] = IF t[s][n] = w THEN y ELSE t[s][n]
  BY <1>2, <1>10 DEF Turned
<1>13. ~IsRed(u, b)
  <2>1. b # 0 => ~(t.red[y] /\ t.red[b])
    BY <1>1, <1>2, <1>6, <1>4 DEF Reds
  <2>2. b # 0 => u.red[b] = t.red[b]
    BY <1>9, <1>10
  <2> QED
    BY <1>6, <2>1, <2>2 DEF IsRed
<1>14. ~IsRed(u, x)
  <2>1. x \in S \cup {0}
    BY <1>1, ChildIn
  <2>2. x # 0 => u.red[x] = t.red[x]
    BY <1>3, <1>7, <1>9, <1>10, <2>1
  <2> QED
    BY <1>1, <2>2 DEF IsRed
<1>15. ~IsRed(u, t[o][w])
  <2>1. t[o][w] # 0 => u.red[t[o][w]] = t.red[t[o][w]]
    BY <1>6, <1>9, <1>10
  <2> QED
    BY <1>6, <2>1 DEF IsRed
<1>16. ~IsRed(u, u.top)
  BY <1>1, <1>4, <1>6, <1>9, <1>10, <1>12, ZenonT(60) DEF IsRed
<1>17. u[o][xp] = y /\ u[side][xp] = x
  BY <1>1, <1>2, <1>3, <1>7, <1>12
<1>18. OuterIsRed(u, side, xp)
  <2>1. ~IsRed(u, y) /\ IsRed(u, w)
    BY <1>3, <1>4, <1>9, <1>10 DEF IsRed
  <2> QED
    BY <1>12, <1>17, <2>1 DEF OuterIsRed
<1> HIDE DEF o, w, b, y
<1>19. Reds(u, S, 0, 0)
  <2> SUFFICES ASSUME NEW n \in S, NEW s \in Sides, u[s][n] # 0, u.red[n], u.red[u[s][n]]
               PROVE  FALSE
    BY DEF Reds
  <2>1. n # y
    BY <1>9, <1>10
  <2>2. CASE n = w
    <3>1. s = side \/ s = o
      BY <1>2
    <3>2. u[s][n] = b \/ u[s][n] = t[o][w]
      BY <1>12, <2>2, <3>1
    <3> QED
      BY <1>13, <1>15, <3>2 DEF IsRed
  <2>3. CASE n # w
    <3>1. u[s][n] = IF t[s][n] = w THEN y ELSE t[s][n]
      BY <1>12, <2>1, <2>3
    <3>2. t[s][n] # w /\ u[s][n] = t[s][n]
      BY <1>9, <1>10, <3>1
    <3>3. t[s][n] \in S /\ t[s][n] # y
      <4>1. t[s][n] \in S \cup {0}
        BY <1>1, ChildIn
      <4> QED
        BY <1>9, <1>10, <3>2, <4>1
    <3>4. t.red[n] /\ t.red[t[s][n]]
      BY <1>9, <1>10, <2>1, <2>3, <3>2, <3>3
    <3> QED
      BY <1>1, <1>4, <3>3, <3>4 DEF Reds
  <2> QED
    BY <2>2, <2>3
<1>20. PICK new : Shape(u, S, R, new)
  BY <1>10
<1>21. Lacking(u, S, R, new, bh, x, xp, side)
  BY <1>1, <1>11, <1>14, <1>16, <1>17, <1>19, <1>20 DEF Lacking
<1> QED
  BY <1>5, <1>18, <1>21 DEF o, w

LEMMA NephewRed ==
  ASSUME NEW t, NEW S, NEW R, NEW sub, Strict(R), NEW bh, NEW x, NEW xp, NEW side,
         Lacking(t, S, R, sub, bh, x, xp, side), ~IsRed(t, t[Other(side)][xp]),
         NEW s \in Sides, IsRed(t, t[s][t[Other(side)][xp]])
  PROVE  /\ \E new : Lacking(OuterRed(t, side, t[Other(side)][xp]), S, R, new, bh, x, xp, side)
         /\ OuterIsRed(OuterRed(t, side, t[Other(side)][xp]), side, xp)
<1>1. CASE IsRed(t, t[Other(side)][t[Other(side)][xp]])
  <2>1. OuterRed(t, side, t[Other(side)][xp]) = t
    BY <1>1 DEF OuterRed
  <2>2. OuterIsRed(t, side, xp)
    BY <1>1 DEF OuterIsRed
  <2> QED
    BY <2>1, <2>2
<1>2. CASE ~IsRed(t, t[Other(side)][t[Other(side)][xp]])
  <2>1. side \in Sides
    BY DEF Lacking
  <2>2. s = side
    BY <1>2, <2>1, OtherSide
  <2> QED
    BY <1>2, <2>2, InnerNephew
<1> QED
  BY <1>1, <1>2

\* The outer child of the sibling takes the black that is missing.
LEMMA SettledGood ==
  ASSUME NEW t, NEW S, NEW R, NEW sub, Strict(R), NEW bh, NEW x, NEW xp, NEW side,
         Lacking(t, S, R, sub, bh, x, xp, side), OuterIsRed(t, side, xp)
  PROVE  GoodTree(Settled(t, side, xp), S, R)
<1> DEFINE o == Other(side)
           w == t[o][xp]
           z == t[o][w]
           v == Set(Set(Set(t, "red", w, t.red[xp]), "red", xp, FALSE), "red", z, FALSE)
           u == Rotate(v, side, xp)
           b == t[side][w]
           new == [[bh EXCEPT ![xp] = bh[w]] EXCEPT ![w] = bh[xp]]
<1>1. /\ Shape(t, S, R, sub) /\ Heights(t, S, bh, xp, side)
      /\ Reds(t, S, 0, 0) /\ ~IsRed(t, t.top)
      /\ xp \in S /\ side \in Sides /\ t[side][xp] = x /\ ~IsRed(t, x)
  BY DEF Lacking
<1>2. /\ o \in Sides /\ o # side /\ Other(o) = side /\ \A r \in Sides : r = side \/ r = o
  BY <1>1, OtherSide
<1>3. /\ w \in S /\ w # xp /\ w # x
      /\ bh[xp] = bh[x] + Blk(t, x) + 1 /\ bh[xp] = bh[w] + Blk(t, w)
      /\ bh[xp] \in Nat /\ bh[x] \in Nat /\ bh[w] \in Nat
  BY Sibling
<1>4. /\ S \subseteq Nodes /\ S \subseteq Null /\ 0 \notin S /\ t \in Tree /\ t.top \in S
  BY <1>1, TopFacts
<1>5. Settled(t, side, xp) = u
  BY DEF Settled
<1>6. /\ z \in S /\ t.red[z] /\ ~t.red[w] /\ z # w /\ b \in S \cup {0} /\ b # w /\ b # z
  <2>1. z \in S \cup {0} /\ z # w /\ (z # 0 => z # b) /\ b \in S \cup {0} /\ b # w
    BY <1>1, <1>2, <1>3, ChildIn, TwoChildren
  <2>2. ~IsRed(t, w) /\ IsRed(t, z)
    BY DEF OuterIsRed
  <2>3. w # 0
    BY <1>3, <1>4
  <2> QED
    BY <2>1, <2>2, <2>3 DEF IsRed
<1>7. z # xp /\ z # x /\ b # xp /\ (x # 0 => b # x)
  <2>1. ASSUME NEW s \in Sides, t[s][w] = xp PROVE FALSE
    <3>1. Cardinality(sub[t[s][w]]) < Cardinality(sub[w])
      BY <1>1, <1>3, Smaller
    <3>2. Cardinality(sub[t[o][xp]]) < Cardinality(sub[xp])
      BY <1>1, <1>2, Smaller
    <3>3. Cardinality(sub[w]) \in Nat /\ Cardinality(sub[xp]) \in Nat
      BY <1>1, <1>3, <1>4, TopFacts
    <3> QED
      BY <2>1, <3>1, <3>2, <3>3
  <2>2. ASSUME NEW s \in Sides, t[s][w] = x, x # 0 PROVE FALSE
    <3>1. t[side][xp] = t[s][w] /\ t[s][w] # 0
      BY <1>1, <2>2
    <3>2. xp = w
      BY <1>1, <1>3, <3>1, OneParent
    <3> QED
      BY <1>3, <3>2
  <2>3. z # xp /\ b # xp
    BY <1>1, <1>2, <2>1
  <2>4. z # 0
    BY <1>4, <1>6
  <2>5. x # 0 => b # x /\ z # x
    BY <1>1, <1>2, <2>2
  <2> QED
    BY <2>3, <2>4, <2>5
<1>8. Reds3(t, v, w, xp, z, t.red[xp], FALSE, FALSE)
  <2>1. /\ w \in Null /\ xp \in Null /\ z \in Null /\ FALSE \in BOOLEAN
        /\ t.red[xp] \in BOOLEAN
    BY <1>1, <1>3, <1>4, <1>6 DEF Tree
  <2> QED
    BY <1>4, <2>1, ThreeReds, Zenon
<1> HIDE DEF v
<1>9. /\ SameLinks(t, v) /\ v.red[w] = t.red[xp] /\ v.red[xp] = FALSE /\ v.red[z] = FALSE
      /\ \A n \in S : n # w /\ n # xp /\ n # z => v.red[n] = t.red[n]
  <2>1. /\ SameLinks(t, v)
        /\ \A n \in Nodes : v.red[n] = IF n = z THEN FALSE ELSE IF n = xp THEN FALSE
                                       ELSE IF n = w THEN t.red[xp] ELSE t.red[n]
    BY <1>8 DEF Reds3
  <2> QED
    BY <1>1, <1>3, <1>4, <1>6, <1>7, <2>1
<1>10. /\ Turned(t, u, S, side, xp, w, b) /\ u.red = v.red
       /\ \E fin : Shape(u, S, R, fin)
  <2>1. w = t[Other(side)][xp]
    OBVIOUS
  <2> HIDE DEF w
  <2>2. /\ Turned(t, Rotate(v, side, xp), S, side, xp, w, t[side][w])
        /\ Rotate(v, side, xp).red = v.red
        /\ xp # w /\ t[side][w] # xp /\ t[side][w] # w /\ t[side][w] \in S \cup {0}
        /\ Shape(Rotate(v, side, xp), S, R,
                 [sub EXCEPT ![xp] = {xp} \cup sub[t[side][xp]] \cup sub[t[side][w]],
                             ![w] = sub[xp]])
    BY <1>1, <1>3, <1>9, <2>1, RotateColoured
  <2> QED
    BY <2>2, Zenon
<1> HIDE DEF u
<1>11. /\ u.top = IF t.top = xp THEN w ELSE t.top
       /\ u[o][xp] = b /\ u[side][xp] = x /\ u[side][w] = xp /\ u[o][w] = z
       /\ \A n \in S, s \in Sides : n # xp /\ n # w =>
            u[s][n] = IF t[s][n] = xp THEN w ELSE t[s][n]
  BY <1>1, <1>10 DEF Turned
<1>12. /\ bh \in [Null -> Nat] /\ bh[0] = 0
       /\ \A n \in S, s \in Sides : HeightAt(t, bh, xp, side, n, s)
  BY <1>1 DEF Heights
<1>13. /\ new \in [Null -> Nat] /\ new[xp] = bh[w] /\ new[w] = bh[xp] /\ new[0] = 0
       /\ \A n \in Null : n # xp /\ n # w => new[n] = bh[n]
  <2>1. xp \in Null /\ w \in Null /\ xp # 0 /\ w # 0
    BY <1>1, <1>3, <1>4
  <2> QED
    BY <1>3, <1>12, <2>1, NodeFacts
<1> HIDE DEF new
<1>14. \A n \in S, s \in Sides : ~(n = xp /\ s = side) =>
         bh[n] = bh[t[s][n]] + Blk(t, t[s][n])
  <2> SUFFICES ASSUME NEW n \in S, NEW s \in Sides, ~(n = xp /\ s = side)
               PROVE  bh[n] = bh[t[s][n]] + Blk(t, t[s][n])
    OBVIOUS
  <2>1. Short(n, s, xp, side) = 0
    BY DEF Short
  <2>2. bh[n] = bh[t[s][n]] + Blk(t, t[s][n]) + 0
    BY <1>12, <2>1 DEF HeightAt
  <2>3. bh[t[s][n]] \in Nat /\ Blk(t, t[s][n]) \in Nat
    <3>1. t[s][n] \in Null
      BY <1>1, ChildIn
    <3> QED
      BY <1>12, <3>1 DEF Blk
  <2> QED
    BY <2>2, <2>3
<1>15. /\ Blk(t, w) = 1 /\ Blk(t, z) = 0 /\ Blk(u, z) = 1 /\ Blk(u, xp) = 1
       /\ Blk(u, w) = Blk(t, xp) /\ Blk(u, 0) = Blk(t, 0)
       /\ \A n \in S : n # w /\ n # xp /\ n # z => Blk(u, n) = Blk(t, n)
  BY <1>1, <1>3, <1>4, <1>6, <1>9, <1>10 DEF Blk
<1>16. bh[w] = bh[z] /\ bh[w] = bh[b] + Blk(t, b) /\ bh[xp] = bh[w] + 1
       /\ bh[w] = bh[x] + Blk(t, x)
  <2>1. bh[w] = bh[z] + Blk(t, z) /\ bh[w] = bh[b] + Blk(t, b)
    BY <1>1, <1>2, <1>3, <1>14
  <2>2. bh[z] \in Nat /\ bh[b] \in Nat
    BY <1>4, <1>6, <1>12, NodeFacts
  <2>3. Blk(t, x) \in Nat
    BY DEF Blk
  <2> QED
    BY <1>3, <1>15, <2>1, <2>2, <2>3
<1>17. ASSUME NEW s \in Sides PROVE new[xp] = new[u[s][xp]] + Blk(u, u[s][xp])
  <2>1. CASE s = side
    <3>1. x \in S \cup {0} /\ x # xp
      BY <1>1, ChildIn, TwoChildren
    <3>2. new[x] = bh[x] /\ Blk(u, x) = Blk(t, x)
      BY <1>3, <1>4, <1>7, <1>13, <1>15, <3>1, NodeFacts
    <3> QED
      BY <1>11, <1>13, <1>16, <2>1, <3>2
  <2>2. CASE s = o
    <3>1. new[b] = bh[b] /\ Blk(u, b) = Blk(t, b)
      BY <1>4, <1>6, <1>7, <1>13, <1>15, NodeFacts
    <3> QED
      BY <1>11, <1>13, <1>16, <2>2, <3>1
  <2> QED
    BY <1>2, <2>1, <2>2
<1>18. ASSUME NEW s \in Sides PROVE new[w] = new[u[s][w]] + Blk(u, u[s][w])
  <2>1. CASE s = side
    BY <1>11, <1>13, <1>15, <1>16, <2>1
  <2>2. CASE s = o
    <3>1. new[z] = bh[z]
      BY <1>4, <1>6, <1>7, <1>13
    <3> QED
      BY <1>11, <1>13, <1>15, <1>16, <2>2, <3>1
  <2> QED
    BY <1>2, <2>1, <2>2
<1>19. ASSUME NEW n \in S, NEW s \in Sides, n # xp, n # w
       PROVE  new[n] = new[u[s][n]] + Blk(u, u[s][n])
  <2>1. bh[n] = bh[t[s][n]] + Blk(t, t[s][n]) /\ new[n] = bh[n]
    BY <1>4, <1>13, <1>14, <1>19
  <2>2. t[s][n] \in S \cup {0} /\ t[s][n] \in Null
    BY <1>1, ChildIn
  <2>3. CASE t[s][n] = xp
    <3>1. u[s][n] = w
      BY <1>11, <1>19, <2>3
    <3> QED
      BY <1>13, <1>15, <2>1, <2>3, <3>1
  <2>4. CASE t[s][n] # xp
    <3>1. u[s][n] = t[s][n]
      BY <1>11, <1>19, <2>4
    <3>2. t[s][n] # w
      <4> SUFFICES ASSUME t[s][n] = w PROVE FALSE
        OBVIOUS
      <4>1. t[o][xp] = t[s][n] /\ t[s][n] # 0
        BY <1>3, <1>4
      <4>2. xp = n
        BY <1>1, <1>2, <4>1, OneParent
      <4> QED
        BY <1>19, <4>2
    <3>3. t[s][n] # z
      <4> SUFFICES ASSUME t[s][n] = z PROVE FALSE
        OBVIOUS
      <4>1. t[o][w] = t[s][n] /\ t[s][n] # 0
        BY <1>4, <1>6
      <4>2. w = n
        BY <1>1, <1>2, <1>3, <4>1, OneParent
      <4> QED
        BY <1>19, <4>2
    <3>4. new[t[s][n]] = bh[t[s][n]] /\ Blk(u, t[s][n]) = Blk(t, t[s][n])
      BY <1>13, <1>15, <2>2, <2>4, <3>2, <3>3
    <3> QED
      BY <2>1, <3>1, <3>4
  <2> QED
    BY <2>3, <2>4
<1>20. PICK fin : Shape(u, S, R, fin)
  BY <1>10
<1>21. Heights(u, S, new, 0, "left")
  <2>1. ASSUME NEW n \in S, NEW s \in Sides PROVE HeightAt(u, new, 0, "left", n, s)
    <3>1. Short(n, s, 0, "left") = 0
      BY <1>4 DEF Short
    <3>2. new[n] = new[u[s][n]] + Blk(u, u[s][n])
      BY <1>17, <1>18, <1>19
    <3>3. u[s][n] \in Null
      BY <1>20, ChildIn
    <3>4. new[u[s][n]] \in Nat /\ Blk(u, u[s][n]) \in Nat
      BY <1>13, <3>3 DEF Blk
    <3>5. new[n] = new[u[s][n]] + Blk(u, u[s][n]) + 0
      BY <3>2, <3>4
    <3> QED
      BY <3>1, <3>5 DEF HeightAt
  <2> QED
    BY <1>13, <2>1 DEF Heights
<1>22. ~IsRed(u, u.top)
  <2>1. CASE t.top = xp
    <3>1. ~t.red[xp] /\ u.top = w /\ u.red[w] = t.red[xp]
      BY <1>1, <1>4, <1>9, <1>10, <1>11, <2>1 DEF IsRed
    <3> QED
      BY <3>1 DEF IsRed
  <2>2. CASE t.top # xp
    <3>1. u.top = t.top /\ ~t.red[t.top]
      BY <1>1, <1>4, <1>11, <2>2 DEF IsRed
    <3>2. t.top # w
      <4>1. t[o][xp] # 0 => t.parent[t[o][xp]] = xp
        BY <1>1, <1>2, ChildIn
      <4>2. t.parent[t.top] = 0
        BY <1>1, <1>4 DEF Shape
      <4> QED
        BY <1>1, <1>3, <1>4, <4>1, <4>2
    <3>3. u.red[t.top] = FALSE \/ u.red[t.top] = t.red[t.top]
      BY <1>4, <1>9, <1>10, <2>2, <3>2
    <3> QED
      BY <3>1, <3>3 DEF IsRed
  <2> QED
    BY <2>1, <2>2
<1> HIDE DEF o, w, b, z
<1>23. Reds(u, S, 0, 0)
  <2> SUFFICES ASSUME NEW n \in S, NEW s \in Sides, u[s][n] # 0, u.red[n], u.red[u[s][n]]
               PROVE  FALSE
    BY DEF Reds
  <2>1. n # xp /\ n # z
    BY <1>9, <1>10
  <2>2. CASE n = w
    <3>1. s = side \/ s = o
      BY <1>2
    <3>2. u[s][n] = xp \/ u[s][n] = z
      BY <1>11, <2>2, <3>1
    <3> QED
      BY <1>9, <1>10, <3>2
  <2>3. CASE n # w
    <3>1. u[s][n] = IF t[s][n] = xp THEN w ELSE t[s][n]
      BY <1>11, <2>1, <2>3
    <3>2. t.red[n] /\ n # 0
      BY <1>4, <1>9, <1>10, <2>1, <2>3
    <3>3. CASE t[s][n] = xp
      <4>1. t.red[xp] /\ t[s][n] # 0
        BY <1>1, <1>4, <1>9, <1>10, <3>1, <3>3
      <4> QED
        BY <1>1, <1>4, <3>2, <3>3, <4>1 DEF Reds
    <3>4. CASE t[s][n] # xp
      <4>1. u[s][n] = t[s][n] /\ t[s][n] \in S \cup {0} /\ t[s][n] # 0
        BY <1>1, <3>1, <3>4, ChildIn
      <4>2. t[s][n] # w
        <5> SUFFICES ASSUME t[s][n] = w PROVE FALSE
          OBVIOUS
        <5>1. t[o][xp] = t[s][n]
          BY DEF w
        <5>2. xp = n
          BY <1>1, <1>2, <4>1, <5>1, OneParent
        <5> QED
          BY <2>1, <5>2
      <4>3. t[s][n] # z
        BY <1>9, <1>10, <4>1
      <4>4. t.red[t[s][n]]
        BY <1>9, <1>10, <3>4, <4>1, <4>2, <4>3
      <4> QED
        BY <1>1, <1>4, <3>2, <4>1, <4>4 DEF Reds
    <3> QED
      BY <3>3, <3>4
  <2> QED
    BY <2>2, <2>3
<1>24. GoodTree(u, S, R)
  BY <1>20, <1>21, <1>22, <1>23 DEF GoodTree
<1> QED
  BY <1>5, <1>24

\* Of a red-black tree the top may be taken for black by one too much.
LEMMA GoodIsHeavy ==
  ASSUME NEW t, NEW S, NEW R, GoodTree(t, S, R), NEW np
  PROVE  \E sub, bh : Heavy(t, S, R, sub, bh, t.top, np)
<1>1. PICK sub : Shape(t, S, R, sub)
  BY DEF GoodTree
<1>2. PICK bh : Heights(t, S, bh, 0, "left")
  BY DEF GoodTree
<1>3. t.top \in S \cup {0}
  BY <1>1 DEF Shape
<1>4. 0 \notin S
  BY <1>1, NodeFacts DEF Shape
<1>5. Reds(t, S, t.top, t.top)
  BY <1>4 DEF GoodTree, Reds
<1>6. Heavy(t, S, R, sub, bh, t.top, np)
  BY <1>1, <1>2, <1>3, <1>5 DEF Heavy
<1> QED
  BY <1>6

\* Where the fixup of a removal looks for the black that is missing.
HeavyParent(s) == IF s.x # 0 THEN s.tree.parent[s.x] ELSE s.nullpar
HeavySide(s)   == IF s.x = s.tree.left[HeavyParent(s)] THEN "left" ELSE "right"

RemoveGoesOn(s) == s.x # s.tree.top /\ ~IsRed(s.tree, s.x)

LEMMA HeavyIsLacking ==
  ASSUME NEW s, NEW S, NEW R, NEW sub, NEW bh, Strict(R),
         Heavy(s.tree, S, R, sub, bh, s.x, s.nullpar), RemoveGoesOn(s)
  PROVE  Lacking(s.tree, S, R, sub, bh, s.x, HeavyParent(s), HeavySide(s))
<1> DEFINE t == s.tree
           x == s.x
<1>1. /\ Shape(t, S, R, sub) /\ x \in S \cup {0} /\ Reds(t, S, x, x)
      /\ IsRed(t, t.top) => t.top = x
  BY DEF Heavy
<1>2. x # t.top /\ ~IsRed(t, x)
  BY DEF RemoveGoesOn
<1>3. PICK dp \in S : \E ds \in Sides :
        t[ds][dp] = x /\ Heights(t, S, bh, dp, ds) /\ (x = 0 => s.nullpar = dp)
  BY <1>2 DEF Heavy
<1>4. PICK ds \in Sides :
        t[ds][dp] = x /\ Heights(t, S, bh, dp, ds) /\ (x = 0 => s.nullpar = dp)
  BY <1>3
<1>5. /\ t \in Tree /\ 0 \notin S /\ S \subseteq Nodes
  BY <1>1, TopFacts
<1>6. HeavyParent(s) = dp
  <2>1. x # 0 => t.parent[x] = dp
    BY <1>1, <1>4, ChildIn
  <2> QED
    BY <1>4, <2>1 DEF HeavyParent
<1>7. "left" \in Sides /\ "right" \in Sides /\ Other("right") = "left" /\ t["left"] = t.left
  BY <1>5, TreeType DEF Sides, Other
<1>8. HeavySide(s) = ds
  <2>1. CASE ds = "left"
    BY <1>4, <1>6, <1>7, <2>1 DEF HeavySide
  <2>2. CASE ds = "right"
    <3>1. t["left"][dp] # x
      <4> SUFFICES ASSUME t["left"][dp] = x PROVE FALSE
        OBVIOUS
      <4>1. x = 0
        <5>1. t[ds][dp] # 0 => t[ds][dp] # t[Other(ds)][dp]
          BY <1>1, TwoChildren
        <5> QED
          BY <1>4, <1>7, <2>2, <5>1
      <4>2. bh[dp] = bh[0] + Blk(t, 0) + Short(dp, "right", dp, ds)
        BY <1>4, <1>7, <2>2, <4>1 DEF Heights, HeightAt
      <4>3. bh[dp] = bh[0] + Blk(t, 0) + Short(dp, "left", dp, ds)
        BY <1>4, <1>7, <4>1 DEF Heights, HeightAt
      <4>4. Short(dp, "right", dp, ds) = 1 /\ Short(dp, "left", dp, ds) = 0 /\ Blk(t, 0) = 0
        BY <2>2 DEF Short, Blk
      <4>5. bh[0] = 0
        BY <1>4 DEF Heights
      <4> QED
        BY <4>2, <4>3, <4>4, <4>5
    <3> QED
      BY <1>6, <1>7, <2>2, <3>1 DEF HeavySide
  <2> QED
    BY <1>4, <2>1, <2>2 DEF Sides
<1>9. Reds(t, S, 0, 0)
  BY <1>1, <1>2, <1>5 DEF Reds, IsRed
<1>10. ~IsRed(t, t.top)
  BY <1>1, <1>2
<1> QED
  BY <1>1, <1>2, <1>4, <1>6, <1>8, <1>9, <1>10 DEF Lacking

\* What becomes of a tree whose sibling is black.
LEMMA RemoveTurn ==
  ASSUME NEW t, NEW S, NEW R, NEW sub, Strict(R), NEW bh, NEW x, NEW xp, NEW side, NEW np,
         Lacking(t, S, R, sub, bh, x, xp, side), ~IsRed(t, t[Other(side)][xp])
  PROVE  IF ~IsRed(t, t.left[t[Other(side)][xp]]) /\ ~IsRed(t, t.right[t[Other(side)][xp]])
         THEN /\ \E new : Heavy(Set(t, "red", t[Other(side)][xp], TRUE), S, R, sub, new, xp, np)
              /\ IsRed(t, xp) => IsRed(Set(t, "red", t[Other(side)][xp], TRUE), xp)
         ELSE GoodTree(Settled(OuterRed(t, side, t[Other(side)][xp]), side, xp), S, R)
<1> DEFINE w == t[Other(side)][xp]
<1>1. Shape(t, S, R, sub) /\ xp \in S /\ side \in Sides
  BY DEF Lacking
<1>2. t \in Tree /\ S \subseteq Nodes /\ 0 \notin S
  BY <1>1, TopFacts
<1>3. t["left"] = t.left /\ t["right"] = t.right
  BY <1>2, TreeType
<1>4. w \in S
  BY Sibling
<1>5. CASE ~IsRed(t, t.left[w]) /\ ~IsRed(t, t.right[w])
  <2>1. \A s \in Sides : ~IsRed(t, t[s][t[Other(side)][xp]])
    BY <1>3, <1>5 DEF Sides
  <2>2. \E new : Heavy(Set(t, "red", t[Other(side)][xp], TRUE), S, R, sub, new, xp, np)
    BY <2>1, BlackFamily
  <2>3. IsRed(t, xp) => IsRed(Set(t, "red", w, TRUE), xp)
    <3>1. w \in Null /\ TRUE \in BOOLEAN
      BY <1>2, <1>4, NodeFacts
    <3>2. RedSet(t, Set(t, "red", w, TRUE), w, TRUE)
      BY <1>2, <3>1, SetRed, Zenon
    <3> QED
      BY <1>1, <1>2, <3>2 DEF RedSet, IsRed
  <2> QED
    BY <1>5, <2>2, <2>3
<1>6. CASE ~(~IsRed(t, t.left[w]) /\ ~IsRed(t, t.right[w]))
  <2>1. PICK s \in Sides : IsRed(t, t[s][t[Other(side)][xp]])
    BY <1>3, <1>6 DEF Sides
  <2>2. /\ \E new : Lacking(OuterRed(t, side, t[Other(side)][xp]), S, R, new, bh, x, xp, side)
        /\ OuterIsRed(OuterRed(t, side, t[Other(side)][xp]), side, xp)
    BY <2>1, NephewRed
  <2>3. GoodTree(Settled(OuterRed(t, side, t[Other(side)][xp]), side, xp), S, R)
    BY <2>2, SettledGood
  <2> QED
    BY <1>6, <2>3
<1> QED
  BY <1>5, <1>6

\* The states of the fixup of a removal, and how much is below s.x.
HeavyStates(S, R) ==
  {s \in [tree : Tree, x : Null, nullpar : Null] :
     \E sub, bh : Heavy(s.tree, S, R, sub, bh, s.x, s.nullpar)}
HeavySize(s, S, R) == Cardinality(SubOf(s.tree, S, R)[s.x])

\* A turn of the fixup: it goes up, or it is the last.
LEMMA RemoveStep ==
  ASSUME NEW S, NEW R, Strict(R), NEW sub, NEW bh, NEW s,
         Heavy(s.tree, S, R, sub, bh, s.x, s.nullpar), RemoveGoesOn(s),
         NEW r, r.nullpar = s.nullpar,
         NEW t, t = SiblingBlack(s.tree, HeavySide(s), HeavyParent(s)),
         NEW w, w = t[Other(HeavySide(s))][HeavyParent(s)],
         IF ~IsRed(t, t.left[w]) /\ ~IsRed(t, t.right[w])
         THEN r.tree = Set(t, "red", w, TRUE) /\ r.x = HeavyParent(s)
         ELSE /\ r.tree = Settled(OuterRed(t, HeavySide(s), w), HeavySide(s), HeavyParent(s))
              /\ r.x = r.tree.top
  PROVE  /\ \E fin, new : Heavy(r.tree, S, R, fin, new, r.x, r.nullpar)
         /\ RemoveGoesOn(r) => /\ Shape(r.tree, S, R, sub)
                               /\ Cardinality(sub[r.x]) > Cardinality(sub[s.x])
<1> DEFINE xp == HeavyParent(s)
           side == HeavySide(s)
<1>1. Lacking(s.tree, S, R, sub, bh, s.x, xp, side)
  BY HeavyIsLacking
<1> HIDE DEF xp, side
<1>2. /\ Shape(s.tree, S, R, sub) /\ xp \in S /\ side \in Sides /\ s.tree[side][xp] = s.x
  BY <1>1 DEF Lacking
<1>3. CASE IsRed(s.tree, s.tree[Other(side)][xp])
  <2>1. /\ \E new : Lacking(t, S, R, new, bh, s.x, xp, side)
        /\ ~IsRed(t, t[Other(side)][xp]) /\ IsRed(t, xp)
    BY <1>1, <1>3, SiblingTurned DEF xp, side
  <2>2. PICK fin : Lacking(t, S, R, fin, bh, s.x, xp, side)
    BY <2>1
  <2>3. IF ~IsRed(t, t.left[w]) /\ ~IsRed(t, t.right[w])
        THEN /\ \E new : Heavy(Set(t, "red", w, TRUE), S, R, fin, new, xp, r.nullpar)
             /\ IsRed(t, xp) => IsRed(Set(t, "red", w, TRUE), xp)
        ELSE GoodTree(Settled(OuterRed(t, side, w), side, xp), S, R)
    BY <2>1, <2>2, RemoveTurn DEF xp, side
  <2>4. CASE ~IsRed(t, t.left[w]) /\ ~IsRed(t, t.right[w])
    <3>1. ~RemoveGoesOn(r)
      BY <2>1, <2>3, <2>4 DEF RemoveGoesOn, xp
    <3> QED
      BY <2>3, <2>4, <3>1 DEF xp
  <2>5. CASE ~(~IsRed(t, t.left[w]) /\ ~IsRed(t, t.right[w]))
    <3>1. GoodTree(r.tree, S, R) /\ r.x = r.tree.top
      BY <2>3, <2>5 DEF xp, side
    <3>2. \E a, b : Heavy(r.tree, S, R, a, b, r.x, r.nullpar)
      BY <3>1, GoodIsHeavy
    <3> QED
      BY <3>1, <3>2 DEF RemoveGoesOn
  <2> QED
    BY <2>4, <2>5
<1>4. CASE ~IsRed(s.tree, s.tree[Other(side)][xp])
  <2>1. t = s.tree
    BY <1>4 DEF SiblingBlack, xp, side
  <2>2. w = t[Other(side)][xp] /\ Lacking(t, S, R, sub, bh, s.x, xp, side)
    BY <1>1, <2>1 DEF xp, side
  <2>3. IF ~IsRed(t, t.left[w]) /\ ~IsRed(t, t.right[w])
        THEN /\ \E new : Heavy(Set(t, "red", w, TRUE), S, R, sub, new, xp, r.nullpar)
             /\ IsRed(t, xp) => IsRed(Set(t, "red", w, TRUE), xp)
        ELSE GoodTree(Settled(OuterRed(t, side, w), side, xp), S, R)
    BY <1>4, <2>1, <2>2, RemoveTurn, ZenonT(60)
  <2>4. CASE ~IsRed(t, t.left[w]) /\ ~IsRed(t, t.right[w])
    <3>1. PICK new : Heavy(r.tree, S, R, sub, new, r.x, r.nullpar)
      BY <2>3, <2>4 DEF xp
    <3>2. Shape(r.tree, S, R, sub)
      BY <3>1 DEF Heavy
    <3>3. Cardinality(sub[s.tree[side][xp]]) < Cardinality(sub[xp])
      BY <1>2, Smaller
    <3>4. sub[xp] \subseteq S /\ Cardinality(sub[xp]) \in Nat
      BY <1>2, TopFacts
    <3>5. r.x = xp
      BY <2>4 DEF xp
    <3>6. Cardinality(sub[r.x]) > Cardinality(sub[s.x])
      BY <1>2, <3>3, <3>5
    <3> QED
      BY <3>1, <3>2, <3>6
  <2>5. CASE ~(~IsRed(t, t.left[w]) /\ ~IsRed(t, t.right[w]))
    <3>1. GoodTree(r.tree, S, R) /\ r.x = r.tree.top
      BY <2>3, <2>5 DEF xp, side
    <3>2. \E a, b : Heavy(r.tree, S, R, a, b, r.x, r.nullpar)
      BY <3>1, GoodIsHeavy
    <3> QED
      BY <3>1, <3>2 DEF RemoveGoesOn
  <2> QED
    BY <2>4, <2>5
<1> QED
  BY <1>3, <1>4

LEMMA HeavyTurn ==
  ASSUME NEW S, NEW R, Strict(R), NEW s \in HeavyStates(S, R)
  PROVE  /\ HeavySize(s, S, R) \in Nat
         /\ RemoveGoesOn(s) =>
              LET r == RemoveFixupStep(s)
              IN  /\ HeavySize(s, S, R) < MaxTimers /\ r \in HeavyStates(S, R)
                  /\ RemoveGoesOn(r) => HeavySize(r, S, R) > HeavySize(s, S, R)
<1> DEFINE r == RemoveFixupStep(s)
<1>1. PICK sub, bh : Heavy(s.tree, S, R, sub, bh, s.x, s.nullpar)
  BY DEF HeavyStates
<1>2. /\ s \in [tree : Tree, x : Null, nullpar : Null]
      /\ s.x \in S \cup {0} /\ Shape(s.tree, S, R, sub)
  BY <1>1 DEF HeavyStates, Heavy
<1>3. HeavySize(s, S, R) = Cardinality(sub[s.x])
  BY <1>2, ShapeUnique DEF HeavySize
<1>4. Cardinality(sub[s.x]) \in Nat
  BY <1>2, TopFacts
<1>5. ASSUME RemoveGoesOn(s)
      PROVE  /\ HeavySize(s, S, R) < MaxTimers /\ r \in HeavyStates(S, R)
             /\ RemoveGoesOn(r) => HeavySize(r, S, R) > HeavySize(s, S, R)
  <2>1. s.x # s.tree.top
    BY <1>5 DEF RemoveGoesOn
  <2>2. HeavySize(s, S, R) < MaxTimers
    <3>1. CASE s.x # 0
      BY <1>2, <1>3, <2>1, <3>1, NotAll
    <3>2. CASE s.x = 0
      <4>1. sub[s.x] = {} /\ S \subseteq Nodes
        BY <1>2, <3>2, TopFacts
      <4>2. S # {}
        BY <1>2, <2>1, <3>2, TopFacts
      <4>3. Nodes # {}
        BY <4>1, <4>2
      <4>4. MaxTimers # 0
        BY <4>3 DEF Nodes
      <4>5. Cardinality(sub[s.x]) = 0
        BY <4>1, FS_EmptySet
      <4> QED
        BY <1>3, <4>4, <4>5, NodeFacts
    <3> QED
      BY <3>1, <3>2
  <2> DEFINE t == SiblingBlack(s.tree, HeavySide(s), HeavyParent(s))
             w == t[Other(HeavySide(s))][HeavyParent(s)]
             grown == [s EXCEPT !.tree = Set(t, "red", w, TRUE), !.x = HeavyParent(s)]
             fixed == Settled(OuterRed(t, HeavySide(s), w), HeavySide(s), HeavyParent(s))
             ended == [s EXCEPT !.tree = fixed, !.x = fixed.top]
  <2>3. r = IF ~IsRed(t, t.left[w]) /\ ~IsRed(t, t.right[w]) THEN grown ELSE ended
    BY DEF RemoveFixupStep, HeavyParent, HeavySide
  <2> HIDE DEF t, w, fixed, r
  <2>4. /\ grown = [tree |-> Set(t, "red", w, TRUE), x |-> HeavyParent(s), nullpar |-> s.nullpar]
        /\ ended = [tree |-> fixed, x |-> fixed.top, nullpar |-> s.nullpar]
    <3>1. \A a, b : [s EXCEPT !.tree = a, !.x = b] = [tree |-> a, x |-> b, nullpar |-> s.nullpar]
      <4> SUFFICES ASSUME NEW a, NEW b
                   PROVE  [s EXCEPT !.tree = a, !.x = b]
                            = [tree |-> a, x |-> b, nullpar |-> s.nullpar]
        OBVIOUS
      <4>1. [s EXCEPT !.tree = a, !.x = b] \in [tree : {a}, x : {b}, nullpar : {s.nullpar}]
        BY <1>2
      <4>2. \A e \in [tree : {a}, x : {b}, nullpar : {s.nullpar}] :
              e = [tree |-> a, x |-> b, nullpar |-> s.nullpar]
        OBVIOUS
      <4> QED
        BY <4>1, <4>2, Zenon
    <3> QED
      BY <3>1
  <2> HIDE DEF grown, ended
  <2>5. /\ r.nullpar = s.nullpar
        /\ r = [tree |-> r.tree, x |-> r.x, nullpar |-> r.nullpar]
        /\ IF ~IsRed(t, t.left[w]) /\ ~IsRed(t, t.right[w])
           THEN r.tree = Set(t, "red", w, TRUE) /\ r.x = HeavyParent(s)
           ELSE r.tree = fixed /\ r.x = r.tree.top
    BY <2>3, <2>4
  <2>6. /\ \E fin, new : Heavy(r.tree, S, R, fin, new, r.x, r.nullpar)
        /\ RemoveGoesOn(r) => /\ Shape(r.tree, S, R, sub)
                              /\ Cardinality(sub[r.x]) > Cardinality(sub[s.x])
    BY <1>1, <1>5, <2>5, RemoveStep DEF t, w, fixed
  <2>7. PICK fin, new : Heavy(r.tree, S, R, fin, new, r.x, r.nullpar)
    BY <2>6
  <2>8. Shape(r.tree, S, R, fin) /\ r.x \in S \cup {0}
    BY <2>7 DEF Heavy
  <2>9. r.tree \in Tree /\ r.x \in Null
    BY <2>8, TopFacts, NodeFacts
  <2>10. r \in HeavyStates(S, R)
    <3>1. r \in [tree : Tree, x : Null, nullpar : Null]
      BY <1>2, <2>5, <2>9
    <3> QED
      BY <2>7, <3>1 DEF HeavyStates
  <2>11. ASSUME RemoveGoesOn(r) PROVE HeavySize(r, S, R) > HeavySize(s, S, R)
    <3>1. HeavySize(r, S, R) = Cardinality(sub[r.x])
      BY <2>6, <2>8, <2>11, ShapeUnique DEF HeavySize
    <3> QED
      BY <1>3, <2>6, <2>11, <3>1
  <2> QED
    BY <2>2, <2>10, <2>11
<1> QED
  BY <1>3, <1>4, <1>5

\* The fixup ends at the top or at a red node: it becomes black.
LEMMA HeavyEnds ==
  ASSUME NEW t, NEW S, NEW R, NEW sub, Strict(R), NEW bh, NEW x, NEW np,
         Heavy(t, S, R, sub, bh, x, np), x = t.top \/ IsRed(t, x)
  PROVE  GoodTree(Set(t, "red", x, FALSE), S, R)
<1> DEFINE u == Set(t, "red", x, FALSE)
<1>1. /\ Shape(t, S, R, sub) /\ x \in S \cup {0} /\ Reds(t, S, x, x)
      /\ IsRed(t, t.top) => t.top = x
      /\ \/ x = t.top /\ Heights(t, S, bh, 0, "left")
         \/ /\ x # t.top
            /\ \E dp \in S, ds \in Sides :
                 t[ds][dp] = x /\ Heights(t, S, bh, dp, ds) /\ (x = 0 => np = dp)
  BY DEF Heavy
<1>2. t \in Tree /\ S \subseteq Nodes /\ 0 \notin S /\ S \subseteq Null
  BY <1>1, TopFacts
<1>3. RedSet(t, u, x, FALSE)
  <2>1. x \in Null /\ FALSE \in BOOLEAN
    BY <1>1, <1>2, NodeFacts
  <2> QED
    BY <1>2, <2>1, SetRed, Zenon
<1> HIDE DEF u
<1>4. /\ u \in Tree /\ u.top = t.top /\ \A g \in Links : u[g] = t[g]
      /\ \A m \in S : u.red[m] = IF m = x THEN FALSE ELSE t.red[m]
  BY <1>2, <1>3 DEF RedSet
<1>5. SameLinks(t, u)
  BY <1>4 DEF SameLinks
<1>6. Shape(u, S, R, sub)
  BY <1>1, <1>5, ColouredShape
<1>7. \A s \in Sides : u[s] = t[s]
  BY <1>4 DEF Links
<1>8. \A m \in S \cup {0} : Blk(u, m) = IF m = x /\ x # 0 THEN 1 ELSE Blk(t, m)
  BY <1>2, <1>4 DEF Blk
<1>9. Heights(u, S, bh, 0, "left")
  <2>1. CASE x = t.top /\ Heights(t, S, bh, 0, "left")
    <3>1. ASSUME NEW n \in S, NEW s \in Sides PROVE HeightAt(u, bh, 0, "left", n, s)
      <4>1. t[s][n] \in S \cup {0} /\ (t[s][n] # 0 => t.parent[t[s][n]] = n)
        BY <1>1, ChildIn
      <4>2. t[s][n] # x \/ x = 0
        BY <1>1, <1>2, <2>1, <4>1 DEF Shape
      <4>3. Blk(u, t[s][n]) = Blk(t, t[s][n])
        BY <1>8, <4>1, <4>2
      <4> QED
        BY <1>7, <2>1, <4>3 DEF Heights, HeightAt
    <3> QED
      BY <2>1, <3>1 DEF Heights
  <2>2. CASE x # t.top
    <3>1. PICK dp \in S : \E ds \in Sides : t[ds][dp] = x /\ Heights(t, S, bh, dp, ds)
      BY <1>1, <2>2
    <3>2. PICK ds \in Sides : t[ds][dp] = x /\ Heights(t, S, bh, dp, ds)
      BY <3>1
    <3>3. x # 0 /\ Blk(t, x) = 0
      BY <2>2 DEF IsRed, Blk
    <3>4. ASSUME NEW n \in S, NEW s \in Sides PROVE HeightAt(u, bh, 0, "left", n, s)
      <4>1. t[s][n] \in S \cup {0}
        BY <1>1, ChildIn
      <4>2. bh[n] = bh[t[s][n]] + Blk(t, t[s][n]) + Short(n, s, dp, ds)
        BY <3>2 DEF Heights, HeightAt
      <4>3. Short(n, s, 0, "left") = 0
        BY <1>2 DEF Short
      <4>4. bh[t[s][n]] \in Nat /\ bh[n] \in Nat
        BY <1>2, <3>2, <4>1, NodeFacts DEF Heights
      <4>5. CASE t[s][n] = x
        <5>1. t[ds][dp] = t[s][n] /\ t[s][n] # 0
          BY <3>2, <3>3, <4>5
        <5>2. n = dp /\ s = ds
          BY <1>1, <3>2, <5>1, OneParent
        <5>3. Short(n, s, dp, ds) = 1 /\ Blk(t, t[s][n]) = 0 /\ Blk(u, t[s][n]) = 1
          BY <1>1, <1>8, <3>3, <4>5, <5>2 DEF Short
        <5> QED
          BY <1>7, <4>2, <4>3, <4>4, <5>3 DEF HeightAt
      <4>6. CASE t[s][n] # x
        <5>1. ~(n = dp /\ s = ds)
          BY <3>2, <4>6
        <5>2. Short(n, s, dp, ds) = 0 /\ Blk(u, t[s][n]) = Blk(t, t[s][n])
          BY <1>8, <4>1, <4>6, <5>1 DEF Short
        <5> QED
          BY <1>7, <4>2, <4>3, <4>4, <5>2 DEF HeightAt
      <4> QED
        BY <4>5, <4>6
    <3> QED
      BY <3>2, <3>4 DEF Heights
  <2> QED
    BY <1>1, <2>1, <2>2
<1>10. Reds(u, S, 0, 0)
  <2> SUFFICES ASSUME NEW n \in S, NEW s \in Sides, u[s][n] # 0, u.red[n], u.red[u[s][n]]
               PROVE  FALSE
    BY DEF Reds
  <2>1. u[s][n] = t[s][n] /\ t[s][n] \in S
    BY <1>1, <1>7, ChildIn
  <2>2. n # x /\ t[s][n] # x /\ t.red[n] /\ t.red[t[s][n]]
    BY <1>4, <2>1
  <2> QED
    BY <1>1, <1>2, <2>1, <2>2 DEF Reds
<1>11. ~IsRed(u, u.top)
  <2>1. u.top \in S \cup {0}
    BY <1>6 DEF Shape
  <2> QED
    BY <1>1, <1>4, <2>1 DEF IsRed
<1> QED
  BY <1>6, <1>9, <1>10, <1>11 DEF GoodTree, u

LEMMA RemoveFixupGood ==
  ASSUME NEW S, NEW R, Strict(R), NEW t, NEW x, NEW np \in Null, NEW sub, NEW bh,
         Heavy(t, S, R, sub, bh, x, np)
  PROVE  GoodTree(RemoveFixup(t, x, np), S, R)
<1> DEFINE N == Cardinality(DOMAIN t.red)
           start == [tree |-> t, x |-> x, nullpar |-> np]
           Rec(g) == g = [i \in 0 .. N |->
                            IF i = 0 THEN start
                            ELSE LET s == g[i - 1]
                                 IN  IF s.x # s.tree.top /\ ~IsRed(s.tree, s.x)
                                     THEN RemoveFixupStep(s) ELSE s]
           u == CHOOSE g : Rec(g)
           T == HeavyStates(S, R)
           W == {s \in T : RemoveGoesOn(s)}
           mu == [s \in T |-> HeavySize(s, S, R)]
           turn == [s \in T |-> IF RemoveGoesOn(s) THEN RemoveFixupStep(s) ELSE s]
<1>1. RemoveFixup(t, x, np) = Set(u[N].tree, "red", u[N].x, FALSE)
  BY DEF RemoveFixup, Loop
<1>2. Shape(t, S, R, sub) /\ x \in Null /\ t \in Tree
  <2>1. Shape(t, S, R, sub) /\ x \in S \cup {0}
    BY DEF Heavy
  <2> QED
    BY <2>1, TopFacts, NodeFacts
<1>3. N = MaxTimers /\ N \in Nat
  BY <1>2, TreeType, NodeFacts
<1>4. start \in T
  <2>1. /\ start \in [tree : Tree, x : Null, nullpar : Null]
        /\ start.tree = t /\ start.x = x /\ start.nullpar = np
    BY <1>2
  <2> QED
    BY <2>1 DEF HeavyStates
<1>5. turn \in [T -> T] /\ mu \in [T -> Nat]
  BY HeavyTurn
<1> HIDE DEF N, start, u
<1>6. Rec(u)
  <2>0. PICK g : Runs(g, N, T, start, turn)
    <3> HIDE DEF T, turn
    <3> QED
      BY <1>3, <1>4, <1>5, RunExists
  <2>1. g \in [0 .. N -> T] /\ g[0] = start /\ \A i \in 1 .. N : g[i] = turn[g[i - 1]]
    <3> HIDE DEF T, turn
    <3> QED
      BY <2>0 DEF Runs
  <2>2. ASSUME NEW i \in 0 .. N
        PROVE  g[i] = IF i = 0 THEN start
                      ELSE LET s == g[i - 1]
                           IN  IF s.x # s.tree.top /\ ~IsRed(s.tree, s.x)
                               THEN RemoveFixupStep(s) ELSE s
    <3>1. CASE i = 0
      <4>1. g[i] = start
        <5> HIDE DEF T, turn
        <5> QED
          BY <2>1, <3>1
      <4> QED
        BY <3>1, <4>1
    <3>2. CASE i # 0
      <4>1. i \in 1 .. N /\ i - 1 \in 0 .. N
        BY <1>3, <3>2
      <4>2. g[i] = turn[g[i - 1]] /\ g[i - 1] \in T
        <5> HIDE DEF T, turn
        <5> QED
          BY <2>1, <4>1
      <4>3. \A s \in T : turn[s] = IF RemoveGoesOn(s) THEN RemoveFixupStep(s) ELSE s
        OBVIOUS
      <4> HIDE DEF T, turn
      <4>4. g[i] = IF RemoveGoesOn(g[i - 1]) THEN RemoveFixupStep(g[i - 1]) ELSE g[i - 1]
        BY <4>2, <4>3
      <4> QED
        BY <3>2, <4>4 DEF RemoveGoesOn
    <3> QED
      BY <3>1, <3>2
  <2>3. Rec(g)
    BY <2>1, <2>2
  <2> HIDE DEF Rec
  <2> QED
    BY <2>3 DEF u
<1>7. u[0] = start
  BY <1>3, <1>6
<1>8. ASSUME NEW i \in 1 .. N
      PROVE  u[i] = IF RemoveGoesOn(u[i - 1]) THEN RemoveFixupStep(u[i - 1]) ELSE u[i - 1]
  <2>1. i \in 0 .. N /\ i # 0
    BY <1>3
  <2> QED
    BY <1>6, <2>1 DEF RemoveGoesOn
<1> HIDE DEF Rec, T, turn
<1>9. \A i \in 0 .. N : u[i] \in T
  <2>1. ASSUME NEW i \in 1 .. N, u[i - 1] \in T PROVE u[i] \in T
    BY <1>8, <2>1, HeavyTurn DEF T
  <2> QED
    BY <1>3, <1>4, <1>7, <2>1, StaysIn
<1>10. u[N] \notin W
  <2>1. \A i \in 1 .. N : i - 1 \in 0 .. N /\ i \in 0 .. N
    BY <1>3
  <2>2. \A i \in 1 .. N : u[i - 1] \notin W => u[i] = u[i - 1]
    BY <1>8, <1>9, <2>1
  <2>3. \A i \in 1 .. N : u[i - 1] \in W /\ u[i] \in W => mu[u[i]] > mu[u[i - 1]]
    BY <1>8, <1>9, <2>1, HeavyTurn DEF T
  <2>4. \A s \in T : s \in W => mu[s] < N
    BY <1>3, HeavyTurn DEF T
  <2> HIDE DEF W, mu
  <2> QED
    BY <1>3, <1>5, <1>9, <2>2, <2>3, <2>4, LoopEnds
<1>11. u[N] \in T /\ ~RemoveGoesOn(u[N])
  BY <1>3, <1>9, <1>10
<1>12. PICK a, b : Heavy(u[N].tree, S, R, a, b, u[N].x, u[N].nullpar)
  BY <1>11 DEF T, HeavyStates
<1>13. u[N].x = u[N].tree.top \/ IsRed(u[N].tree, u[N].x)
  BY <1>11 DEF RemoveGoesOn
<1> QED
  BY <1>1, <1>12, <1>13, HeavyEnds
-----------------------------------------------------------------------------
(* A node is taken out, another takes its place.                           *)

\* What leads to the node n.
LEMMA LinksTo ==
  ASSUME NEW t, NEW S, NEW R, NEW sub, Strict(R), Shape(t, S, R, sub), NEW n \in S
  PROVE  /\ t.parent[n] \in S \cup {0} /\ (t.parent[n] = 0 <=> n = t.top)
         /\ \A m \in S, s \in Sides :
              t[s][m] = n <=> t.parent[n] # 0 /\ m = t.parent[n] /\ s = SideOf(t, t.parent[n], n)
<1>1. "left" \in Sides
  BY DEF Sides
<1>2. t.parent[n] \in S \cup {0} /\ (t.parent[n] = 0 <=> n = t.top)
  BY <1>1, ShapeFacts
<1>3. n # 0 /\ 0 \notin S
  BY TopFacts
<1>4. CASE n = t.top
  <2>1. ASSUME NEW m \in S, NEW s \in Sides, t[s][m] = n PROVE FALSE
    <3>1. t[s][m] # 0 => t.parent[t[s][m]] = m
      BY ChildIn
    <3> QED
      BY <1>2, <1>3, <1>4, <2>1, <3>1
  <2> QED
    BY <1>2, <1>4, <2>1
<1>5. CASE n # t.top
  BY <1>2, <1>5, SideOfIs
<1> QED
  BY <1>4, <1>5

\* y has no child but x, perhaps NULL, and x is where y was.
Spliced(t, u, S, y, x) ==
  /\ u \in Tree /\ u.red = t.red /\ u.top = (IF t.top = y THEN x ELSE t.top)
  /\ \E s \in Sides : t[s][y] = x /\ t[Other(s)][y] = 0
  /\ \A m \in S : u.parent[m] = IF m = x THEN t.parent[y] ELSE t.parent[m]
  /\ \A m \in S, s \in Sides : u[s][m] = IF t[s][m] = y THEN x ELSE t[s][m]

LEMMA SplicedIs ==
  ASSUME NEW t, NEW S, NEW R, NEW sub, Strict(R), Shape(t, S, R, sub), NEW y \in S,
         NEW x, \E s \in Sides : t[s][y] = x /\ t[Other(s)][y] = 0
  PROVE  Spliced(t, Relink(Set(t, "parent", x, t.parent[y]), t.parent[y], y, x), S, y, x)
<1> DEFINE p == t.parent[y]
           v == Set(t, "parent", x, p)
           u == Relink(v, p, y, x)
<1>1. t \in Tree /\ S \subseteq Nodes /\ 0 \notin S /\ S \subseteq Null /\ y # 0
  BY TopFacts
<1>2. x \in Null
  <2>1. PICK s \in Sides : t[s][y] = x
    OBVIOUS
  <2> QED
    BY <2>1, ChildIn
<1>3. /\ p \in S \cup {0} /\ (p = 0 <=> y = t.top)
      /\ \A m \in S, s \in Sides : t[s][m] = y <=> p # 0 /\ m = p /\ s = SideOf(t, p, y)
  BY LinksTo
<1>4. p \in Null /\ y \in Null /\ "parent" \in Links
  BY <1>1, <1>3, NodeFacts DEF Links
<1> HIDE DEF p
<1>5. LinkSet(t, v, "parent", x, p)
  BY <1>1, <1>2, <1>4, SetLink
<1> HIDE DEF v
<1>6. /\ v \in Tree /\ v.top = t.top /\ v.red = t.red
      /\ \A g \in Links, m \in Nodes : v[g][m] = IF g = "parent" /\ m = x THEN p ELSE t[g][m]
  BY <1>5 DEF LinkSet
<1>7. Relinked(v, u, p, y, x)
  BY <1>2, <1>4, <1>6, RelinkIs
<1> HIDE DEF u
<1>8. /\ u \in Tree /\ u.red = v.red /\ u.parent = v.parent
      /\ u.top = IF p = 0 THEN x ELSE v.top
      /\ \A s \in Sides, m \in Nodes :
           u[s][m] = IF m = p /\ s = SideOf(v, p, y) THEN x ELSE v[s][m]
  BY <1>7 DEF Relinked
<1>9. \A s \in Sides, m \in Nodes : v[s][m] = t[s][m]
  BY <1>6 DEF Sides, Links
<1>10. p # 0 => SideOf(v, p, y) = SideOf(t, p, y)
  <2>1. v["left"] = v.left /\ t["left"] = t.left /\ "left" \in Sides
    BY <1>1, <1>6, TreeType DEF Sides
  <2>2. p # 0 => v.left[p] = t.left[p]
    BY <1>1, <1>3, <1>9, <2>1
  <2> QED
    BY <2>2 DEF SideOf
<1>11. ASSUME NEW m \in S, NEW s \in Sides PROVE u[s][m] = IF t[s][m] = y THEN x ELSE t[s][m]
  <2>1. m \in Nodes /\ m # 0
    BY <1>1
  <2>2. u[s][m] = IF m = p /\ s = SideOf(v, p, y) THEN x ELSE t[s][m]
    BY <1>8, <1>9, <2>1
  <2> QED
    BY <1>3, <1>10, <2>1, <2>2
<1>12. ASSUME NEW m \in S PROVE u.parent[m] = IF m = x THEN p ELSE t.parent[m]
  <2>1. v["parent"] = v.parent /\ t["parent"] = t.parent
    BY <1>1, <1>6, TreeType
  <2> QED
    BY <1>1, <1>4, <1>6, <1>8, <2>1
<1> QED
  BY <1>3, <1>6, <1>8, <1>11, <1>12 DEF Spliced, u, v, p

\* The subtrees lose y.
Without(sub, y) == [n \in Null |-> sub[n] \ {y}]

LEMMA SplicedBelow ==
  ASSUME NEW t, NEW S, NEW R, NEW sub, Strict(R), Shape(t, S, R, sub), NEW y \in S,
         NEW x, NEW u, Spliced(t, u, S, y, x)
  PROVE  /\ x # y /\ (x # 0 => x # t.top)
         /\ x \in (S \ {y}) \cup {0}
         /\ sub[y] = {y} \cup sub[x] /\ y \notin sub[x]
         /\ \A n \in S \ {y}, s \in Sides :
              /\ u[s][n] \in (S \ {y}) \cup {0}
              /\ Without(sub, y)[u[s][n]] = sub[t[s][n]] \ {y}
<1>1. PICK r \in Sides : t[r][y] = x /\ t[Other(r)][y] = 0
  BY DEF Spliced
<1>2. S \subseteq Null /\ S \subseteq Nodes /\ 0 \notin S /\ 0 \in Null /\ sub[0] = {}
  BY TopFacts, NodeFacts
<1>3. /\ x \in S \cup {0} /\ sub[y] = {y} \cup sub[x] \cup sub[t[Other(r)][y]]
      /\ y \notin sub[x] /\ x # y /\ (x # 0 => x # t.top)
  BY <1>1, ShapeFacts
<1>4. sub[y] = {y} \cup sub[x]
  BY <1>1, <1>2, <1>3
<1>5. ASSUME NEW n \in S \ {y}, NEW s \in Sides
      PROVE  /\ u[s][n] \in (S \ {y}) \cup {0}
             /\ Without(sub, y)[u[s][n]] = sub[t[s][n]] \ {y}
  <2>1. u[s][n] = IF t[s][n] = y THEN x ELSE t[s][n]
    BY DEF Spliced
  <2>2. t[s][n] \in S \cup {0}
    BY ChildIn
  <2>3. u[s][n] \in (S \ {y}) \cup {0} /\ u[s][n] \in Null
    BY <1>2, <1>3, <2>1, <2>2
  <2>4. Without(sub, y)[u[s][n]] = sub[u[s][n]] \ {y}
    BY <2>3 DEF Without
  <2>5. sub[u[s][n]] \ {y} = sub[t[s][n]] \ {y}
    BY <1>3, <1>4, <2>1
  <2> QED
    BY <2>3, <2>4, <2>5
<1> QED
  BY <1>3, <1>4, <1>5

LEMMA SplicedShape ==
  ASSUME NEW t, NEW S, NEW R, NEW sub, Strict(R), Shape(t, S, R, sub), NEW y \in S,
         NEW x, NEW u, Spliced(t, u, S, y, x)
  PROVE  Shape(u, S \ {y}, R, Without(sub, y))
<1> DEFINE S1 == S \ {y}
           sub1 == Without(sub, y)
<1>1. PICK r \in Sides : t[r][y] = x /\ t[Other(r)][y] = 0
  BY DEF Spliced
<1>2. /\ S \subseteq Null /\ S \subseteq Nodes /\ 0 \notin S /\ 0 \in Null /\ sub[0] = {}
      /\ sub \in [Null -> SUBSET S] /\ sub[t.top] = S /\ t.top \in S
  <2>1. /\ S \subseteq Null /\ S \subseteq Nodes /\ 0 \notin S /\ sub[0] = {}
        /\ sub \in [Null -> SUBSET S] /\ sub[t.top] = S
        /\ t.top \in S \cup {0} /\ (t.top = 0 <=> S = {})
    BY TopFacts
  <2> QED
    BY <2>1, NodeFacts
<1>3. /\ x # y /\ (x # 0 => x # t.top) /\ x \in S1 \cup {0}
      /\ sub[y] = {y} \cup sub[x] /\ y \notin sub[x]
      /\ \A n \in S1, s \in Sides :
           u[s][n] \in S1 \cup {0} /\ sub1[u[s][n]] = sub[t[s][n]] \ {y}
  <2>1. x # y /\ (x # 0 => x # t.top) /\ x \in (S \ {y}) \cup {0}
    BY SplicedBelow
  <2>2. sub[y] = {y} \cup sub[x] /\ y \notin sub[x]
    BY SplicedBelow
  <2>3. ASSUME NEW n \in S \ {y}, NEW s \in Sides
        PROVE  /\ u[s][n] \in (S \ {y}) \cup {0}
               /\ Without(sub, y)[u[s][n]] = sub[t[s][n]] \ {y}
    BY SplicedBelow
  <2> QED
    BY <2>1, <2>2, <2>3
<1>4. /\ u \in Tree /\ u.top = (IF t.top = y THEN x ELSE t.top)
      /\ \A m \in S : u.parent[m] = IF m = x THEN t.parent[y] ELSE t.parent[m]
      /\ \A m \in S, s \in Sides : u[s][m] = IF t[s][m] = y THEN x ELSE t[s][m]
  BY DEF Spliced
<1>5. sub1 \in [Null -> SUBSET S1] /\ \A n \in Null : sub1[n] = sub[n] \ {y}
  BY <1>2 DEF Without
<1> HIDE DEF sub1
<1>6. \A n \in S : sub[n] = {n} \cup sub[t["left"][n]] \cup sub[t["right"][n]]
  BY DEF Shape, Below
<1>7. u.top \in S1 \cup {0} /\ sub1[u.top] = S1 /\ sub1[0] = {}
  <2>1. u.top \in S1 \cup {0} /\ sub1[0] = {}
    BY <1>2, <1>3, <1>4, <1>5
  <2>2. u.top \in Null
    BY <1>2, <2>1
  <2>3. sub1[u.top] = S1
    BY <1>2, <1>3, <1>4, <1>5, <2>2
  <2> QED
    BY <2>1, <2>3
<1>8. t.parent[t.top] = 0
  BY <1>2 DEF Shape
<1>9. u.top # 0 => u.parent[u.top] = 0
  BY <1>2, <1>3, <1>4, <1>7, <1>8
<1>10. ASSUME NEW n \in S1 PROVE sub1[n] = Below(u, n, sub1)
  <2>1. "left" \in Sides /\ "right" \in Sides /\ n \in Null
    BY <1>2 DEF Sides
  <2>2. sub1[n] = ({n} \cup sub[t["left"][n]] \cup sub[t["right"][n]]) \ {y}
    BY <1>5, <1>6, <2>1
  <2>3. /\ sub1[u["left"][n]] = sub[t["left"][n]] \ {y}
        /\ sub1[u["right"][n]] = sub[t["right"][n]] \ {y}
    BY <1>3, <2>1
  <2> QED
    BY <2>2, <2>3 DEF Below
<1>11. ASSUME NEW n \in S1, NEW s \in Sides PROVE Child(u, S1, R, sub1, n, s)
  <2>1. t[s][n] \in S \cup {0} /\ (t[s][n] # 0 => t.parent[t[s][n]] = n)
    BY ChildIn
  <2>2. u[s][n] # 0 => u.parent[u[s][n]] = n
    <3>1. CASE t[s][n] = y
      BY <1>2, <1>3, <1>4, <2>1, <3>1
    <3>2. CASE t[s][n] # y /\ t[s][n] # 0
      <4>1. t[s][n] # x
        <5> SUFFICES ASSUME t[s][n] = x PROVE FALSE
          OBVIOUS
        <5>1. t[r][y] = t[s][n]
          BY <1>1
        <5>2. y = n
          BY <1>1, <3>2, <5>1, OneParent
        <5> QED
          BY <5>2
      <4> QED
        BY <1>4, <2>1, <3>2, <4>1
    <3>3. CASE t[s][n] # y /\ t[s][n] = 0
      BY <1>4, <3>3
    <3> QED
      BY <3>1, <3>2, <3>3
  <2>3. \A m \in sub[t[s][n]] : Aside(R, s, m, n)
    BY DEF Shape, Child
  <2> QED
    BY <1>3, <2>2, <2>3 DEF Child
<1>12. ASSUME NEW n \in S1, n # u.top
       PROVE  u.parent[n] \in S1 /\ \E s \in Sides : u[s][u.parent[n]] = n
  <2>1. CASE n = x
    <3>1. y # t.top
      BY <1>4, <1>12, <2>1
    <3>2. PICK s \in Sides : t[s][t.parent[y]] = y /\ t.parent[y] \in S
      BY <3>1 DEF Shape
    <3>3. t[s][t.parent[y]] # t.parent[y]
      BY <3>2, TwoChildren
    <3>4. u[s][t.parent[y]] = x
      BY <1>4, <3>2
    <3> QED
      BY <1>4, <2>1, <3>2, <3>3, <3>4
  <2>2. CASE n # x
    <3>1. n # t.top
      BY <1>4, <1>12
    <3>2. PICK s \in Sides : t[s][t.parent[n]] = n /\ t.parent[n] \in S
      BY <3>1 DEF Shape
    <3>3. t.parent[n] # y
      <4> SUFFICES ASSUME t.parent[n] = y PROVE FALSE
        OBVIOUS
      <4>1. s = r \/ s = Other(r)
        BY <1>1, OtherSide
      <4> QED
        BY <1>1, <1>2, <2>2, <3>2, <4>1
    <3>4. u[s][t.parent[n]] = n
      BY <1>4, <3>2
    <3> QED
      BY <1>4, <2>2, <3>2, <3>3, <3>4
  <2> QED
    BY <2>1, <2>2
<1> QED
  BY <1>2, <1>4, <1>5, <1>7, <1>9, <1>10, <1>11, <1>12 DEF Shape, sub1

\* The way down to x loses y, which is one black node less if y was black.
LEMMA SplicedHeavy ==
  ASSUME NEW t, NEW S, NEW R, Strict(R), GoodTree(t, S, R), NEW sub, Shape(t, S, R, sub),
         NEW y \in S, NEW x, NEW u, Spliced(t, u, S, y, x), NEW np, x = 0 => np = t.parent[y]
  PROVE  IF t.red[y] THEN GoodTree(u, S \ {y}, R)
         ELSE \E bh : Heavy(u, S \ {y}, R, Without(sub, y), bh, x, np)
<1> DEFINE S1 == S \ {y}
           p == t.parent[y]
           d == SideOf(t, p, y)
<1>1. PICK r \in Sides : t[r][y] = x /\ t[Other(r)][y] = 0
  BY DEF Spliced
<1>2. /\ S \subseteq Null /\ S \subseteq Nodes /\ 0 \notin S /\ 0 \in Null /\ t.top \in S
      /\ t \in Tree
  BY TopFacts, NodeFacts
<1>3. /\ x # y /\ (x # 0 => x # t.top) /\ x \in S1 \cup {0}
      /\ \A n \in S1, s \in Sides : u[s][n] \in S1 \cup {0}
  BY SplicedBelow
<1>4. /\ u \in Tree /\ u.top = (IF t.top = y THEN x ELSE t.top) /\ u.red = t.red
      /\ \A m \in S, s \in Sides : u[s][m] = IF t[s][m] = y THEN x ELSE t[s][m]
  BY DEF Spliced
<1>5. Shape(u, S1, R, Without(sub, y))
  BY SplicedShape
<1>6. /\ p \in S \cup {0} /\ (p = 0 <=> y = t.top)
      /\ \A m \in S, s \in Sides : t[s][m] = y <=> p # 0 /\ m = p /\ s = d
  BY LinksTo
<1>7. Reds(t, S, 0, 0) /\ ~t.red[t.top]
  BY <1>2 DEF GoodTree, IsRed
<1>8. PICK bh : Heights(t, S, bh, 0, "left")
  BY DEF GoodTree
<1>9. /\ bh \in [Null -> Nat] /\ bh[0] = 0 /\ \A n \in S \cup {0} : bh[n] \in Nat
      /\ \A n \in S, s \in Sides : bh[n] = bh[t[s][n]] + Blk(t, t[s][n]) + Short(n, s, 0, "left")
  BY <1>2, <1>8 DEF Heights, HeightAt
<1>10. \A n \in Null : Blk(u, n) = Blk(t, n) /\ Blk(t, n) \in Nat
  BY <1>4 DEF Blk
<1>11. \A n \in S, s \in Sides : bh[n] = bh[t[s][n]] + Blk(t, t[s][n])
  <2> SUFFICES ASSUME NEW n \in S, NEW s \in Sides
               PROVE  bh[n] = bh[t[s][n]] + Blk(t, t[s][n])
    OBVIOUS
  <2>1. t[s][n] \in S \cup {0} /\ t[s][n] \in Null
    BY ChildIn
  <2>2. Short(n, s, 0, "left") = 0
    BY <1>2 DEF Short
  <2> QED
    BY <1>9, <1>10, <2>1, <2>2
<1> HIDE DEF p, d
<1>12. \A n \in S1, s \in Sides :
         bh[n] = bh[u[s][n]] + Blk(u, u[s][n]) + (IF p # 0 /\ n = p /\ s = d THEN Blk(t, y) ELSE 0)
  <2> SUFFICES ASSUME NEW n \in S1, NEW s \in Sides
               PROVE  bh[n] = bh[u[s][n]] + Blk(u, u[s][n])
                                + (IF p # 0 /\ n = p /\ s = d THEN Blk(t, y) ELSE 0)
    OBVIOUS
  <2>1. u[s][n] \in Null /\ u[s][n] \in S \cup {0} /\ y \in Null
    BY <1>2, <1>3
  <2>2. bh[u[s][n]] \in Nat /\ Blk(u, u[s][n]) \in Nat /\ Blk(t, y) \in Nat
    BY <1>9, <1>10, <2>1
  <2>3. CASE t[s][n] = y
    <3>1. bh[y] = bh[x] + Blk(t, x)
      BY <1>1, <1>11
    <3>2. bh[n] = bh[y] + Blk(t, y)
      BY <1>11, <2>3
    <3>3. u[s][n] = x /\ p # 0 /\ n = p /\ s = d
      BY <1>4, <1>6, <2>3
    <3> QED
      BY <1>10, <2>1, <2>2, <3>1, <3>2, <3>3
  <2>4. CASE t[s][n] # y
    <3>1. u[s][n] = t[s][n] /\ ~(p # 0 /\ n = p /\ s = d)
      BY <1>4, <1>6, <2>4
    <3> QED
      BY <1>10, <1>11, <2>1, <2>2, <3>1
  <2> QED
    BY <2>3, <2>4
<1>13. Reds(u, S1, 0, x)
  <2> SUFFICES ASSUME NEW n \in S1, NEW s \in Sides, u[s][n] # 0, u.red[n], u.red[u[s][n]],
                      u[s][n] # x
               PROVE  FALSE
    BY DEF Reds
  <2>1. u[s][n] = t[s][n]
    BY <1>4
  <2> QED
    BY <1>2, <1>4, <1>7, <2>1 DEF Reds
<1>14. IsRed(u, u.top) => u.top = x
  BY <1>4, <1>7 DEF IsRed
<1>15. CASE t.red[y]
  <2>1. t.top # y /\ Blk(t, y) = 0
    BY <1>7, <1>15 DEF Blk
  <2>2. ASSUME NEW n \in S1, NEW s \in Sides PROVE HeightAt(u, bh, 0, "left", n, s)
    <3>1. Short(n, s, 0, "left") = 0
      BY <1>2 DEF Short
    <3> QED
      BY <1>12, <2>1, <3>1 DEF HeightAt
  <2>3. Heights(u, S1, bh, 0, "left")
    BY <1>9, <2>2 DEF Heights
  <2>4. Reds(u, S1, 0, 0)
    <3> SUFFICES ASSUME NEW n \in S1, NEW s \in Sides, u[s][n] # 0, u.red[n], u.red[u[s][n]]
                 PROVE  FALSE
      BY DEF Reds
    <3>1. CASE t[s][n] = y
      BY <1>2, <1>4, <1>7, <1>15, <3>1 DEF Reds
    <3>2. CASE t[s][n] # y
      BY <1>2, <1>4, <1>7, <3>2 DEF Reds
    <3> QED
      BY <3>1, <3>2
  <2>5. ~IsRed(u, u.top)
    BY <1>4, <1>7, <2>1 DEF IsRed
  <2>6. GoodTree(u, S1, R)
    BY <1>5, <2>3, <2>4, <2>5 DEF GoodTree
  <2> QED
    BY <1>15, <2>6
<1>16. CASE ~t.red[y]
  <2>1. Blk(t, y) = 1
    BY <1>2, <1>16 DEF Blk
  <2>2. Reds(u, S1, x, x)
    BY <1>2, <1>13 DEF Reds
  <2>3. CASE y = t.top
    <3>1. ASSUME NEW n \in S1, NEW s \in Sides PROVE HeightAt(u, bh, 0, "left", n, s)
      <4>1. Short(n, s, 0, "left") = 0 /\ p = 0
        BY <1>2, <1>6, <2>3 DEF Short
      <4> QED
        BY <1>12, <4>1 DEF HeightAt
    <3>2. Heights(u, S1, bh, 0, "left") /\ x = u.top
      BY <1>4, <1>9, <2>3, <3>1 DEF Heights
    <3> QED
      BY <1>3, <1>5, <1>14, <1>16, <2>2, <3>2 DEF Heavy
  <2>4. CASE y # t.top
    <3>1. p # 0 /\ p \in S
      BY <1>6, <2>4
    <3>2. p # y /\ d \in Sides /\ t[d][p] = y
      <4>1. d \in Sides /\ t[d][p] = y
        BY <2>4, SideOfIs DEF d, p
      <4> QED
        BY <3>1, <4>1, TwoChildren
    <3>3. p \in S1 /\ u[d][p] = x
      BY <1>4, <3>1, <3>2
    <3>4. ASSUME NEW n \in S1, NEW s \in Sides PROVE HeightAt(u, bh, p, d, n, s)
      BY <1>12, <2>1, <3>1 DEF HeightAt, Short
    <3>5. Heights(u, S1, bh, p, d)
      BY <1>9, <3>4 DEF Heights
    <3>6. x # u.top /\ (x = 0 => np = p)
      BY <1>2, <1>3, <1>4, <2>4 DEF p
    <3>7. \E dp \in S1, ds \in Sides :
            u[ds][dp] = x /\ Heights(u, S1, bh, dp, ds) /\ (x = 0 => np = dp)
      BY <3>2, <3>3, <3>5, <3>6
    <3>8. Heavy(u, S1, R, Without(sub, y), bh, x, np)
      BY <1>3, <1>5, <1>14, <2>2, <3>6, <3>7 DEF Heavy
    <3> QED
      BY <1>16, <3>8
  <2> QED
    BY <2>3, <2>4
<1> QED
  BY <1>15, <1>16

\* y goes by the name of z.
Named(y, z, n) == IF n = z THEN y ELSE n
Names(y, z, A) == {Named(y, z, m) : m \in A}

Renamed(t, u, S, y, z) ==
  /\ u \in Tree /\ u.top = Named(y, z, t.top)
  /\ \A m \in S : u.red[Named(y, z, m)] = t.red[m]
  /\ \A m \in S, g \in Links : u[g][Named(y, z, m)] = Named(y, z, t[g][m])

LEMMA TakePlaceIs ==
  ASSUME NEW t, NEW S, NEW R, NEW sub, Strict(R), Shape(t, S, R, sub),
         NEW z \in S, NEW y \in Nodes, y \notin S
  PROVE  Renamed(t, TakePlace(t, y, z), S, y, z)
<1> DEFINE p == t.parent[z]
           d == SideOf(t, p, z)
           t1 == [t EXCEPT !.red[y] = t.red[z], !.left[y] = t.left[z],
                           !.right[y] = t.right[z], !.parent[y] = t.parent[z]]
           t2 == Relink(t1, t1.parent[y], z, y)
           t3 == Set(t2, "parent", t2.left[y], y)
           t4 == Set(t3, "parent", t2.right[y], y)
<1>1. /\ S \subseteq Null /\ S \subseteq Nodes /\ 0 \notin S /\ 0 \in Null
      /\ t \in Tree /\ y \in Null /\ y # 0 /\ z \in Nodes /\ z \in Null /\ y # z
  BY TopFacts, NodeFacts
<1>2. /\ p \in S \cup {0} /\ (p = 0 <=> z = t.top)
      /\ \A m \in S, s \in Sides : t[s][m] = z <=> p # 0 /\ m = p /\ s = d
  BY LinksTo
<1>3. p # y /\ p \in Null
  BY <1>1, <1>2
<1>4. /\ t.top \in Null /\ t.red \in [Nodes -> BOOLEAN] /\ t.left \in [Nodes -> Null]
      /\ t.right \in [Nodes -> Null] /\ t.parent \in [Nodes -> Null]
  BY <1>1 DEF Tree
<1>5. /\ t1 \in Tree /\ t1.top = t.top
      /\ \A m \in Nodes : /\ t1.red[m] = IF m = y THEN t.red[z] ELSE t.red[m]
                          /\ t1.left[m] = IF m = y THEN t.left[z] ELSE t.left[m]
                          /\ t1.right[m] = IF m = y THEN t.right[z] ELSE t.right[m]
                          /\ t1.parent[m] = IF m = y THEN t.parent[z] ELSE t.parent[m]
  <2>1. t1 \in [top : {t.top}, left : {[t.left EXCEPT ![y] = t.left[z]]},
                right : {[t.right EXCEPT ![y] = t.right[z]]},
                parent : {[t.parent EXCEPT ![y] = t.parent[z]]},
                red : {[t.red EXCEPT ![y] = t.red[z]]}]
    BY <1>1 DEF Tree
  <2> HIDE DEF t1
  <2>2. /\ t1.top = t.top /\ t1.left = [t.left EXCEPT ![y] = t.left[z]]
        /\ t1.right = [t.right EXCEPT ![y] = t.right[z]]
        /\ t1.parent = [t.parent EXCEPT ![y] = t.parent[z]]
        /\ t1.red = [t.red EXCEPT ![y] = t.red[z]]
        /\ t1 = [top |-> t1.top, left |-> t1.left, right |-> t1.right,
                 parent |-> t1.parent, red |-> t1.red]
    BY <2>1
  <2>3. /\ t1.red \in [Nodes -> BOOLEAN] /\ t1.left \in [Nodes -> Null]
        /\ t1.right \in [Nodes -> Null] /\ t1.parent \in [Nodes -> Null]
    BY <1>1, <1>4, <2>2
  <2>4. t1 \in Tree
    BY <1>4, <2>2, <2>3 DEF Tree
  <2> QED
    BY <1>1, <1>4, <2>2, <2>4
<1> HIDE DEF t1
<1>6. /\ t["left"] = t.left /\ t["right"] = t.right /\ t["parent"] = t.parent
      /\ t1["left"] = t1.left /\ t1["right"] = t1.right /\ t1["parent"] = t1.parent
  BY <1>1, <1>5, TreeType
<1>7. \A g \in Links, m \in Nodes : t1[g][m] = IF m = y THEN t[g][z] ELSE t[g][m]
  BY <1>5, <1>6 DEF Links, Sides
<1>8. t1.parent[y] = p
  BY <1>5
<1> HIDE DEF p
<1>9. Relinked(t1, t2, p, z, y)
  BY <1>1, <1>3, <1>5, <1>8, RelinkIs
<1> HIDE DEF t2
<1>10. /\ t2 \in Tree /\ t2.red = t1.red /\ t2.parent = t1.parent
       /\ t2.top = IF p = 0 THEN y ELSE t1.top
       /\ \A s \in Sides, m \in Nodes :
            t2[s][m] = IF m = p /\ s = SideOf(t1, p, z) THEN y ELSE t1[s][m]
  BY <1>9 DEF Relinked
<1>11. p # 0 => SideOf(t1, p, z) = d
  <2>1. p # 0 => t1.left[p] = t.left[p]
    BY <1>1, <1>2, <1>3, <1>5
  <2> QED
    BY <2>1 DEF SideOf
<1> HIDE DEF d
<1>12. "left" \in Sides /\ "right" \in Sides /\ "parent" \in Links /\ Sides \subseteq Links
  BY DEF Sides, Links
<1>13. \A s \in Sides : t2[s][y] = t[s][z] /\ t[s][z] \in S \cup {0} /\ t[s][z] # z
  <2> SUFFICES ASSUME NEW s \in Sides
               PROVE  t2[s][y] = t[s][z] /\ t[s][z] \in S \cup {0} /\ t[s][z] # z
    OBVIOUS
  <2>1. t[s][z] \in S \cup {0} /\ t[s][z] # z
    BY ChildIn, TwoChildren
  <2> QED
    BY <1>1, <1>3, <1>7, <1>10, <1>12, <2>1
<1>14. t2["left"] = t2.left /\ t2["right"] = t2.right /\ t2["parent"] = t2.parent
  BY <1>10, TreeType
<1> DEFINE a == t["left"][z]
           b == t["right"][z]
<1>15. /\ t2.left[y] = a /\ t2.right[y] = b /\ a \in Null /\ b \in Null /\ a # y /\ b # y
       /\ a # z /\ b # z
  BY <1>1, <1>12, <1>13, <1>14
<1> HIDE DEF a, b
<1>16. LinkSet(t2, t3, "parent", a, y)
  BY <1>1, <1>10, <1>12, <1>15, SetLink
<1> HIDE DEF t3
<1>17. LinkSet(t3, t4, "parent", b, y)
  <2>1. t3 \in Tree
    BY <1>16 DEF LinkSet
  <2> QED
    BY <1>1, <1>12, <1>15, <2>1, SetLink
<1> HIDE DEF t4
<1>18. /\ t4 \in Tree /\ t4.top = t2.top /\ t4.red = t2.red
       /\ \A g \in Links, m \in Nodes :
            t4[g][m] = IF g = "parent" /\ (m = a \/ m = b) THEN y ELSE t2[g][m]
  BY <1>16, <1>17 DEF LinkSet
<1>19. TakePlace(t, y, z) = t4
  BY DEF TakePlace, t4, t3, t2, t1
<1>20. t4.top = Named(y, z, t.top)
  BY <1>2, <1>5, <1>10, <1>18 DEF Named
<1>21. ASSUME NEW m \in S PROVE t4.red[Named(y, z, m)] = t.red[m]
  BY <1>1, <1>5, <1>10, <1>18 DEF Named
<1>22. ASSUME NEW m \in S, NEW s \in Sides PROVE t4[s][Named(y, z, m)] = Named(y, z, t[s][m])
  <2>1. s # "parent" /\ s \in Links
    BY <1>12 DEF Sides
  <2>2. CASE m = z
    BY <1>1, <1>13, <1>18, <2>1, <2>2 DEF Named
  <2>3. CASE m # z
    <3>1. m \in Nodes /\ m # 0 /\ m # y
      BY <1>1
    <3>2. t4[s][m] = IF m = p /\ s = SideOf(t1, p, z) THEN y ELSE t[s][m]
      BY <1>7, <1>10, <1>18, <2>1, <3>1
    <3>3. t[s][m] = z <=> m = p /\ s = SideOf(t1, p, z)
      BY <1>2, <1>11, <3>1
    <3> QED
      BY <2>3, <3>2, <3>3 DEF Named
  <2> QED
    BY <2>2, <2>3
<1>23. ASSUME NEW m \in S
       PROVE  t4["parent"][Named(y, z, m)] = Named(y, z, t["parent"][m])
  <2>1. CASE m = z
    <3>1. p # z
      <4> SUFFICES ASSUME p = z PROVE FALSE
        OBVIOUS
      <4>1. z # t.top /\ t.parent[z] = z
        BY <1>1, <1>2 DEF p
      <4>2. \E s \in Sides : t[s][z] = z
        BY <4>1 DEF Shape
      <4> QED
        BY <1>13, <4>2
    <3>2. t4["parent"][y] = p
      BY <1>1, <1>8, <1>10, <1>12, <1>14, <1>15, <1>18
    <3> QED
      BY <1>6, <2>1, <3>1, <3>2 DEF Named, p
  <2>2. CASE m # z
    <3>1. m \in Nodes /\ m # 0 /\ m # y
      BY <1>1
    <3>2. t4["parent"][m] = IF m = a \/ m = b THEN y ELSE t["parent"][m]
      BY <1>6, <1>5, <1>10, <1>12, <1>14, <1>18, <3>1
    <3>3. m = a \/ m = b => t.parent[m] = z
      <4>1. \A s \in Sides : t[s][z] # 0 => t.parent[t[s][z]] = z
        BY ChildIn
      <4> QED
        BY <1>12, <3>1, <4>1 DEF a, b
    <3>4. t.parent[m] = z => m = a \/ m = b
      <4> SUFFICES ASSUME t.parent[m] = z PROVE m = a \/ m = b
        OBVIOUS
      <4>1. m # t.top
        BY <1>1, LinksTo
      <4>2. \E s \in Sides : t[s][z] = m
        BY <4>1 DEF Shape
      <4> QED
        BY <4>2 DEF Sides, a, b
    <3> QED
      BY <1>6, <2>2, <3>2, <3>3, <3>4 DEF Named
  <2> QED
    BY <2>1, <2>2
<1>24. ASSUME NEW m \in S, NEW g \in Links PROVE t4[g][Named(y, z, m)] = Named(y, z, t[g][m])
  BY <1>22, <1>23 DEF Links
<1> QED
  BY <1>18, <1>19, <1>20, <1>21, <1>24 DEF Renamed

LEMMA NamedFacts ==
  ASSUME NEW S \in SUBSET Nodes, NEW z \in S, NEW y \in Nodes, y \notin S
  PROVE  /\ \A n \in S : Named(y, z, n) \in (S \ {z}) \cup {y} /\ Named(y, z, n) # 0
         /\ Named(y, z, 0) = 0
         /\ \A n \in S \cup {0} : /\ Named(y, z, n) \in Null
                                  /\ Named(y, z, n) \in (S \ {z}) \cup {y} \cup {0}
                                  /\ Named(y, z, n) = 0 <=> n = 0
                                  /\ Named(z, y, Named(y, z, n)) = n
         /\ \A m \in (S \ {z}) \cup {y} : \E n \in S : m = Named(y, z, n)
         /\ \A m, n \in S \cup {0} : Named(y, z, m) = Named(y, z, n) => m = n
<1>1. 0 \notin S /\ y # 0 /\ y # z /\ z # 0 /\ S \subseteq Null /\ y \in Null /\ 0 \in Null
  BY NodeFacts
<1>2. ASSUME NEW m \in (S \ {z}) \cup {y} PROVE \E n \in S : m = Named(y, z, n)
  <2>1. CASE m = y
    BY <2>1 DEF Named
  <2>2. CASE m # y
    <3>1. m \in S /\ m = Named(y, z, m)
      BY <2>2 DEF Named
    <3> QED
      BY <3>1
  <2> QED
    BY <2>1, <2>2
<1> QED
  BY <1>1, <1>2 DEF Named

\* The subtrees under the new name.
Renaming(sub, y, z) == [n \in Null |-> Names(y, z, sub[Named(z, y, n)])]

LEMMA RenamedShape ==
  ASSUME NEW t, NEW S, NEW R, NEW sub, Strict(R), Shape(t, S, R, sub),
         NEW z \in S, NEW y \in Nodes, y \notin S, NEW u, Renamed(t, u, S, y, z),
         \A n \in S, s \in Sides : \A m \in sub[t[s][n]] :
           Aside(R, s, Named(y, z, m), Named(y, z, n))
  PROVE  Shape(u, (S \ {z}) \cup {y}, R, Renaming(sub, y, z))
<1> DEFINE S1 == (S \ {z}) \cup {y}
           N(n) == Named(y, z, n)
           new == Renaming(sub, y, z)
<1>1. /\ S \subseteq Nodes /\ 0 \notin S /\ S \subseteq Null /\ t \in Tree
      /\ sub \in [Null -> SUBSET S] /\ sub[0] = {} /\ sub[t.top] = S
      /\ t.top \in S \cup {0} /\ (t.top = 0 <=> S = {})
  BY TopFacts
<1>2. /\ \A n \in S : N(n) \in S1 /\ N(n) # 0
      /\ N(0) = 0
      /\ \A n \in S \cup {0} : /\ N(n) \in Null /\ N(n) \in S1 \cup {0} /\ (N(n) = 0 <=> n = 0)
                               /\ Named(z, y, N(n)) = n
      /\ \A m \in S1 : \E n \in S : m = N(n)
      /\ \A m, n \in S \cup {0} : N(m) = N(n) => m = n
  <2>1. S \in SUBSET Nodes
    BY <1>1
  <2>2. \A n \in S : N(n) \in S1 /\ N(n) # 0
    BY <1>1, NodeFacts DEF Named
  <2>3. \A n \in S \cup {0} : /\ N(n) \in Null /\ N(n) \in S1 \cup {0} /\ (N(n) = 0 <=> n = 0)
                               /\ Named(z, y, N(n)) = n
    BY <2>1, NamedFacts
  <2>4. N(0) = 0 /\ \A m \in S1 : \E n \in S : m = N(n)
    BY <2>1, NamedFacts
  <2>5. \A m, n \in S \cup {0} : N(m) = N(n) => m = n
    BY <2>1, NamedFacts
  <2> QED
    BY <2>2, <2>3, <2>4, <2>5
<1>3. /\ u \in Tree /\ u.top = N(t.top)
      /\ \A m \in S, g \in Links : u[g][N(m)] = N(t[g][m])
  BY DEF Renamed
<1>4. S1 \subseteq Nodes
  BY <1>1
<1>5. new \in [Null -> SUBSET S1]
  <2>1. \A n \in Null : Named(z, y, n) \in Null
    BY <1>1, NodeFacts DEF Named
  <2>2. ASSUME NEW n \in Null PROVE Names(y, z, sub[Named(z, y, n)]) \subseteq S1
    <3>1. sub[Named(z, y, n)] \subseteq S
      BY <1>1, <2>1
    <3> QED
      BY <1>2, <3>1 DEF Names
  <2> QED
    BY <2>2 DEF Renaming
<1>6. \A n \in S \cup {0} : new[N(n)] = {N(m) : m \in sub[n]}
  BY <1>2 DEF Renaming, Names
<1> HIDE DEF new
<1>7. "parent" \in Links /\ "left" \in Sides /\ "right" \in Sides /\ Sides \subseteq Links
  BY DEF Links, Sides
<1>8. t["parent"] = t.parent /\ u["parent"] = u.parent
  BY <1>1, <1>3, TreeType
<1> HIDE DEF N
<1>9. u.top \in S1 \cup {0} /\ new[0] = {} /\ new[u.top] = S1
  <2>1. new[0] = {N(m) : m \in sub[0]}
    BY <1>2, <1>6
  <2>2. new[u.top] = {N(m) : m \in S}
    BY <1>1, <1>3, <1>6
  <2>3. {N(m) : m \in S} = S1
    BY <1>2
  <2> QED
    BY <1>1, <1>2, <1>3, <2>1, <2>2, <2>3
<1>10. u.top # 0 => u.parent[u.top] = 0
  <2> SUFFICES ASSUME u.top # 0 PROVE u.parent[u.top] = 0
    OBVIOUS
  <2>1. t.top \in S /\ t.parent[t.top] = 0
    BY <1>1, <1>2, <1>3 DEF Shape
  <2> QED
    BY <1>2, <1>3, <1>7, <1>8, <2>1
<1>11. ASSUME NEW k \in S PROVE new[N(k)] = Below(u, N(k), new)
  <2>1. sub[k] = {k} \cup sub[t["left"][k]] \cup sub[t["right"][k]]
    BY DEF Shape, Below
  <2>2. t["left"][k] \in S \cup {0} /\ t["right"][k] \in S \cup {0}
    BY <1>7, ChildIn
  <2>3. /\ new[u["left"][N(k)]] = {N(m) : m \in sub[t["left"][k]]}
        /\ new[u["right"][N(k)]] = {N(m) : m \in sub[t["right"][k]]}
    BY <1>3, <1>6, <1>7, <2>2
  <2>4. new[N(k)] = {N(m) : m \in sub[k]}
    BY <1>6
  <2> QED
    BY <2>1, <2>3, <2>4 DEF Below
<1>12. ASSUME NEW k \in S, NEW s \in Sides PROVE Child(u, S1, R, new, N(k), s)
  <2>1. t[s][k] \in S \cup {0} /\ (t[s][k] # 0 => t.parent[t[s][k]] = k)
    BY ChildIn
  <2>2. u[s][N(k)] = N(t[s][k])
    BY <1>3, <1>7
  <2>3. u[s][N(k)] # 0 => u.parent[u[s][N(k)]] = N(k)
    <3> SUFFICES ASSUME t[s][k] # 0 PROVE u.parent[N(t[s][k])] = N(k)
      BY <1>2, <2>2
    <3>1. u["parent"][N(t[s][k])] = N(t["parent"][t[s][k]])
      BY <1>3, <1>7, <2>1
    <3> QED
      BY <1>8, <2>1, <3>1
  <2>4. ASSUME NEW m \in new[u[s][N(k)]] PROVE Aside(R, s, m, N(k))
    <3>1. PICK j \in sub[t[s][k]] : m = N(j)
      BY <1>6, <2>1, <2>2, <2>4
    <3> QED
      BY <3>1 DEF N
  <2> QED
    BY <1>2, <2>1, <2>2, <2>3, <2>4 DEF Child
<1>13. ASSUME NEW k \in S, N(k) # u.top
       PROVE  u.parent[N(k)] \in S1 /\ \E s \in Sides : u[s][u.parent[N(k)]] = N(k)
  <2>1. k # t.top
    BY <1>3, <1>13
  <2>2. PICK s \in Sides : t[s][t.parent[k]] = k /\ t.parent[k] \in S
    BY <2>1 DEF Shape
  <2>3. u.parent[N(k)] = N(t.parent[k])
    BY <1>3, <1>7, <1>8
  <2>4. u[s][N(t.parent[k])] = N(k)
    BY <1>3, <1>7, <2>2
  <2> QED
    BY <1>2, <2>2, <2>3, <2>4
<1>14. \A n \in S1 : new[n] = Below(u, n, new)
  BY <1>2, <1>11
<1>15. \A n \in S1, s \in Sides : Child(u, S1, R, new, n, s)
  BY <1>2, <1>12
<1>16. \A n \in S1 : n # u.top => u.parent[n] \in S1 /\ \E s \in Sides : u[s][u.parent[n]] = n
  BY <1>2, <1>13
<1> HIDE DEF S1
<1>17. Shape(u, S1, R, new)
  BY <1>3, <1>4, <1>5, <1>9, <1>10, <1>14, <1>15, <1>16 DEF Shape
<1> QED
  BY <1>17 DEF S1, new

LEMMA RenamedColours ==
  ASSUME NEW t, NEW S, NEW R, NEW sub, Strict(R), Shape(t, S, R, sub),
         NEW z \in S, NEW y \in Nodes, y \notin S, NEW u, Renamed(t, u, S, y, z)
  PROVE  /\ \A n \in S \cup {0} : /\ (IsRed(u, Named(y, z, n)) <=> IsRed(t, n))
                                  /\ Blk(u, Named(y, z, n)) = Blk(t, n)
         /\ \A e, f \in S \cup {0} :
              Reds(t, S, e, f) => Reds(u, (S \ {z}) \cup {y}, Named(y, z, e), Named(y, z, f))
         /\ \A bh, ds : \A dp \in S \cup {0} :
              Heights(t, S, bh, dp, ds) =>
                \E new : Heights(u, (S \ {z}) \cup {y}, new, Named(y, z, dp), ds)
<1> DEFINE S1 == (S \ {z}) \cup {y}
           N(n) == Named(y, z, n)
<1>1. S \subseteq Nodes /\ 0 \notin S /\ S \subseteq Null /\ t \in Tree
  BY TopFacts
<1>2. /\ \A n \in S : N(n) \in S1 /\ N(n) # 0
      /\ N(0) = 0
      /\ \A n \in S \cup {0} : /\ N(n) \in Null /\ N(n) \in S1 \cup {0} /\ (N(n) = 0 <=> n = 0)
                               /\ Named(z, y, N(n)) = n
      /\ \A m \in S1 : \E n \in S : m = N(n)
      /\ \A m, n \in S \cup {0} : N(m) = N(n) => m = n
  BY <1>1, NamedFacts
<1>3. /\ u \in Tree /\ u.top = N(t.top)
      /\ \A m \in S : u.red[N(m)] = t.red[m]
      /\ \A m \in S, g \in Links : u[g][N(m)] = N(t[g][m])
  BY DEF Renamed
<1>4. Sides \subseteq Links
  BY DEF Links, Sides
<1>5. \A n \in Null : Named(z, y, n) \in Null
  BY <1>1, NodeFacts DEF Named
<1>6. Named(z, y, 0) = 0
  BY NodeFacts DEF Named
<1> HIDE DEF N, S1
<1>7. \A n \in S \cup {0} : (IsRed(u, N(n)) <=> IsRed(t, n)) /\ Blk(u, N(n)) = Blk(t, n)
  BY <1>1, <1>2, <1>3 DEF IsRed, Blk
<1>8. ASSUME NEW e \in S \cup {0}, NEW f \in S \cup {0}, Reds(t, S, e, f)
      PROVE  Reds(u, S1, N(e), N(f))
  <2> SUFFICES ASSUME NEW n \in S1, NEW s \in Sides, u[s][n] # 0, u.red[n], u.red[u[s][n]]
               PROVE  n = N(e) \/ u[s][n] = N(f)
    BY DEF Reds
  <2>1. PICK k \in S : n = N(k)
    BY <1>2
  <2>2. u[s][n] = N(t[s][k]) /\ t[s][k] \in S \cup {0}
    BY <1>3, <1>4, <2>1, ChildIn
  <2>3. t[s][k] # 0 /\ t[s][k] \in S
    BY <1>2, <2>2
  <2>4. t.red[k] /\ t.red[t[s][k]]
    BY <1>3, <2>1, <2>2, <2>3
  <2>5. k = e \/ t[s][k] = f
    BY <1>8, <2>3, <2>4 DEF Reds
  <2> QED
    BY <2>1, <2>2, <2>5
<1>9. ASSUME NEW bh, NEW ds, NEW dp \in S \cup {0}, Heights(t, S, bh, dp, ds)
      PROVE  \E new : Heights(u, S1, new, N(dp), ds)
  <2> DEFINE new == [n \in Null |-> bh[Named(z, y, n)]]
  <2>1. bh \in [Null -> Nat] /\ bh[0] = 0
    BY <1>9 DEF Heights
  <2>2. new \in [Null -> Nat] /\ new[0] = 0
    BY <1>5, <1>6, <2>1, NodeFacts
  <2>3. \A n \in S \cup {0} : new[N(n)] = bh[n]
    BY <1>2
  <2> HIDE DEF new
  <2>4. ASSUME NEW n \in S1, NEW s \in Sides PROVE HeightAt(u, new, N(dp), ds, n, s)
    <3>1. PICK k \in S : n = N(k)
      BY <1>2
    <3>2. u[s][n] = N(t[s][k]) /\ t[s][k] \in S \cup {0}
      BY <1>3, <1>4, <3>1, ChildIn
    <3>3. bh[k] = bh[t[s][k]] + Blk(t, t[s][k]) + Short(k, s, dp, ds)
      BY <1>9 DEF Heights, HeightAt
    <3>4. Short(n, s, N(dp), ds) = Short(k, s, dp, ds)
      BY <1>2, <3>1 DEF Short
    <3> QED
      BY <1>7, <2>3, <3>1, <3>2, <3>3, <3>4 DEF HeightAt
  <2>5. Heights(u, S1, new, N(dp), ds)
    BY <2>2, <2>4 DEF Heights
  <2> QED
    BY <2>5
<1> QED
  BY <1>7, <1>8, <1>9 DEF N, S1

LEMMA RenamedGood ==
  ASSUME NEW t, NEW S, NEW R, Strict(R), GoodTree(t, S, R), NEW sub, Shape(t, S, R, sub),
         NEW z \in S, NEW y \in Nodes, y \notin S, NEW u, Renamed(t, u, S, y, z),
         \A n \in S, s \in Sides : \A m \in sub[t[s][n]] :
           Aside(R, s, Named(y, z, m), Named(y, z, n))
  PROVE  GoodTree(u, (S \ {z}) \cup {y}, R)
<1> DEFINE S1 == (S \ {z}) \cup {y}
<1>1. /\ \E bh : Heights(t, S, bh, 0, "left")
      /\ Reds(t, S, 0, 0) /\ ~IsRed(t, t.top)
  BY DEF GoodTree
<1>2. t.top \in S \cup {0} /\ 0 \notin S
  BY TopFacts
<1>3. Named(y, z, 0) = 0
  BY <1>2 DEF Named
<1>4. Shape(u, S1, R, Renaming(sub, y, z))
  BY RenamedShape
<1>5. PICK bh : Heights(t, S, bh, 0, "left")
  BY <1>1
<1>6. \E new : Heights(u, S1, new, Named(y, z, 0), "left")
  BY <1>5, RenamedColours
<1>7. Reds(u, S1, Named(y, z, 0), Named(y, z, 0))
  BY <1>1, RenamedColours
<1>8. ~IsRed(u, u.top)
  <2>1. u.top = Named(y, z, t.top)
    BY DEF Renamed
  <2>2. IsRed(u, Named(y, z, t.top)) <=> IsRed(t, t.top)
    BY <1>2, RenamedColours
  <2> QED
    BY <1>1, <2>1, <2>2
<1>9. Reds(u, S1, 0, 0) /\ \E new : Heights(u, S1, new, 0, "left")
  BY <1>3, <1>6, <1>7
<1> HIDE DEF S1
<1>10. GoodTree(u, S1, R)
  BY <1>4, <1>8, <1>9 DEF GoodTree
<1> QED
  BY <1>10 DEF S1

LEMMA RenamedHeavy ==
  ASSUME NEW t, NEW S, NEW R, NEW sub, Strict(R), NEW bh, NEW x, NEW np,
         Heavy(t, S, R, sub, bh, x, np),
         NEW z \in S, NEW y \in Nodes, y \notin S, NEW u, Renamed(t, u, S, y, z), x # z,
         \A n \in S, s \in Sides : \A m \in sub[t[s][n]] :
           Aside(R, s, Named(y, z, m), Named(y, z, n))
  PROVE  \E a, b : Heavy(u, (S \ {z}) \cup {y}, R, a, b, x, Named(y, z, np))
<1> DEFINE S1 == (S \ {z}) \cup {y}
           fin == Renaming(sub, y, z)
<1>1. /\ Shape(t, S, R, sub) /\ x \in S \cup {0} /\ Reds(t, S, x, x)
      /\ IsRed(t, t.top) => t.top = x
      /\ \/ x = t.top /\ Heights(t, S, bh, 0, "left")
         \/ /\ x # t.top
            /\ \E dp \in S, ds \in Sides :
                 t[ds][dp] = x /\ Heights(t, S, bh, dp, ds) /\ (x = 0 => np = dp)
  BY DEF Heavy
<1>2. t.top \in S \cup {0} /\ 0 \notin S /\ S \in SUBSET Nodes
  BY <1>1, TopFacts
<1>3. Named(y, z, 0) = 0 /\ Named(y, z, x) = x /\ x \in S1 \cup {0}
  BY <1>1, <1>2 DEF Named
<1>4. Shape(u, S1, R, fin)
  BY <1>1, RenamedShape
<1>5. /\ u.top = Named(y, z, t.top)
      /\ \A m \in S, g \in Sides : u[g][Named(y, z, m)] = Named(y, z, t[g][m])
  BY DEF Renamed, Links, Sides
<1>6. Reds(u, S1, x, x)
  <2>1. Reds(u, S1, Named(y, z, x), Named(y, z, x))
    BY <1>1, RenamedColours
  <2> QED
    BY <1>3, <2>1
<1>7. IsRed(u, u.top) => u.top = x
  <2>1. IsRed(u, Named(y, z, t.top)) <=> IsRed(t, t.top)
    BY <1>1, <1>2, RenamedColours
  <2> QED
    BY <1>1, <1>3, <1>5, <2>1
<1>8. CASE x = t.top
  <2>1. Heights(t, S, bh, 0, "left")
    BY <1>1, <1>8
  <2>2. PICK new : Heights(u, S1, new, Named(y, z, 0), "left")
    BY <1>1, <2>1, RenamedColours
  <2>3. Heights(u, S1, new, 0, "left") /\ x = u.top
    BY <1>3, <1>5, <1>8, <2>2
  <2> HIDE DEF S1, fin
  <2>4. Heavy(u, S1, R, fin, new, x, Named(y, z, np))
    BY <1>3, <1>4, <1>6, <1>7, <2>3 DEF Heavy
  <2> QED
    BY <2>4 DEF S1
<1>9. CASE x # t.top
  <2>1. PICK dp \in S : \E ds \in Sides :
          t[ds][dp] = x /\ Heights(t, S, bh, dp, ds) /\ (x = 0 => np = dp)
    BY <1>1, <1>9
  <2>2. PICK ds \in Sides :
          t[ds][dp] = x /\ Heights(t, S, bh, dp, ds) /\ (x = 0 => np = dp)
    BY <2>1
  <2>3. PICK new : Heights(u, S1, new, Named(y, z, dp), ds)
    BY <1>1, <2>2, RenamedColours
  <2>4. Named(y, z, dp) \in S1
    BY <1>2 DEF Named
  <2>5. x # u.top
    BY <1>1, <1>2, <1>5, <1>9, NodeFacts DEF Named
  <2>6. u[ds][Named(y, z, dp)] = x
    BY <1>3, <1>5, <2>2
  <2>7. x = 0 => Named(y, z, np) = Named(y, z, dp)
    BY <2>2
  <2> HIDE DEF S1, fin
  <2>8. Heavy(u, S1, R, fin, new, x, Named(y, z, np))
    BY <1>3, <1>4, <1>6, <1>7, <2>3, <2>4, <2>5, <2>6, <2>7 DEF Heavy
  <2> QED
    BY <2>8 DEF S1
<1> QED
  BY <1>8, <1>9

\* y is next after z, in the right subtree of z.
NextAfter(t, R, sub, z, y) ==
  /\ y \in sub[t["right"][z]]
  /\ \A k \in sub[t["right"][z]] : k # y => <<y, k>> \in R

\* Where z was, y is in order.
LEMMA NextInOrder ==
  ASSUME NEW t, NEW S, NEW R, NEW sub, Strict(R), Shape(t, S, R, sub), NEW z \in S,
         NEW y \in S, y # z, NextAfter(t, R, sub, z, y), NEW x, NEW u, Spliced(t, u, S, y, x)
  PROVE  /\ x # z
         /\ \A n \in S \ {y}, s \in Sides : \A m \in Without(sub, y)[u[s][n]] :
              Aside(R, s, Named(y, z, m), Named(y, z, n))
<1>1. /\ S \subseteq Nodes /\ 0 \notin S /\ sub[0] = {}
  BY TopFacts
<1>2. "right" \in Sides /\ "left" \in Sides
  BY DEF Sides
<1> DEFINE c == t["right"][z]
<1>3. c \in S \cup {0} /\ z \notin sub[c] /\ sub[c] \subseteq S /\ sub[c] \subseteq sub[z]
  BY <1>2, ShapeFacts
<1>4. y \in sub[c] /\ \A k \in sub[c] : k # y => <<y, k>> \in R
  BY DEF NextAfter
<1>5. c \in S
  BY <1>1, <1>3, <1>4
<1>6. sub[y] \subseteq sub[c]
  BY <1>4, <1>5, Nested
<1>7. x # z
  <2>1. sub[y] = {y} \cup sub[x]
    BY SplicedBelow
  <2>2. z \in sub[z]
    BY TopFacts
  <2> QED
    BY <1>3, <1>6, <2>1, <2>2
<1>8. \A n \in S, s \in Sides : \A m \in sub[t[s][n]] : Aside(R, s, m, n)
  BY DEF Shape, Child
<1>9. <<z, y>> \in R
  BY <1>2, <1>4, <1>8 DEF Aside
<1> HIDE DEF c
<1>10. ASSUME NEW n \in S \ {y}, NEW s \in Sides, NEW m \in Without(sub, y)[u[s][n]]
       PROVE  Aside(R, s, Named(y, z, m), Named(y, z, n))
  <2>1. Without(sub, y)[u[s][n]] = sub[t[s][n]] \ {y}
    BY SplicedBelow
  <2>2. m \in sub[t[s][n]] /\ m # y
    BY <1>10, <2>1
  <2>3. t[s][n] \in S \cup {0} /\ sub[t[s][n]] \subseteq S /\ n \notin sub[t[s][n]]
    BY ShapeFacts, ZenonT(60)
  <2>4. t[s][n] \in S /\ m \in S
    BY <1>1, <2>2, <2>3
  <2>5. CASE m # z /\ n # z
    BY <1>8, <2>2, <2>5 DEF Named
  <2>6. CASE m = z
    <3>1. n # z
      BY <2>2, <2>3, <2>6
    <3>2. sub[z] \subseteq sub[t[s][n]]
      BY <2>2, <2>4, <2>6, Nested
    <3>3. y \in sub[t[s][n]]
      BY <1>3, <1>4, <3>2
    <3> QED
      BY <1>8, <2>6, <3>1, <3>3 DEF Named
  <2>7. CASE n = z /\ m # z
    <3>1. CASE s = "right"
      <4>1. <<y, m>> \in R
        BY <1>4, <2>2, <2>7, <3>1 DEF c
      <4> QED
        BY <2>7, <3>1, <4>1 DEF Named, Aside
    <3>2. CASE s = "left"
      <4>1. <<m, z>> \in R
        BY <1>8, <2>2, <2>7, <3>2 DEF Aside
      <4>2. <<m, y>> \in R
        BY <1>1, <1>9, <2>4, <4>1 DEF Strict
      <4> QED
        BY <2>7, <3>2, <4>2 DEF Named, Aside
    <3> QED
      BY <3>1, <3>2 DEF Sides
  <2> QED
    BY <2>5, <2>6, <2>7
<1> QED
  BY <1>7, <1>10

\* A red-black tree is one by the links and colours of its nodes.
LEMMA GoodTreeSame ==
  ASSUME NEW t, NEW S, NEW R, Strict(R), GoodTree(t, S, R), NEW u \in Tree, u.top = t.top,
         \A g \in Links, n \in S : u[g][n] = t[g][n], \A n \in S : u.red[n] = t.red[n]
  PROVE  GoodTree(u, S, R)
<1>1. PICK sub : Shape(t, S, R, sub)
  BY DEF GoodTree
<1>2. PICK bh : Heights(t, S, bh, 0, "left")
  BY DEF GoodTree
<1>3. Reds(t, S, 0, 0) /\ ~IsRed(t, t.top)
  BY DEF GoodTree
<1>4. Shape(u, S, R, sub)
  BY <1>1, SameShape
<1>5. \A s \in Sides, n \in S : u[s][n] = t[s][n]
  BY DEF Links
<1>6. Heights(u, S, bh, 0, "left")
  BY <1>1, <1>2, <1>5, SameHeights
<1>7. Reds(u, S, 0, 0)
  <2> SUFFICES ASSUME NEW n \in S, NEW s \in Sides, u[s][n] # 0, u.red[n], u.red[u[s][n]]
               PROVE  FALSE
    BY DEF Reds
  <2>1. t[s][n] \in S \cup {0} /\ u[s][n] = t[s][n]
    BY <1>1, <1>5, ChildIn
  <2>2. n # 0 /\ t.red[n] /\ t.red[t[s][n]] /\ t[s][n] # 0
    BY <1>1, <2>1, TopFacts
  <2> QED
    BY <1>3, <2>2 DEF Reds
<1>8. ~IsRed(u, u.top)
  <2>1. t.top \in S \cup {0}
    BY <1>1, TopFacts
  <2> QED
    BY <1>3, <2>1 DEF IsRed
<1> QED
  BY <1>4, <1>6, <1>7, <1>8 DEF GoodTree

LEMMA SpliceOutGood ==
  ASSUME NEW t, NEW S, NEW R, Strict(R), GoodTree(t, S, R), NEW sub, Shape(t, S, R, sub),
         NEW z \in S, NEW y \in S, NEW x, \E s \in Sides : t[s][y] = x /\ t[Other(s)][y] = 0,
         y # z => NextAfter(t, R, sub, z, y)
  PROVE  GoodTree(SpliceOut(t, z, y, x), S \ {z}, R)
<1> DEFINE np == IF x # 0 THEN 0 ELSE t.parent[y]
           u == Relink(Set(t, "parent", x, t.parent[y]), t.parent[y], y, x)
           v == TakePlace(u, y, z)
           S1 == S \ {y}
           sub1 == Without(sub, y)
<1>1. /\ S \subseteq Nodes /\ 0 \notin S /\ S \subseteq Null /\ 0 \in Null
  BY TopFacts, NodeFacts
<1>2. np \in Null
  <2>1. t.parent[y] \in S \cup {0}
    BY LinksTo
  <2> QED
    BY <1>1, <2>1
<1>3. x = 0 => np = t.parent[y]
  OBVIOUS
<1>4. SpliceOut(t, z, y, x)
        = LET t2 == IF y = z THEN u ELSE v
          IN  IF ~t.red[y] THEN RemoveFixup(t2, x, IF y # z /\ np = z THEN y ELSE np) ELSE t2
  BY DEF SpliceOut, RemoveNeedsFixup
<1> HIDE DEF np
<1>5. Spliced(t, u, S, y, x)
  BY SplicedIs
<1> HIDE DEF u, v
<1>6. IF t.red[y] THEN GoodTree(u, S1, R) ELSE \E bh : Heavy(u, S1, R, sub1, bh, x, np)
  BY <1>3, <1>5, SplicedHeavy
<1>7. Shape(u, S1, R, sub1)
  BY <1>5, SplicedShape
<1>8. CASE y = z
  <2>1. CASE t.red[y]
    BY <1>4, <1>6, <1>8, <2>1
  <2>2. CASE ~t.red[y]
    <3>1. PICK bh : Heavy(u, S1, R, sub1, bh, x, np)
      BY <1>6, <2>2
    <3>2. GoodTree(RemoveFixup(u, x, np), S1, R)
      BY <1>2, <3>1, RemoveFixupGood
    <3>3. SpliceOut(t, z, y, x) = RemoveFixup(u, x, np)
      BY <1>4, <1>8, <2>2
    <3> QED
      BY <1>8, <3>2, <3>3
  <2> QED
    BY <2>1, <2>2
<1>9. CASE y # z
  <2>1. z \in S1 /\ y \in Nodes /\ y \notin S1 /\ (S1 \ {z}) \cup {y} = S \ {z}
    BY <1>1, <1>9
  <2>2. /\ x # z
        /\ \A n \in S1, s \in Sides : \A m \in sub1[u[s][n]] :
             Aside(R, s, Named(y, z, m), Named(y, z, n))
    BY <1>5, <1>9, NextInOrder
  <2> HIDE DEF S1, sub1
  <2>3. Renamed(u, v, S1, y, z)
    BY <1>7, <2>1, TakePlaceIs DEF v
  <2>4. CASE t.red[y]
    <3>1. GoodTree(u, S1, R)
      BY <1>6, <2>4
    <3>2. GoodTree(v, (S1 \ {z}) \cup {y}, R)
      BY <1>7, <2>1, <2>2, <2>3, <3>1, RenamedGood
    <3>3. SpliceOut(t, z, y, x) = v
      BY <1>4, <1>9, <2>4
    <3> QED
      BY <2>1, <3>2, <3>3
  <2>5. CASE ~t.red[y]
    <3>1. PICK bh : Heavy(u, S1, R, sub1, bh, x, np)
      BY <1>6, <2>5
    <3>2. PICK a, b : Heavy(v, (S1 \ {z}) \cup {y}, R, a, b, x, Named(y, z, np))
      BY <2>1, <2>2, <2>3, <3>1, RenamedHeavy
    <3>3. Named(y, z, np) \in Null
      BY <1>1, <1>2 DEF Named
    <3>4. GoodTree(RemoveFixup(v, x, Named(y, z, np)), (S1 \ {z}) \cup {y}, R)
      BY <3>2, <3>3, RemoveFixupGood
    <3>5. SpliceOut(t, z, y, x) = RemoveFixup(v, x, Named(y, z, np))
      BY <1>4, <1>9, <2>5 DEF Named
    <3> QED
      BY <2>1, <3>4, <3>5
  <2> QED
    BY <2>4, <2>5
<1> QED
  BY <1>8, <1>9

\* GSK_RBTREE_REMOVE_ leaves a red-black tree, and what is done to the fields of the
\* node afterwards does no harm.
LEMMA TreeRemoveGood ==
  ASSUME NEW t, NEW S, NEW R, Strict(R), GoodTree(t, S, R), NEW z \in S
  PROVE  GoodTree(Set(TreeRemove(t, z), "red", z, FALSE), S \ {z}, R)
<1> DEFINE y == IF t.left[z] = 0 \/ t.right[z] = 0 THEN z ELSE NextBelow(t, z)
           x == IF t.left[y] # 0 THEN t.left[y] ELSE t.right[y]
           t1 == SpliceOut(t, z, y, x)
           t2 == Set(t1, "left", z, 0)
           t3 == Set(t2, "right", z, 0)
           t4 == Set(t3, "parent", z, 0)
           t5 == Set(t4, "red", z, FALSE)
           S1 == S \ {z}
<1>1. TreeRemove(t, z) = t4
  BY DEF TreeRemove
<1>2. PICK sub : Shape(t, S, R, sub)
  BY DEF GoodTree
<1>3. /\ S \subseteq Nodes /\ 0 \notin S /\ t \in Tree /\ z \in Null /\ 0 \in Null /\ sub[0] = {}
  BY <1>2, TopFacts, NodeFacts
<1>4. /\ "left" \in Sides /\ "right" \in Sides /\ Other("left") = "right"
      /\ Other("right") = "left" /\ Sides \subseteq Links /\ "parent" \in Links
  BY DEF Sides, Links, Other
<1>5. t["left"] = t.left /\ t["right"] = t.right
  BY <1>3, TreeType
<1>6. t.left[z] # 0 /\ t.right[z] # 0 =>
        y \in S /\ NextAfter(t, R, sub, z, y) /\ t.left[y] = 0
  <2> SUFFICES ASSUME t.left[z] # 0, t.right[z] # 0
               PROVE  y \in S /\ NextAfter(t, R, sub, z, y) /\ t.left[y] = 0
    OBVIOUS
  <2>1. y = Extreme(t, "left", t["right"][z])
    BY <1>5 DEF NextBelow
  <2>2. t["right"][z] \in S
    BY <1>2, <1>4, <1>5, ChildIn
  <2> HIDE DEF y
  <2>3. y \in sub[t["right"][z]] /\ y \in S /\ t["left"][y] = 0
    BY <1>2, <1>4, <2>1, <2>2, ExtremeIs
  <2>4. \A k \in sub[t["right"][z]] : k # y => Aside(R, "left", y, k)
    BY <1>2, <1>4, <2>1, <2>2, ExtremeIs
  <2> QED
    BY <1>5, <2>3, <2>4 DEF NextAfter, Aside
<1>7. y \in S /\ (y # z => NextAfter(t, R, sub, z, y)) /\ (y # z => t.left[y] = 0)
      /\ (y = z => t.left[y] = 0 \/ t.right[y] = 0)
  <2>1. CASE t.left[z] = 0 \/ t.right[z] = 0
    BY <2>1
  <2>2. CASE t.left[z] # 0 /\ t.right[z] # 0
    <3>1. y # z
      <4>1. y \in sub[t["right"][z]]
        BY <1>6, <2>2 DEF NextAfter
      <4>2. z \notin sub[t["right"][z]]
        BY <1>2, <1>4, ShapeFacts
      <4> QED
        BY <4>1, <4>2
    <3> QED
      BY <1>6, <2>2, <3>1
  <2> QED
    BY <2>1, <2>2
<1> HIDE DEF y
<1>8. \E s \in Sides : t[s][y] = x /\ t[Other(s)][y] = 0
  <2>1. CASE t.left[y] # 0
    BY <1>4, <1>5, <1>7, <2>1
  <2>2. CASE t.left[y] = 0
    BY <1>4, <1>5, <2>2
  <2> QED
    BY <2>1, <2>2
<1> HIDE DEF x
<1>9. GoodTree(t1, S1, R)
  BY <1>2, <1>7, <1>8, SpliceOutGood
<1> HIDE DEF t1
<1>10. t1 \in Tree
  <2>1. PICK a : Shape(t1, S1, R, a)
    BY <1>9 DEF GoodTree
  <2> QED
    BY <2>1 DEF Shape
<1>11. LinkSet(t1, t2, "left", z, 0)
  BY <1>3, <1>4, <1>10, SetLink
<1> HIDE DEF t2
<1>12. LinkSet(t2, t3, "right", z, 0)
  <2>1. t2 \in Tree
    BY <1>11 DEF LinkSet
  <2> QED
    BY <1>3, <1>4, <2>1, SetLink
<1> HIDE DEF t3
<1>13. LinkSet(t3, t4, "parent", z, 0)
  <2>1. t3 \in Tree
    BY <1>12 DEF LinkSet
  <2> QED
    BY <1>3, <1>4, <2>1, SetLink
<1> HIDE DEF t4
<1>14. RedSet(t4, t5, z, FALSE)
  <2>1. t4 \in Tree /\ FALSE \in BOOLEAN
    BY <1>13 DEF LinkSet
  <2> QED
    BY <1>3, <2>1, SetRed, Zenon
<1> HIDE DEF t5
<1>15. t5 \in Tree /\ t5.top = t1.top
  BY <1>11, <1>12, <1>13, <1>14 DEF LinkSet, RedSet
<1>16. ASSUME NEW g \in Links, NEW n \in S1 PROVE t5[g][n] = t1[g][n]
  <2>1. n \in Nodes /\ n # z
    BY <1>3
  <2> QED
    BY <1>11, <1>12, <1>13, <1>14, <2>1 DEF LinkSet, RedSet
<1>17. ASSUME NEW n \in S1 PROVE t5.red[n] = t1.red[n]
  <2>1. n \in Nodes /\ n # z
    BY <1>3
  <2>2. t4.red = t1.red
    BY <1>11, <1>12, <1>13 DEF LinkSet
  <2>3. t5.red[n] = IF n = z THEN FALSE ELSE t4.red[n]
    BY <1>14, <2>1 DEF RedSet
  <2> QED
    BY <2>1, <2>2, <2>3
<1>18. GoodTree(t5, S1, R)
  BY <1>9, <1>15, <1>16, <1>17, GoodTreeSame
<1> QED
  BY <1>1, <1>18 DEF t5
-----------------------------------------------------------------------------
(* What the walks of a sound tree find.                                    *)

\* A set that grows within P for long enough is closed.
Growth(n, P, A) ==
  /\ IsFiniteSet(P) /\ Cardinality(P) <= n
  /\ A \in [SUBSET P -> SUBSET P] /\ \A X \in SUBSET P : X \subseteq A[X]

LEMMA Grown ==
  ASSUME NEW n \in Nat, NEW P, NEW A, Growth(n, P, A), NEW base \in SUBSET P, NEW u, Runs(u, n, SUBSET P, base, A)
  PROVE  u[n] \in SUBSET P /\ base \subseteq u[n] /\ A[u[n]] = u[n]
<1>0. /\ u[0] = base /\ \A i \in 1 .. n : u[i] = A[u[i - 1]]
      /\ IsFiniteSet(P) /\ Cardinality(P) <= n
      /\ A \in [SUBSET P -> SUBSET P] /\ \A X \in SUBSET P : X \subseteq A[X]
  BY DEF Runs, Growth
<1> USE <1>0
<1> DEFINE T == {X \in SUBSET P : base \subseteq X}
           W == {X \in T : A[X] # X}
           mu == [X \in T |-> Cardinality(X)]
<1>1. \A X \in SUBSET P : IsFiniteSet(X) /\ Cardinality(X) \in Nat
  BY FS_Subset, FS_CardinalityType
<1>2. mu \in [T -> Nat]
  BY <1>1
<1>3. \A i \in 0 .. n : u[i] \in T
  <2>1. u[0] \in T
    OBVIOUS
  <2>2. \A i \in 1 .. n : u[i - 1] \in T => u[i] \in T
    OBVIOUS
  <2> HIDE DEF T
  <2> QED
    BY <2>1, <2>2, StaysIn
<1>4. \A i \in 1 .. n : u[i - 1] \notin W => u[i] = u[i - 1]
  <2> SUFFICES ASSUME NEW i \in 1 .. n, u[i - 1] \notin W PROVE u[i] = u[i - 1]
    OBVIOUS
  <2>1. u[i - 1] \in T
    BY <1>3
  <2> QED
    BY <2>1
<1>5. \A X \in SUBSET P : A[X] # X => Cardinality(A[X]) > Cardinality(X)
  <2> SUFFICES ASSUME NEW X \in SUBSET P, A[X] # X PROVE Cardinality(A[X]) > Cardinality(X)
    OBVIOUS
  <2>1. X \subseteq A[X] /\ A[X] \in SUBSET P
    OBVIOUS
  <2>2. IsFiniteSet(A[X])
    BY <1>1, <2>1
  <2>3. Cardinality(X) <= Cardinality(A[X]) /\ Cardinality(A[X]) # Cardinality(X)
    <3>1. X \in SUBSET A[X]
      BY <2>1
    <3> QED
      BY <2>2, <3>1, FS_Subset
  <2>4. Cardinality(X) \in Nat /\ Cardinality(A[X]) \in Nat
    BY <1>1, <2>1
  <2> QED
    BY <2>3, <2>4
<1>6. \A i \in 1 .. n : u[i - 1] \in W /\ u[i] \in W => mu[u[i]] > mu[u[i - 1]]
  <2> SUFFICES ASSUME NEW i \in 1 .. n, u[i - 1] \in W, u[i] \in W
               PROVE  mu[u[i]] > mu[u[i - 1]]
    OBVIOUS
  <2>1. u[i] = A[u[i - 1]] /\ u[i - 1] \in SUBSET P /\ A[u[i - 1]] # u[i - 1]
    OBVIOUS
  <2>2. Cardinality(u[i]) > Cardinality(u[i - 1])
    BY <1>5, <2>1
  <2> QED
    BY <2>2
<1>7. \A X \in T : X \in W => mu[X] < n
  <2> SUFFICES ASSUME NEW X \in T, A[X] # X PROVE Cardinality(X) < n
    OBVIOUS
  <2>1. A[X] \subseteq P /\ Cardinality(A[X]) > Cardinality(X)
    BY <1>5
  <2>2. Cardinality(A[X]) <= Cardinality(P)
    BY <2>1, FS_Subset
  <2>3. Cardinality(X) \in Nat /\ Cardinality(A[X]) \in Nat /\ Cardinality(P) \in Nat
    BY <1>1, <2>1
  <2> QED
    BY <2>1, <2>2, <2>3
<1>8. u[n] \in T
  BY <1>3
<1>9. u[n] \notin W
  <2> HIDE DEF T, W, mu
  <2> QED
    BY <1>2, <1>3, <1>4, <1>6, <1>7, LoopEnds
<1> QED
  BY <1>8, <1>9

LEMMA SubtreeIs ==
  ASSUME NEW t, NEW S, NEW R, NEW sub, Strict(R), Shape(t, S, R, sub), NEW n \in S \cup {0}
  PROVE  Subtree(t, n) = sub[n]
<1> DEFINE N == Cardinality(DOMAIN t.red)
           P == sub[n]
           base == {n} \ {0}
           A == [X \in SUBSET P |-> AndChildren(t, X)]
           Rec(g) == g = [i \in 0 .. N |->
                            IF i = 0 THEN base
                            ELSE LET s == g[i - 1]
                                 IN  IF AndChildren(t, s) # s THEN AndChildren(t, s) ELSE s]
           u == CHOOSE g : Rec(g)
<1>1. Subtree(t, n) = u[N]
  BY DEF Subtree, Loop
<1>2. /\ t \in Tree /\ S \subseteq Nodes /\ 0 \notin S /\ sub[0] = {} /\ n \in Null
      /\ IsFiniteSet(P) /\ Cardinality(P) <= MaxTimers
  <2>1. t \in Tree /\ S \subseteq Nodes /\ 0 \notin S /\ sub[0] = {}
    BY TopFacts
  <2>2. n \in Null
    BY <2>1, NodeFacts
  <2>3. /\ IsFiniteSet(sub[n]) /\ Cardinality(sub[n]) \in Nat /\ Cardinality(S) \in Nat
        /\ Cardinality(sub[n]) <= Cardinality(S) /\ Cardinality(S) <= MaxTimers
    BY <2>2, TopFacts
  <2> QED
    BY <2>1, <2>2, <2>3, NodeFacts
<1>3. N = MaxTimers /\ N \in Nat
  BY <1>2, TreeType, NodeFacts
<1>4. t["left"] = t.left /\ t["right"] = t.right
  BY <1>2, TreeType
<1>5. P \subseteq S /\ base \subseteq P /\ (n = 0 => P = {})
  <2>1. n # 0 => n \in sub[n] /\ sub[n] \subseteq S
    BY TopFacts
  <2> QED
    BY <1>2, <2>1
<1>6. \A m \in P, s \in Sides :
        t[s][m] \in S \cup {0} /\ (t[s][m] # 0 => t[s][m] \in P)
  <2> SUFFICES ASSUME NEW m \in P, NEW s \in Sides
               PROVE  t[s][m] \in S \cup {0} /\ (t[s][m] # 0 => t[s][m] \in P)
    OBVIOUS
  <2>1. m \in S /\ n \in S
    BY <1>5
  <2>2. t[s][m] \in S \cup {0} /\ sub[m] \subseteq P
    BY <2>1, ChildIn, Nested
  <2>3. t[s][m] # 0 => t[s][m] \in sub[t[s][m]] /\ sub[m] = {m} \cup sub[t[s][m]] \cup sub[t[Other(s)][m]]
    BY <2>1, ShapeFacts
  <2> QED
    BY <2>2, <2>3
<1>7. \A X \in SUBSET P : AndChildren(t, X) \in SUBSET P /\ X \subseteq AndChildren(t, X)
  <2> SUFFICES ASSUME NEW X \in SUBSET P
               PROVE  AndChildren(t, X) \in SUBSET P /\ X \subseteq AndChildren(t, X)
    OBVIOUS
  <2>1. 0 \notin X
    BY <1>2, <1>5
  <2> QED
    BY <1>4, <1>6, <2>1 DEF AndChildren, Sides
<1>8. Growth(N, P, A)
  BY <1>2, <1>3, <1>7 DEF Growth
<1>9. /\ \E g : Runs(g, N, SUBSET P, base, A)
      /\ \A g : Runs(g, N, SUBSET P, base, A) =>
           g[N] \in SUBSET P /\ base \subseteq g[N] /\ A[g[N]] = g[N]
  <2>1. base \in SUBSET P /\ N \in Nat
    BY <1>3, <1>5
  <2> HIDE DEF A, N, P, base
  <2>2. \E g : Runs(g, N, SUBSET P, base, A)
    BY <1>8, <2>1, RunExists DEF Growth
  <2>3. ASSUME NEW g, Runs(g, N, SUBSET P, base, A)
        PROVE  g[N] \in SUBSET P /\ base \subseteq g[N] /\ A[g[N]] = g[N]
    BY <1>8, <2>1, <2>3, Grown
  <2> QED
    BY <2>2, <2>3
<1> HIDE DEF N, u, P, base
<1>10. \A g : Runs(g, N, SUBSET P, base, A) => Rec(g)
  <2> SUFFICES ASSUME NEW g, Runs(g, N, SUBSET P, base, A) PROVE Rec(g)
    OBVIOUS
  <2>1. g \in [0 .. N -> SUBSET P] /\ g[0] = base /\ \A i \in 1 .. N : g[i] = A[g[i - 1]]
    <3> HIDE DEF A
    <3> QED
      BY DEF Runs
  <2>2. ASSUME NEW i \in 0 .. N
        PROVE  g[i] = IF i = 0 THEN base
                      ELSE LET s == g[i - 1]
                           IN  IF AndChildren(t, s) # s THEN AndChildren(t, s) ELSE s
    <3>1. CASE i = 0
      BY <2>1, <3>1
    <3>2. CASE i # 0
      <4>1. i \in 1 .. N /\ i - 1 \in 0 .. N
        BY <1>3, <3>2
      <4>2. g[i] = AndChildren(t, g[i - 1])
        BY <2>1, <4>1
      <4> QED
        BY <3>2, <4>2
    <3> QED
      BY <3>1, <3>2
  <2> QED
    BY <2>1, <2>2
<1>11. Rec(u)
  <2> HIDE DEF Rec
  <2> QED
    BY <1>9, <1>10 DEF u
<1>12. Runs(u, N, SUBSET P, base, A)
  <2>1. DOMAIN u = 0 .. N /\ u[0] = base
    BY <1>3, <1>11
  <2>2. ASSUME NEW i \in 1 .. N PROVE u[i] = AndChildren(t, u[i - 1])
    BY <1>3, <1>11
  <2>3. \A i \in 0 .. N : u[i] \in SUBSET P
    <3>1. ASSUME NEW i \in 1 .. N, u[i - 1] \in SUBSET P PROVE u[i] \in SUBSET P
      BY <1>7, <2>2, <3>1
    <3>2. u[0] \in SUBSET P
      BY <1>5, <2>1
    <3> QED
      BY <1>3, <3>1, <3>2, StaysIn
  <2>4. u \in [0 .. N -> SUBSET P]
    BY <1>11, <2>1, <2>3
  <2>5. \A i \in 1 .. N : u[i] = A[u[i - 1]]
    <3> SUFFICES ASSUME NEW i \in 1 .. N PROVE u[i] = A[u[i - 1]]
      OBVIOUS
    <3>1. u[i - 1] \in SUBSET P
      BY <1>3, <2>3
    <3> QED
      BY <2>2, <3>1
  <2> HIDE DEF A
  <2> QED
    BY <2>1, <2>4, <2>5 DEF Runs
<1>13. u[N] \in SUBSET P /\ base \subseteq u[N] /\ A[u[N]] = u[N]
  <2> HIDE DEF A
  <2> QED
    BY <1>9, <1>12
<1>14. AndChildren(t, u[N]) = u[N]
  BY <1>13
<1>15. \A m \in u[N], s \in Sides : t[s][m] # 0 => t[s][m] \in u[N]
  BY <1>4, <1>14 DEF AndChildren, Sides
<1> DEFINE G == {m \in S : m \in u[N] => sub[m] \subseteq u[N]}
<1>16. S \subseteq G
  <2>1. ASSUME NEW m \in S, \A s \in Sides : t[s][m] \in G \cup {0} PROVE m \in G
    <3> SUFFICES ASSUME m \in u[N] PROVE sub[m] \subseteq u[N]
      OBVIOUS
    <3>1. "left" \in Sides /\ "right" \in Sides
      BY DEF Sides
    <3>2. \A s \in Sides : sub[t[s][m]] \subseteq u[N]
      BY <1>2, <1>15, <2>1
    <3>3. sub[m] = {m} \cup sub[t["left"][m]] \cup sub[t["right"][m]]
      BY DEF Shape, Below
    <3> QED
      BY <3>1, <3>2, <3>3
  <2> HIDE DEF G
  <2> QED
    BY <2>1, TreeInduction
<1>17. P \subseteq u[N]
  <2>1. CASE n = 0
    BY <1>5, <2>1
  <2>2. CASE n # 0
    BY <1>13, <1>16, <2>2 DEF base, P
  <2> QED
    BY <2>1, <2>2
<1> QED
  BY <1>1, <1>13, <1>17 DEF P

\* The nodes from n up: those that have n in their subtree.
LEMMA PathUpIs ==
  ASSUME NEW t, NEW S, NEW R, NEW sub, Strict(R), Shape(t, S, R, sub), NEW n \in S
  PROVE  PathUp(t, n) = {m \in S : n \in sub[m]}
<1> DEFINE N == Cardinality(DOMAIN t.red)
           P == {m \in S : n \in sub[m]}
           base == {n}
           A == [X \in SUBSET P |-> AndParents(t, X)]
           Rec(g) == g = [i \in 0 .. N |->
                            IF i = 0 THEN base
                            ELSE LET s == g[i - 1]
                                 IN  IF AndParents(t, s) # s THEN AndParents(t, s) ELSE s]
           u == CHOOSE g : Rec(g)
<1>1. PathUp(t, n) = u[N]
  BY DEF PathUp, Loop
<1>2. /\ t \in Tree /\ S \subseteq Nodes /\ 0 \notin S /\ sub[0] = {}
      /\ IsFiniteSet(P) /\ Cardinality(P) <= MaxTimers /\ n \in sub[n]
  <2>1. t \in Tree /\ S \subseteq Nodes /\ 0 \notin S /\ sub[0] = {} /\ n \in sub[n]
    BY TopFacts
  <2>2. IsFiniteSet(S) /\ Cardinality(S) \in Nat /\ Cardinality(S) <= MaxTimers
    BY TopFacts
  <2>3. P \in SUBSET S
    OBVIOUS
  <2> HIDE DEF P
  <2>4. IsFiniteSet(P) /\ Cardinality(P) <= Cardinality(S)
    BY <2>2, <2>3, FS_Subset
  <2>5. Cardinality(P) \in Nat
    BY <2>4, FS_CardinalityType
  <2> QED
    BY <2>1, <2>2, <2>4, <2>5, NodeFacts
<1>3. N = MaxTimers /\ N \in Nat
  BY <1>2, TreeType, NodeFacts
<1>4. \A m \in S : t.parent[m] \in S \cup {0}
  BY LinksTo
<1>5. P \subseteq S /\ base \subseteq P
  BY <1>2
<1>6. \A m \in P : t.parent[m] # 0 => t.parent[m] \in P
  <2> SUFFICES ASSUME NEW m \in P, t.parent[m] # 0 PROVE t.parent[m] \in P
    OBVIOUS
  <2>1. m # t.top
    BY LinksTo
  <2>2. PICK s \in Sides : t[s][t.parent[m]] = m /\ t.parent[m] \in S
    BY <2>1 DEF Shape
  <2>3. sub[t[s][t.parent[m]]] \subseteq sub[t.parent[m]]
    BY <2>2, ShapeFacts
  <2> QED
    BY <2>2, <2>3
<1>7. \A X \in SUBSET P : AndParents(t, X) \in SUBSET P /\ X \subseteq AndParents(t, X)
  <2> SUFFICES ASSUME NEW X \in SUBSET P
               PROVE  AndParents(t, X) \in SUBSET P /\ X \subseteq AndParents(t, X)
    OBVIOUS
  <2>1. 0 \notin X
    BY <1>2, <1>5
  <2> QED
    BY <1>6, <2>1 DEF AndParents
<1>8. Growth(N, P, A)
  BY <1>2, <1>3, <1>7 DEF Growth
<1>9. /\ \E g : Runs(g, N, SUBSET P, base, A)
      /\ \A g : Runs(g, N, SUBSET P, base, A) =>
           g[N] \in SUBSET P /\ base \subseteq g[N] /\ A[g[N]] = g[N]
  <2>1. base \in SUBSET P /\ N \in Nat
    BY <1>3, <1>5
  <2> HIDE DEF A, N, P, base
  <2>2. \E g : Runs(g, N, SUBSET P, base, A)
    BY <1>8, <2>1, RunExists DEF Growth
  <2>3. ASSUME NEW g, Runs(g, N, SUBSET P, base, A)
        PROVE  g[N] \in SUBSET P /\ base \subseteq g[N] /\ A[g[N]] = g[N]
    BY <1>8, <2>1, <2>3, Grown
  <2> QED
    BY <2>2, <2>3
<1> HIDE DEF N, u, P, base
<1>10. \A g : Runs(g, N, SUBSET P, base, A) => Rec(g)
  <2> SUFFICES ASSUME NEW g, Runs(g, N, SUBSET P, base, A) PROVE Rec(g)
    OBVIOUS
  <2>1. g \in [0 .. N -> SUBSET P] /\ g[0] = base /\ \A i \in 1 .. N : g[i] = A[g[i - 1]]
    <3> HIDE DEF A
    <3> QED
      BY DEF Runs
  <2>2. ASSUME NEW i \in 0 .. N
        PROVE  g[i] = IF i = 0 THEN base
                      ELSE LET s == g[i - 1]
                           IN  IF AndParents(t, s) # s THEN AndParents(t, s) ELSE s
    <3>1. CASE i = 0
      BY <2>1, <3>1
    <3>2. CASE i # 0
      <4>1. i \in 1 .. N /\ i - 1 \in 0 .. N
        BY <1>3, <3>2
      <4>2. g[i] = AndParents(t, g[i - 1])
        BY <2>1, <4>1
      <4> QED
        BY <3>2, <4>2
    <3> QED
      BY <3>1, <3>2
  <2> QED
    BY <2>1, <2>2
<1>11. Rec(u)
  <2> HIDE DEF Rec
  <2> QED
    BY <1>9, <1>10 DEF u
<1>12. Runs(u, N, SUBSET P, base, A)
  <2>1. DOMAIN u = 0 .. N /\ u[0] = base
    BY <1>3, <1>11
  <2>2. ASSUME NEW i \in 1 .. N PROVE u[i] = AndParents(t, u[i - 1])
    BY <1>3, <1>11
  <2>3. \A i \in 0 .. N : u[i] \in SUBSET P
    <3>1. ASSUME NEW i \in 1 .. N, u[i - 1] \in SUBSET P PROVE u[i] \in SUBSET P
      BY <1>7, <2>2, <3>1
    <3>2. u[0] \in SUBSET P
      BY <1>5, <2>1
    <3> QED
      BY <1>3, <3>1, <3>2, StaysIn
  <2>4. u \in [0 .. N -> SUBSET P]
    BY <1>11, <2>1, <2>3
  <2>5. \A i \in 1 .. N : u[i] = A[u[i - 1]]
    <3> SUFFICES ASSUME NEW i \in 1 .. N PROVE u[i] = A[u[i - 1]]
      OBVIOUS
    <3>1. u[i - 1] \in SUBSET P
      BY <1>3, <2>3
    <3> QED
      BY <2>2, <3>1
  <2> HIDE DEF A
  <2> QED
    BY <2>1, <2>4, <2>5 DEF Runs
<1>13. u[N] \in SUBSET P /\ base \subseteq u[N] /\ A[u[N]] = u[N]
  <2> HIDE DEF A
  <2> QED
    BY <1>9, <1>12
<1>14. AndParents(t, u[N]) = u[N]
  BY <1>13
<1>15. \A m \in u[N] : t.parent[m] # 0 => t.parent[m] \in u[N]
  BY <1>14 DEF AndParents
<1> DEFINE G == {m \in S : n \in sub[m] => m \in u[N]}
<1>16. S \subseteq G
  <2>1. ASSUME NEW m \in S, \A s \in Sides : t[s][m] \in G \cup {0} PROVE m \in G
    <3> SUFFICES ASSUME n \in sub[m] PROVE m \in u[N]
      OBVIOUS
    <3>1. CASE n = m
      BY <1>13, <3>1 DEF base
    <3>2. CASE n # m
      <4>1. sub[m] = {m} \cup sub[t["left"][m]] \cup sub[t["right"][m]]
        BY DEF Shape, Below
      <4>2. PICK s \in Sides : n \in sub[t[s][m]]
        BY <3>2, <4>1 DEF Sides
      <4>3. t[s][m] # 0 /\ t[s][m] \in u[N]
        BY <1>2, <2>1, <4>2
      <4>4. t.parent[t[s][m]] = m
        BY <4>3, ChildIn
      <4> QED
        BY <1>2, <1>15, <4>3, <4>4
    <3> QED
      BY <3>1, <3>2
  <2> HIDE DEF G
  <2> QED
    BY <2>1, TreeInduction
<1>17. P \subseteq u[N]
  BY <1>5, <1>16 DEF P
<1> QED
  BY <1>1, <1>13, <1>17 DEF P

Above(S, sub, n) == {m \in S : n \in sub[m]}
BlackAbove(t, S, sub, n) == {m \in Above(S, sub, n) : ~t.red[m]}

LEMMA AboveChild ==
  ASSUME NEW t, NEW S, NEW R, NEW sub, Strict(R), Shape(t, S, R, sub),
         NEW p \in S, NEW s \in Sides, t[s][p] # 0
  PROVE  /\ t[s][p] \in S /\ t[s][p] \notin Above(S, sub, p)
         /\ Above(S, sub, t[s][p]) = Above(S, sub, p) \cup {t[s][p]}
<1> DEFINE c == t[s][p]
<1>1. /\ c \in S /\ t.parent[c] = p /\ c \in sub[c] /\ p \notin sub[c] /\ c \in sub[p]
  <2>1. c \in S \cup {0} /\ t.parent[c] = p
    BY ChildIn
  <2>2. c \in sub[c] /\ p \notin sub[c] /\ sub[p] = {p} \cup sub[c] \cup sub[t[Other(s)][p]]
    BY ShapeFacts
  <2> QED
    BY <2>1, <2>2
<1> HIDE DEF c
<1>2. c \notin Above(S, sub, p)
  BY <1>1 DEF Above
<1>3. ASSUME NEW m \in S, p \in sub[m] PROVE c \in sub[m]
  <2>1. sub[p] \subseteq sub[m]
    BY <1>3, Nested
  <2> QED
    BY <1>1, <2>1
<1>4. ASSUME NEW m \in S, c \in sub[m], m # c PROVE p \in sub[m]
  <2>1. t.parent[c] \in sub[m]
    BY <1>4, ParentIn
  <2> QED
    BY <1>1, <2>1
<1>5. Above(S, sub, c) = Above(S, sub, p) \cup {c}
  BY <1>1, <1>3, <1>4 DEF Above
<1> QED
  BY <1>1, <1>2, <1>5 DEF c

\* On the way down, what the number of black nodes above gains the height loses.
LEMMA SameSum ==
  ASSUME NEW t, NEW S, NEW R, NEW sub, Strict(R), Shape(t, S, R, sub),
         NEW bh, Heights(t, S, bh, 0, "left")
  PROVE  \A n, m \in S : Cardinality(BlackAbove(t, S, sub, n)) + bh[n]
                           = Cardinality(BlackAbove(t, S, sub, m)) + bh[m]
<1> DEFINE Sum(n) == Cardinality(BlackAbove(t, S, sub, n)) + bh[n]
<1>1. /\ S \subseteq Nodes /\ S \subseteq Null /\ 0 \notin S /\ IsFiniteSet(S) /\ sub[0] = {}
  BY TopFacts
<1>2. bh \in [Null -> Nat] /\ \A n \in S, s \in Sides : HeightAt(t, bh, 0, "left", n, s)
  BY DEF Heights
<1>3. \A n \in S : /\ IsFiniteSet(BlackAbove(t, S, sub, n))
                   /\ Cardinality(BlackAbove(t, S, sub, n)) \in Nat
  <2> SUFFICES ASSUME NEW n \in S
               PROVE  /\ IsFiniteSet(BlackAbove(t, S, sub, n))
                      /\ Cardinality(BlackAbove(t, S, sub, n)) \in Nat
    OBVIOUS
  <2>1. BlackAbove(t, S, sub, n) \in SUBSET S
    BY DEF BlackAbove, Above
  <2> QED
    BY <1>1, <2>1, FS_Subset, FS_CardinalityType
<1>4. ASSUME NEW p \in S, NEW s \in Sides, t[s][p] # 0
      PROVE  t[s][p] \in S /\ Sum(t[s][p]) = Sum(p)
  <2> DEFINE c == t[s][p]
  <2>1. c \in S /\ c \notin Above(S, sub, p) /\ Above(S, sub, c) = Above(S, sub, p) \cup {c}
    BY <1>4, AboveChild
  <2>2. bh[p] = bh[c] + Blk(t, c)
    <3>1. Short(p, s, 0, "left") = 0
      BY <1>1 DEF Short
    <3>2. bh[c] \in Nat /\ bh[p] \in Nat /\ Blk(t, c) \in Nat
      BY <1>1, <1>2, <2>1 DEF Blk
    <3>3. bh[p] = bh[c] + Blk(t, c) + 0
      BY <1>2, <3>1 DEF HeightAt
    <3> QED
      BY <3>2, <3>3
  <2>3. bh[c] \in Nat /\ bh[p] \in Nat
    BY <1>1, <1>2, <2>1
  <2> HIDE DEF c
  <2>4. CASE t.red[c]
    <3>1. BlackAbove(t, S, sub, c) = BlackAbove(t, S, sub, p)
      BY <2>1, <2>4 DEF BlackAbove
    <3>2. Blk(t, c) = 0
      BY <2>4 DEF Blk
    <3> QED
      BY <2>1, <2>2, <2>3, <3>1, <3>2 DEF c
  <2>5. CASE ~t.red[c]
    <3>1. /\ BlackAbove(t, S, sub, c) = BlackAbove(t, S, sub, p) \cup {c}
          /\ c \notin BlackAbove(t, S, sub, p)
      BY <2>1, <2>5 DEF BlackAbove
    <3>2. Cardinality(BlackAbove(t, S, sub, c)) = Cardinality(BlackAbove(t, S, sub, p)) + 1
      BY <1>3, <3>1, FS_AddElement
    <3>3. Blk(t, c) = 1
      BY <1>1, <2>1, <2>5 DEF Blk
    <3> QED
      BY <1>3, <2>1, <2>2, <2>3, <3>2, <3>3 DEF c
  <2> QED
    BY <2>4, <2>5
<1> DEFINE G == {m \in S : \A k \in sub[m] : Sum(k) = Sum(m)}
<1>5. S \subseteq G
  <2>1. ASSUME NEW m \in S, \A s \in Sides : t[s][m] \in G \cup {0} PROVE m \in G
    <3> SUFFICES ASSUME NEW k \in sub[m] PROVE Sum(k) = Sum(m)
      OBVIOUS
    <3> HIDE DEF Sum
    <3>1. CASE k = m
      BY <3>1
    <3>2. CASE k # m
      <4>1. sub[m] = {m} \cup sub[t["left"][m]] \cup sub[t["right"][m]]
        BY DEF Shape, Below
      <4>2. PICK s \in Sides : k \in sub[t[s][m]]
        BY <3>2, <4>1 DEF Sides
      <4>3. t[s][m] # 0 /\ t[s][m] \in G
        BY <1>1, <2>1, <4>2
      <4>4. Sum(t[s][m]) = Sum(m)
        BY <1>4, <4>3
      <4> QED
        BY <4>2, <4>3, <4>4
    <3> QED
      BY <3>1, <3>2
  <2> HIDE DEF G
  <2> QED
    BY <2>1, TreeInduction
<1>6. ASSUME NEW n \in S PROVE Sum(n) = Sum(t.top)
  <2> HIDE DEF Sum
  <2>1. t.top \in S \cup {0} /\ (t.top = 0 <=> S = {}) /\ sub[t.top] = S
    BY TopFacts
  <2>2. t.top \in G
    BY <1>5, <2>1
  <2> QED
    BY <2>1, <2>2
<1> HIDE DEF G
<1> QED
  BY <1>6

\* A red-black tree is what the walks take for a sound one.
LEMMA GoodIsSound ==
  ASSUME NEW t, NEW S, NEW R, Strict(R), GoodTree(t, S, R)
  PROVE  /\ Subtree(t, t.top) = S
         /\ ~IsRed(t, t.top) /\ (t.top # 0 => t.parent[t.top] = 0)
         /\ \A n \in S, side \in Sides :
              t[side][n] # 0 => /\ t.parent[t[side][n]] = n
                                /\ ~(t.red[n] /\ t.red[t[side][n]])
         /\ \A n \in S : \A m \in Subtree(t, t.left[n]) : m \in S /\ <<m, n>> \in R
         /\ \A n \in S : \A m \in Subtree(t, t.right[n]) : m \in S /\ <<n, m>> \in R
         /\ \A n, m \in {k \in S : t.left[k] = 0 \/ t.right[k] = 0} :
              BlackHeight(t, n) = BlackHeight(t, m)
<1>1. PICK sub : Shape(t, S, R, sub)
  BY DEF GoodTree
<1>2. PICK bh : Heights(t, S, bh, 0, "left")
  BY DEF GoodTree
<1>3. Reds(t, S, 0, 0) /\ ~IsRed(t, t.top)
  BY DEF GoodTree
<1>4. /\ S \subseteq Nodes /\ 0 \notin S /\ t \in Tree /\ sub[t.top] = S /\ t.top \in S \cup {0}
      /\ sub[0] = {}
  BY <1>1, TopFacts
<1>5. t["left"] = t.left /\ t["right"] = t.right
  BY <1>4, TreeType
<1>6. "left" \in Sides /\ "right" \in Sides
  BY DEF Sides
<1>7. Subtree(t, t.top) = S
  BY <1>1, <1>4, SubtreeIs
<1>8. t.top # 0 => t.parent[t.top] = 0
  BY <1>1 DEF Shape
<1>9. ASSUME NEW n \in S, NEW side \in Sides, t[side][n] # 0
      PROVE  t.parent[t[side][n]] = n /\ ~(t.red[n] /\ t.red[t[side][n]])
  <2>1. t.parent[t[side][n]] = n
    BY <1>1, <1>9, ChildIn
  <2>2. ~(t.red[n] /\ t.red[t[side][n]])
    BY <1>3, <1>4, <1>9 DEF Reds
  <2> QED
    BY <2>1, <2>2
<1>10. ASSUME NEW n \in S, NEW s \in Sides, NEW m \in Subtree(t, t[s][n])
       PROVE  m \in S /\ Aside(R, s, m, n)
  <2>1. t[s][n] \in S \cup {0}
    BY <1>1, ChildIn
  <2>2. Subtree(t, t[s][n]) = sub[t[s][n]]
    BY <1>1, <2>1, SubtreeIs
  <2>3. sub[t[s][n]] \subseteq S
    BY <1>1, ShapeFacts
  <2>4. \A k \in sub[t[s][n]] : Aside(R, s, k, n)
    BY <1>1 DEF Shape, Child
  <2> QED
    BY <2>2, <2>3, <2>4
<1>11. ASSUME NEW n \in S, NEW m \in Subtree(t, t.left[n]) PROVE m \in S /\ <<m, n>> \in R
  BY <1>5, <1>6, <1>10 DEF Aside
<1>12. ASSUME NEW n \in S, NEW m \in Subtree(t, t.right[n]) PROVE m \in S /\ <<n, m>> \in R
  BY <1>5, <1>6, <1>10 DEF Aside
<1>13. ASSUME NEW n \in S PROVE BlackHeight(t, n) = Cardinality(BlackAbove(t, S, sub, n))
  <2>1. PathUp(t, n) = Above(S, sub, n)
    BY <1>1, PathUpIs DEF Above
  <2> QED
    BY <2>1 DEF BlackHeight, BlackAbove
<1>14. ASSUME NEW n \in S, t.left[n] = 0 \/ t.right[n] = 0 PROVE bh[n] = 0
  <2>1. PICK s \in Sides : t[s][n] = 0
    BY <1>5, <1>6, <1>14
  <2>2. Short(n, s, 0, "left") = 0 /\ Blk(t, 0) = 0
    BY <1>4 DEF Short, Blk
  <2> QED
    BY <1>2, <2>1, <2>2 DEF Heights, HeightAt
<1>15. ASSUME NEW n \in S, NEW m \in S, t.left[n] = 0 \/ t.right[n] = 0,
              t.left[m] = 0 \/ t.right[m] = 0
       PROVE  BlackHeight(t, n) = BlackHeight(t, m)
  <2>1. bh[n] = 0 /\ bh[m] = 0
    BY <1>14, <1>15
  <2>2. Cardinality(BlackAbove(t, S, sub, n)) + bh[n] = Cardinality(BlackAbove(t, S, sub, m)) + bh[m]
    BY <1>1, <1>2, SameSum
  <2>3. /\ Cardinality(BlackAbove(t, S, sub, n)) \in Nat
        /\ Cardinality(BlackAbove(t, S, sub, m)) \in Nat
    <3>1. IsFiniteSet(S)
      BY <1>1, TopFacts
    <3>2. BlackAbove(t, S, sub, n) \in SUBSET S /\ BlackAbove(t, S, sub, m) \in SUBSET S
      BY DEF BlackAbove, Above
    <3> QED
      BY <3>1, <3>2, FS_Subset, FS_CardinalityType
  <2>4. Cardinality(BlackAbove(t, S, sub, n)) = Cardinality(BlackAbove(t, S, sub, m))
    BY <2>1, <2>2, <2>3
  <2> QED
    BY <1>13, <2>4
<1> QED
  BY <1>3, <1>7, <1>8, <1>9, <1>11, <1>12, <1>15
-----------------------------------------------------------------------------
(* The tree of the timers.                                                 *)

\* The order of the timers, as a relation.
TimerOrder(when) == {p \in Nodes \X Nodes : Earlier(when, p[1], p[2])}

LEMMA MomentsAre == Moments \subseteq Nat /\ 0 \in Moments
  BY TimerAssumption DEF Moments

LEMMA OrderIs ==
  ASSUME NEW when \in [Nodes -> Moments]
  PROVE  /\ Strict(TimerOrder(when))
         /\ \A a, b \in Nodes : <<a, b>> \in TimerOrder(when) <=> Earlier(when, a, b)
         /\ \A a, b \in Nodes : a # b => Earlier(when, a, b) \/ Earlier(when, b, a)
<1>1. \A n \in Nodes : n \in Nat /\ when[n] \in Nat
  BY MomentsAre, NodeFacts
<1>2. \A a, b \in Nodes : <<a, b>> \in TimerOrder(when) <=> Earlier(when, a, b)
  BY DEF TimerOrder
<1>3. \A a \in Nodes : ~Earlier(when, a, a)
  BY <1>1 DEF Earlier
<1>4. \A a, b, c \in Nodes : Earlier(when, a, b) /\ Earlier(when, b, c) => Earlier(when, a, c)
  BY <1>1 DEF Earlier
<1>5. \A a, b \in Nodes : a # b => Earlier(when, a, b) \/ Earlier(when, b, a)
  BY <1>1 DEF Earlier
<1> QED
  BY <1>2, <1>3, <1>4, <1>5 DEF Strict

\* Only the order among its nodes matters to a tree.
LEMMA OrderInTree ==
  ASSUME NEW t, NEW S, NEW R, NEW Q, Strict(R), GoodTree(t, S, R),
         \A a, b \in S : <<a, b>> \in R => <<a, b>> \in Q
  PROVE  GoodTree(t, S, Q)
<1>1. PICK sub : Shape(t, S, R, sub)
  BY DEF GoodTree
<1>2. ASSUME NEW n \in S, NEW s \in Sides PROVE Child(t, S, Q, sub, n, s)
  <2>1. Child(t, S, R, sub, n, s)
    BY <1>1 DEF Shape
  <2>2. sub[t[s][n]] \subseteq S
    BY <1>1, ShapeFacts
  <2>3. \A m \in sub[t[s][n]] : Aside(Q, s, m, n)
    BY <2>1, <2>2 DEF Child, Aside
  <2> QED
    BY <2>1, <2>3 DEF Child
<1>3. Shape(t, S, Q, sub)
  BY <1>1, <1>2 DEF Shape
<1> QED
  BY <1>3 DEF GoodTree

LEMMA EmptyGood ==
  ASSUME NEW R
  PROVE  GoodTree(EmptyTree(Nodes), {}, R)
<1> DEFINE t == EmptyTree(Nodes)
           sub == [n \in Null |-> {}]
           bh == [n \in Null |-> 0]
<1>1. t \in Tree /\ t.top = 0
  BY NodeFacts DEF EmptyTree, Tree
<1>2. 0 \in Null /\ sub \in [Null -> SUBSET {}] /\ sub[0] = {}
  BY NodeFacts
<1>3. bh \in [Null -> Nat] /\ bh[0] = 0
  BY <1>2
<1> HIDE DEF t, sub, bh
<1>4. Shape(t, {}, R, sub)
  BY <1>1, <1>2 DEF Shape
<1>5. Heights(t, {}, bh, 0, "left")
  BY <1>3 DEF Heights
<1>6. Reds(t, {}, 0, 0) /\ ~IsRed(t, t.top)
  BY <1>1 DEF Reds, IsRed
<1> QED
  BY <1>4, <1>5, <1>6 DEF GoodTree, t

LEMMA AddGood ==
  ASSUME NEW t, NEW S, NEW when \in [Nodes -> Moments], GoodTree(t, S, TimerOrder(when)),
         NEW rv \in Nodes, rv \notin S, NEW at \in Moments
  PROVE  GoodTree(TreeInsert(t, rv, {n \in S : Earlier([when EXCEPT ![rv] = at], rv, n)}),
                  S \cup {rv}, TimerOrder([when EXCEPT ![rv] = at]))
<1> DEFINE w == [when EXCEPT ![rv] = at]
           R == TimerOrder(when)
           Q == TimerOrder(w)
           later == {n \in S : Earlier(w, rv, n)}
<1>1. w \in [Nodes -> Moments] /\ \A n \in Nodes : n # rv => w[n] = when[n]
  OBVIOUS
<1> HIDE DEF w
<1>2. S \subseteq Nodes
  BY DEF GoodTree, Shape
<1>3. /\ Strict(R)
      /\ \A a, b \in Nodes : <<a, b>> \in R <=> Earlier(when, a, b)
  BY OrderIs
<1>4. /\ Strict(Q)
      /\ \A a, b \in Nodes : <<a, b>> \in Q <=> Earlier(w, a, b)
      /\ \A a, b \in Nodes : a # b => Earlier(w, a, b) \/ Earlier(w, b, a)
  BY <1>1, OrderIs
<1> HIDE DEF R, Q
<1>5. \A a, b \in S : <<a, b>> \in R => <<a, b>> \in Q
  BY <1>1, <1>2, <1>3, <1>4 DEF Earlier
<1>6. GoodTree(t, S, Q)
  BY <1>3, <1>5, OrderInTree DEF R
<1>7. \A k \in S : Aside(Q, Way(later, k), rv, k)
  BY <1>2, <1>4 DEF Aside, Way
<1> HIDE DEF later
<1>8. GoodTree(TreeInsert(t, rv, later), S \cup {rv}, Q)
  BY <1>4, <1>6, <1>7, TreeInsertGood
<1> QED
  BY <1>8 DEF Q, w, later

LEMMA RemoveGood ==
  ASSUME NEW t, NEW S, NEW when \in [Nodes -> Moments], GoodTree(t, S, TimerOrder(when)),
         NEW n \in S
  PROVE  GoodTree(Set(TreeRemove(t, n), "red", n, FALSE), S \ {n},
                  TimerOrder([when EXCEPT ![n] = 0]))
<1> DEFINE w == [when EXCEPT ![n] = 0]
           R == TimerOrder(when)
           Q == TimerOrder(w)
           u == Set(TreeRemove(t, n), "red", n, FALSE)
<1>1. w \in [Nodes -> Moments] /\ \A m \in Nodes : m # n => w[m] = when[m]
  BY MomentsAre
<1> HIDE DEF w
<1>2. S \subseteq Nodes
  BY DEF GoodTree, Shape
<1>3. /\ Strict(R)
      /\ \A a, b \in Nodes : <<a, b>> \in R <=> Earlier(when, a, b)
  BY OrderIs
<1>4. \A a, b \in Nodes : <<a, b>> \in Q <=> Earlier(w, a, b)
  BY <1>1, OrderIs
<1> HIDE DEF Q
<1>5. GoodTree(u, S \ {n}, R)
  BY <1>3, TreeRemoveGood
<1> HIDE DEF R, u
<1>6. \A a, b \in S \ {n} : <<a, b>> \in R => <<a, b>> \in Q
  BY <1>1, <1>2, <1>3, <1>4 DEF Earlier
<1>7. GoodTree(u, S \ {n}, Q)
  BY <1>3, <1>5, <1>6, OrderInTree
<1> QED
  BY <1>7 DEF Q, w, u

\* The first timer in the tree.
LEMMA FirstTimer ==
  ASSUME NEW t, NEW S, NEW when \in [Nodes -> Moments], GoodTree(t, S, TimerOrder(when))
  PROVE  /\ S \subseteq Nodes /\ t \in Tree /\ (t.top = 0 <=> S = {})
         /\ t.top # 0 => TreeFirst(t) \in S /\ \A k \in S : when[TreeFirst(t)] <= when[k]
<1>1. /\ Strict(TimerOrder(when))
      /\ \A a, b \in Nodes : <<a, b>> \in TimerOrder(when) <=> Earlier(when, a, b)
  BY OrderIs
<1>2. PICK sub : Shape(t, S, TimerOrder(when), sub)
  BY DEF GoodTree
<1>3. S \subseteq Nodes /\ t \in Tree /\ (t.top = 0 <=> S = {})
  BY <1>1, <1>2, TopFacts
<1>4. ASSUME t.top # 0
      PROVE  TreeFirst(t) \in S /\ \A k \in S : when[TreeFirst(t)] <= when[k]
  <2>1. /\ TreeFirst(t) \in S
        /\ \A k \in S : k # TreeFirst(t) => <<TreeFirst(t), k>> \in TimerOrder(when)
    BY <1>1, <1>4, TreeFirstIs
  <2> DEFINE f == TreeFirst(t)
  <2> HIDE DEF f
  <2>2. f \in S /\ \A k \in S : k # f => Earlier(when, f, k)
    BY <1>1, <1>3, <2>1 DEF f
  <2>3. ASSUME NEW k \in S PROVE when[f] <= when[k]
    <3>1. f \in Nodes /\ k \in Nodes
      BY <1>3, <2>2
    <3>2. when[k] \in Nat /\ when[f] \in Nat
      BY <3>1, MomentsAre
    <3> QED
      BY <2>2, <3>2 DEF Earlier
  <2> QED
    BY <2>2, <2>3 DEF f
<1> QED
  BY <1>3, <1>4

\* The only node of a tree is on its left edge.
LEMMA EdgeOfOne ==
  ASSUME NEW t, NEW n, NEW R, Strict(R), GoodTree(t, {n}, R)
  PROVE  OnLeftEdge(t, n)
<1>1. PICK sub : Shape(t, {n}, R, sub)
  BY DEF GoodTree
<1>2. t.top = n /\ n # 0
  BY <1>1, TopFacts
<1>3. t.parent[n] = 0
  BY <1>1, <1>2 DEF Shape
<1>4. PathUp(t, n) \subseteq {n}
  BY <1>1, PathUpIs
<1> QED
  BY <1>3, <1>4 DEF OnLeftEdge
-----------------------------------------------------------------------------
(* The inductive invariant.                                                *)

\* The tree is a red-black tree of the timers that are armed.
InTree == GoodTree(timer_tree, armed, TimerOrder(timeout))

\* The lists, and the timer or idle function that runs, which is in none.
Lists ==
  /\ Inj(recycled_timeouts) /\ ToSet(recycled_timeouts) \cap armed = {}
  /\ pc = "timer" => running \in Nodes /\ running \notin armed \cup ToSet(recycled_timeouts)
  /\ pc = "idle" => running \in Idles

IdlesKnown == idles # <<>> => has_idle

Memory == TypeOK /\ InTree /\ Lists /\ IdlesKnown
IInv   == Memory /\ PublishedIsArmed /\ NoFutileWait

LEMMA InitMemory == Init => IInv
<1> SUFFICES ASSUME Init PROVE IInv
  OBVIOUS
<1>1. timer_tree.top = 0 /\ timer_tree = EmptyTree(Nodes) /\ 0 \in Moments /\ 0 \in 0 .. MaxOps
  BY MomentsAre, TimerAssumption DEF Init, EmptyTree
<1>2. timeout \in [Nodes -> Moments]
  BY <1>1 DEF Init
<1>3. 0 \in 0 .. MaxTimers + MaxIdles
  BY TimerAssumption
<1>4. TypeOK
  <2>1. /\ recycled_timeouts \in Seq(Nodes) /\ idles \in Seq(Idles)
        /\ recycled_idles \in Seq(Idles)
    BY DEF Init
  <2>2. timer_tree.top \in {0} \cup Nodes /\ pc \in Places /\ armed \subseteq Nodes
    BY <1>1 DEF Init, Places
  <2>3. /\ has_idle \in BOOLEAN /\ has_timeout \in BOOLEAN /\ initialised \in BOOLEAN
        /\ woken \in BOOLEAN
    BY DEF Init
  <2>4. /\ published \in Moments /\ last_dispatch \in Moments /\ ops \in 0 .. MaxOps
        /\ running \in 0 .. MaxTimers + MaxIdles
    BY <1>1, <1>3 DEF Init
  <2> QED
    BY <1>2, <2>1, <2>2, <2>3, <2>4 DEF TypeOK
<1>5. InTree
  BY EmptyGood DEF Init, InTree
<1>6. Lists
  BY EmptyList DEF Init, Lists
<1>7. PublishedIsArmed /\ NoFutileWait /\ IdlesKnown
  BY DEF Init, PublishedIsArmed, NoFutileWait, IdlesKnown
<1> QED
  BY <1>4, <1>5, <1>6, <1>7 DEF IInv, Memory

LEMMA LeastIs ==
  ASSUME NEW S \in SUBSET Nat, S # {}
  PROVE  Least(S) \in S
  BY SmallestExists DEF Least

\* A structure for a new timer is in no use.
LEMMA NextTimerIs ==
  ASSUME TypeOK, Lists, CanAdd, NEW rest,
         rest = IF recycled_timeouts = <<>> THEN <<>> ELSE Tail(recycled_timeouts)
  PROVE  /\ NextTimer \in Nodes /\ NextTimer \notin armed
         /\ pc = "timer" => NextTimer # running
         /\ rest \in Seq(Nodes) /\ Inj(rest)
         /\ ToSet(rest) \subseteq ToSet(recycled_timeouts) /\ NextTimer \notin ToSet(rest)
<1>1. recycled_timeouts \in Seq(Nodes)
  BY DEF TypeOK
<1>2. CASE recycled_timeouts # <<>>
  <2>1. /\ rest \in Seq(Nodes) /\ Head(recycled_timeouts) \in Nodes
        /\ ToSet(recycled_timeouts) = {Head(recycled_timeouts)} \cup ToSet(rest)
        /\ Inj(rest) /\ Head(recycled_timeouts) \notin ToSet(rest)
    BY <1>1, <1>2, TailList DEF Lists
  <2>2. NextTimer = Head(recycled_timeouts)
    BY <1>2 DEF NextTimer
  <2> QED
    BY <2>1, <2>2 DEF Lists
<1>3. CASE recycled_timeouts = <<>>
  <2>1. Nodes \ TimersInUse \in SUBSET Nat /\ Nodes \ TimersInUse # {}
    BY <1>3, NodeFacts DEF CanAdd
  <2>2. NextTimer \in Nodes \ TimersInUse
    BY <1>3, <2>1, LeastIs DEF NextTimer
  <2>3. rest = <<>>
    BY <1>3
  <2> QED
    BY <1>3, <2>2, <2>3, EmptyList DEF TimersInUse
<1> QED
  BY <1>2, <1>3

LEMMA NextIdleIs ==
  ASSUME TypeOK, recycled_idles # <<>> \/ Idles \ IdlesInUse # {}
  PROVE  /\ (IF recycled_idles # <<>> THEN Head(recycled_idles)
             ELSE Least(Idles \ IdlesInUse)) \in Idles
         /\ (IF recycled_idles = <<>> THEN <<>> ELSE Tail(recycled_idles)) \in Seq(Idles)
<1>1. recycled_idles \in Seq(Idles)
  BY DEF TypeOK
<1>2. CASE recycled_idles # <<>>
  BY <1>1, <1>2, TailList
<1>3. CASE recycled_idles = <<>>
  <2>1. Idles \ IdlesInUse \in SUBSET Nat /\ Idles \ IdlesInUse # {}
    BY <1>3 DEF Idles
  <2>2. Least(Idles \ IdlesInUse) \in Idles \ IdlesInUse
    BY <2>1, LeastIs
  <2> QED
    BY <1>3, <2>2
<1> QED
  BY <1>2, <1>3

\* What the program does leaves the pass where it is.
LEMMA Operates ==
  ASSUME TypeOK, Operate
  PROVE  /\ pc' = pc /\ pc \in Places /\ running' = running /\ woken' = woken
         /\ last_dispatch' = last_dispatch /\ ops' \in 0 .. MaxOps
         /\ pc = "fds" => ops' # 0
<1>1. ops \in Nat /\ MaxOps \in Nat /\ ops <= MaxOps
  BY TimerAssumption DEF TypeOK
<1>2. ops' = ops \/ (ops < MaxOps /\ ops' = ops + 1)
  BY DEF Operate
<1>3. pc = "fds" => ops' = ops + 1
  BY DEF Operate
<1> QED
  BY <1>1, <1>2, <1>3 DEF Operate, TypeOK, passVars

LEMMA AddTimerMemory ==
  ASSUME Memory, Operate, CanAdd, NEW at \in Moments, add_timer(at), UNCHANGED idleVars
  PROVE  Memory'
<1> DEFINE rv   == NextTimer
           when == [timeout EXCEPT ![rv] = at]
           tree == TreeInsert(timer_tree, rv, {n \in armed : Earlier(when, rv, n)})
<1>0. TypeOK /\ InTree /\ Lists /\ IdlesKnown
  BY DEF Memory
<1>1. /\ timeout' = when /\ timer_tree' = tree /\ armed' = armed \cup {rv}
      /\ recycled_timeouts' = IF recycled_timeouts = <<>> THEN <<>> ELSE Tail(recycled_timeouts)
      /\ IF OnLeftEdge(tree, rv) THEN Publish(at) ELSE UNCHANGED publicVars
  BY DEF add_timer
<1>2. /\ rv \in Nodes /\ rv \notin armed
      /\ pc = "timer" => rv # running
      /\ recycled_timeouts' \in Seq(Nodes) /\ Inj(recycled_timeouts')
      /\ ToSet(recycled_timeouts') \subseteq ToSet(recycled_timeouts)
      /\ rv \notin ToSet(recycled_timeouts')
  BY <1>0, <1>1, NextTimerIs
<1>3. timeout \in [Nodes -> Moments]
  BY <1>0 DEF TypeOK
<1>4. GoodTree(tree, armed \cup {rv}, TimerOrder(when))
  BY <1>0, <1>2, <1>3, AddGood DEF InTree
<1>5. when \in [Nodes -> Moments]
  BY <1>2, <1>3
<1> HIDE DEF rv, when, tree
<1>6. InTree'
  BY <1>1, <1>4 DEF InTree
<1>7. timer_tree' \in Tree /\ armed' \subseteq Nodes
  BY <1>1, <1>4, <1>5, FirstTimer
<1>8. has_timeout' \in BOOLEAN /\ initialised' \in BOOLEAN /\ published' \in Moments
  BY <1>0, <1>1 DEF Publish, publicVars, TypeOK
<1>9. /\ pc' = pc /\ pc \in Places /\ running' = running /\ woken' = woken
      /\ last_dispatch' = last_dispatch /\ ops' \in 0 .. MaxOps
  BY <1>0, Operates
<1>10. TypeOK'
  BY <1>0, <1>1, <1>2, <1>5, <1>7, <1>8, <1>9 DEF TypeOK, Tree, Null, idleVars
<1>11. Lists'
  BY <1>0, <1>1, <1>2, <1>9 DEF Lists
<1>12. IdlesKnown'
  BY <1>0 DEF IdlesKnown, idleVars
<1> QED
  BY <1>6, <1>10, <1>11, <1>12 DEF Memory

\* A timer is taken out of the tree.
LEMMA UnlinkMemory ==
  ASSUME TypeOK, InTree, NEW n \in armed, unlink_timer(n)
  PROVE  /\ InTree' /\ timer_tree'.top \in {0} \cup Nodes /\ armed' \subseteq Nodes
         /\ timeout' \in [Nodes -> Moments] /\ armed' = armed \ {n} /\ n \in Nodes
         /\ timer_tree'.top = 0 <=> armed' = {}
         /\ timer_tree'.top # 0 =>
              TreeFirst(timer_tree') \in armed'
<1>1. n \in Nodes /\ timeout \in [Nodes -> Moments]
  BY DEF TypeOK
<1>2. /\ timer_tree' = Set(TreeRemove(timer_tree, n), "red", n, FALSE)
      /\ timeout' = [timeout EXCEPT ![n] = 0] /\ armed' = armed \ {n}
  BY DEF unlink_timer
<1>3. timeout' \in [Nodes -> Moments]
  BY <1>1, <1>2, MomentsAre
<1>4. GoodTree(Set(TreeRemove(timer_tree, n), "red", n, FALSE), armed \ {n},
               TimerOrder([timeout EXCEPT ![n] = 0]))
  BY <1>1, RemoveGood DEF InTree
<1>5. GoodTree(timer_tree', armed', TimerOrder(timeout'))
  BY <1>2, <1>4
<1>6. /\ armed' \subseteq Nodes /\ timer_tree' \in Tree
      /\ timer_tree'.top = 0 <=> armed' = {}
      /\ timer_tree'.top # 0 => TreeFirst(timer_tree') \in armed'
  BY <1>3, <1>5, FirstTimer
<1>7. timer_tree'.top \in {0} \cup Nodes
  BY <1>6 DEF Tree, Null
<1> QED
  BY <1>1, <1>2, <1>3, <1>5, <1>6, <1>7 DEF InTree

LEMMA RemoveTimerMemory ==
  ASSUME Memory, NEW n \in Nodes, RemoveTimer(n)
  PROVE  Memory'
<1>0. TypeOK /\ InTree /\ Lists /\ IdlesKnown
  BY DEF Memory
<1>1. /\ pc' = pc /\ pc \in Places /\ running' = running /\ woken' = woken
      /\ last_dispatch' = last_dispatch /\ ops' \in 0 .. MaxOps
  BY <1>0, Operates DEF RemoveTimer
<1>2. UNCHANGED idleVars
  BY DEF RemoveTimer
<1>3. CASE UNCHANGED <<timerVars, publicVars>>
  <2>1. TypeOK'
    BY <1>0, <1>1, <1>2, <1>3 DEF TypeOK, idleVars, timerVars, publicVars
  <2>2. InTree' /\ Lists' /\ IdlesKnown'
    BY <1>0, <1>1, <1>2, <1>3 DEF InTree, Lists, IdlesKnown, idleVars, timerVars
  <2> QED
    BY <2>1, <2>2 DEF Memory
<1>4. CASE /\ n \in armed /\ unlink_timer(n) /\ remove_publishes(n)
           /\ UNCHANGED recycled_timeouts
  <2>1. /\ InTree' /\ timer_tree'.top \in {0} \cup Nodes /\ armed' \subseteq Nodes
        /\ timeout' \in [Nodes -> Moments] /\ armed' = armed \ {n}
        /\ timer_tree'.top # 0 => TreeFirst(timer_tree') \in armed'
    BY <1>0, <1>4, UnlinkMemory
  <2>2. has_timeout' \in BOOLEAN /\ initialised' \in BOOLEAN /\ published' \in Moments
    <3>1. has_timeout \in BOOLEAN /\ initialised \in BOOLEAN /\ published \in Moments
      BY <1>0 DEF TypeOK
    <3>2. CASE published # timeout[n]
      BY <1>4, <3>1, <3>2 DEF remove_publishes, publicVars
    <3>3. CASE published = timeout[n] /\ timer_tree'.top = 0
      BY <1>4, <3>1, <3>3 DEF remove_publishes
    <3>4. CASE published = timeout[n] /\ timer_tree'.top # 0
      <4>1. timeout'[TreeFirst(timer_tree')] \in Moments
        BY <2>1, <3>4
      <4> QED
        BY <1>4, <3>1, <3>4, <4>1 DEF remove_publishes
    <3> QED
      BY <3>2, <3>3, <3>4
  <2>3. TypeOK'
    BY <1>0, <1>1, <1>2, <1>4, <2>1, <2>2 DEF TypeOK, idleVars
  <2>4. Lists' /\ IdlesKnown'
    BY <1>0, <1>1, <1>2, <1>4, <2>1 DEF Lists, IdlesKnown, idleVars
  <2> QED
    BY <2>1, <2>3, <2>4 DEF Memory
<1> QED
  BY <1>3, <1>4 DEF RemoveTimer

LEMMA AddIdleMemory ==
  ASSUME Memory, AddIdle
  PROVE  Memory'
<1>0. TypeOK /\ InTree /\ Lists /\ IdlesKnown
  BY DEF Memory
<1>1. /\ pc' = pc /\ pc \in Places /\ running' = running /\ woken' = woken
      /\ last_dispatch' = last_dispatch /\ ops' \in 0 .. MaxOps
  BY <1>0, Operates DEF AddIdle
<1> DEFINE rv == IF recycled_idles # <<>> THEN Head(recycled_idles)
                 ELSE Least(Idles \ IdlesInUse)
<1>2. /\ rv \in Idles
      /\ (IF recycled_idles = <<>> THEN <<>> ELSE Tail(recycled_idles)) \in Seq(Idles)
  BY <1>0, NextIdleIs DEF AddIdle
<1>3. /\ idles' = Append(idles, rv) /\ has_idle' = TRUE
      /\ recycled_idles' = IF recycled_idles = <<>> THEN <<>> ELSE Tail(recycled_idles)
      /\ UNCHANGED <<timerVars, publicVars>>
  BY DEF AddIdle
<1> HIDE DEF rv
<1>4. idles' \in Seq(Idles) /\ recycled_idles' \in Seq(Idles)
  <2>1. idles \in Seq(Idles)
    BY <1>0 DEF TypeOK
  <2> QED
    BY <1>2, <1>3, <2>1
<1>5. TypeOK'
  BY <1>0, <1>1, <1>3, <1>4 DEF TypeOK, timerVars, publicVars
<1>6. InTree' /\ Lists' /\ IdlesKnown'
  BY <1>0, <1>1, <1>3 DEF InTree, Lists, IdlesKnown, timerVars
<1> QED
  BY <1>5, <1>6 DEF Memory

LEMMA RemoveIdleMemory ==
  ASSUME Memory, NEW i \in Idles, RemoveIdle(i)
  PROVE  Memory'
<1>0. TypeOK /\ InTree /\ Lists /\ IdlesKnown
  BY DEF Memory
<1>1. /\ pc' = pc /\ pc \in Places /\ running' = running /\ woken' = woken
      /\ last_dispatch' = last_dispatch /\ ops' \in 0 .. MaxOps
  BY <1>0, Operates DEF RemoveIdle
<1>2. UNCHANGED <<timerVars, publicVars>> /\ UNCHANGED has_idle
  BY DEF RemoveIdle, idleVars
<1>3. /\ idles' \in Seq(Idles) /\ recycled_idles' \in Seq(Idles)
      /\ idles' # <<>> => idles # <<>>
  <2>1. idles \in Seq(Idles) /\ recycled_idles \in Seq(Idles)
    BY <1>0 DEF TypeOK
  <2>2. CASE UNCHANGED idleVars
    BY <2>1, <2>2 DEF idleVars
  <2>3. CASE /\ i \in ToSet(idles) /\ idles' = unlinked(idles, i)
             /\ recycled_idles' = <<i>> \o recycled_idles
    <3> DEFINE k == CHOOSE j \in DOMAIN idles : idles[j] = i
    <3>1. k \in 1 .. Len(idles)
      BY <2>1, <2>3 DEF ToSet
    <3> HIDE DEF k
    <3>2. idles' = SubSeq(idles, 1, k - 1) \o SubSeq(idles, k + 1, Len(idles))
      BY <2>3 DEF unlinked, RemoveAt, k
    <3>3. SubSeq(idles, 1, k - 1) \in Seq(Idles) /\ SubSeq(idles, k + 1, Len(idles)) \in Seq(Idles)
      BY <2>1, <3>1
    <3>4. idles' \in Seq(Idles)
      BY <3>2, <3>3
    <3>5. recycled_idles' \in Seq(Idles)
      BY <2>1, <2>3, ConsList
    <3>6. idles # <<>>
      BY <2>3, EmptyList
    <3> QED
      BY <3>4, <3>5, <3>6
  <2> QED
    BY <2>2, <2>3 DEF RemoveIdle
<1>4. TypeOK'
  BY <1>0, <1>1, <1>2, <1>3 DEF TypeOK, timerVars, publicVars
<1>5. InTree' /\ Lists' /\ IdlesKnown'
  BY <1>0, <1>1, <1>2, <1>3 DEF InTree, Lists, IdlesKnown, timerVars
<1> QED
  BY <1>4, <1>5 DEF Memory

LEMMA PollMemory ==
  ASSUME Memory, NEW at \in Instants, NEW expired \in BOOLEAN, Poll(at, expired)
  PROVE  Memory'
<1>0. TypeOK /\ InTree /\ Lists /\ IdlesKnown
  BY DEF Memory
<1>1. at \in Moments
  BY TimerAssumption
<1>2. TypeOK'
  BY <1>0, <1>1 DEF Poll, TypeOK, timerVars, idleVars, publicVars, Places
<1>3. InTree' /\ Lists' /\ IdlesKnown'
  BY <1>0 DEF Poll, InTree, Lists, IdlesKnown, timerVars, idleVars
<1> QED
  BY <1>2, <1>3 DEF Memory

LEMMA PassMemory ==
  ASSUME Memory, Pass
  PROVE  Memory'
<1>0. TypeOK /\ InTree /\ Lists /\ IdlesKnown
  BY DEF Memory
<1>1. \A n \in Nodes \cup Idles \cup {0} : n \in 0 .. MaxTimers + MaxIdles
  BY TimerAssumption DEF Nodes, Idles
<1>2. CASE FdsDone
  <2>1. TypeOK'
    BY <1>0, <1>2 DEF FdsDone, TypeOK, timerVars, idleVars, publicVars, Places
  <2>2. InTree' /\ Lists' /\ IdlesKnown'
    BY <1>0, <1>2 DEF FdsDone, InTree, Lists, IdlesKnown, timerVars, idleVars
  <2> QED
    BY <2>1, <2>2 DEF Memory
<1>3. CASE RunIdle
  <2>1. idles \in Seq(Idles) /\ idles # <<>>
    BY <1>0, <1>3 DEF TypeOK, RunIdle
  <2>2. Head(idles) \in Idles /\ Tail(idles) \in Seq(Idles)
    BY <2>1, TailList
  <2>3. TypeOK'
    BY <1>0, <1>1, <1>3, <2>2 DEF RunIdle, TypeOK, timerVars, publicVars, Places
  <2>4. InTree' /\ Lists' /\ IdlesKnown'
    BY <1>0, <1>3, <2>1, <2>2 DEF RunIdle, InTree, Lists, IdlesKnown, timerVars
  <2> QED
    BY <2>3, <2>4 DEF Memory
<1>4. CASE IdleReturns
  <2>1. <<running>> \o recycled_idles \in Seq(Idles)
    <3>1. running \in Idles /\ recycled_idles \in Seq(Idles)
      BY <1>0, <1>4 DEF Lists, TypeOK, IdleReturns
    <3> QED
      BY <3>1, ConsList
  <2>2. TypeOK'
    BY <1>0, <1>1, <1>4, <2>1 DEF IdleReturns, TypeOK, timerVars, publicVars, Places
  <2>3. InTree' /\ Lists' /\ IdlesKnown'
    BY <1>0, <1>4 DEF IdleReturns, InTree, Lists, IdlesKnown, timerVars
  <2> QED
    BY <2>2, <2>3 DEF Memory
<1>5. CASE IdlesDone
  <2>1. TypeOK'
    BY <1>0, <1>5 DEF IdlesDone, TypeOK, timerVars, publicVars, Places
  <2>2. InTree' /\ Lists' /\ IdlesKnown'
    BY <1>0, <1>5 DEF IdlesDone, InTree, Lists, IdlesKnown, timerVars
  <2> QED
    BY <2>1, <2>2 DEF Memory
<1>6. CASE FireTimer
  <2> DEFINE min == TreeFirst(timer_tree)
  <2>1. /\ pc = "timers" /\ timer_tree.top # 0 /\ unlink_timer(min) /\ running' = min
        /\ pc' = "timer" /\ last_dispatch' = last_dispatch /\ woken' = woken /\ ops' = ops
        /\ UNCHANGED <<recycled_timeouts, idleVars, publicVars>>
    BY <1>6 DEF FireTimer
  <2>2. min \in armed
    <3>1. timeout \in [Nodes -> Moments]
      BY <1>0 DEF TypeOK
    <3> QED
      BY <1>0, <2>1, <3>1, FirstTimer DEF InTree
  <2> HIDE DEF min
  <2>3. /\ InTree' /\ timer_tree'.top \in {0} \cup Nodes /\ armed' \subseteq Nodes
        /\ timeout' \in [Nodes -> Moments] /\ armed' = armed \ {min} /\ min \in Nodes
    BY <1>0, <2>1, <2>2, UnlinkMemory
  <2>4. TypeOK'
    BY <1>0, <1>1, <2>1, <2>3 DEF TypeOK, idleVars, publicVars, Places
  <2>5. Lists' /\ IdlesKnown'
    BY <1>0, <2>1, <2>2, <2>3 DEF Lists, IdlesKnown, idleVars
  <2> QED
    BY <2>3, <2>4, <2>5 DEF Memory
<1>7. CASE TimerReturns
  <2>1. /\ pc = "timer" /\ pc' = "timers" /\ running' = 0
        /\ recycled_timeouts' = <<running>> \o recycled_timeouts
        /\ UNCHANGED <<timer_tree, timeout, armed, idleVars, publicVars, last_dispatch,
                       woken, ops>>
    BY <1>7 DEF TimerReturns
  <2>2. /\ running \in Nodes /\ running \notin armed /\ running \notin ToSet(recycled_timeouts)
        /\ recycled_timeouts \in Seq(Nodes) /\ Inj(recycled_timeouts)
    BY <1>0, <2>1 DEF Lists, TypeOK
  <2>3. /\ recycled_timeouts' \in Seq(Nodes) /\ Inj(recycled_timeouts')
        /\ ToSet(recycled_timeouts') = {running} \cup ToSet(recycled_timeouts)
    BY <2>1, <2>2, ConsList
  <2>4. TypeOK'
    BY <1>0, <1>1, <2>1, <2>3 DEF TypeOK, idleVars, publicVars, Places
  <2>5. InTree' /\ Lists' /\ IdlesKnown'
    BY <1>0, <2>1, <2>2, <2>3 DEF InTree, Lists, IdlesKnown, idleVars
  <2> QED
    BY <2>4, <2>5 DEF Memory
<1>8. CASE EndPass
  <2>1. has_timeout' \in BOOLEAN /\ initialised' \in BOOLEAN /\ published' \in Moments
    <3>1. CASE timer_tree.top = 0
      BY <1>0, <1>8, <3>1 DEF EndPass, TypeOK
    <3>2. CASE timer_tree.top # 0
      <4>1. timeout \in [Nodes -> Moments] /\ armed \subseteq Nodes
        BY <1>0 DEF TypeOK
      <4>2. timeout[TreeFirst(timer_tree)] \in Moments
        BY <1>0, <3>2, <4>1, FirstTimer DEF InTree
      <4> QED
        BY <1>8, <3>2, <4>2 DEF EndPass, Publish
    <3> QED
      BY <3>1, <3>2
  <2>2. /\ pc' = "outside" /\ ops' = 0
        /\ UNCHANGED <<timerVars, idleVars, last_dispatch, running, woken>>
    BY <1>8 DEF EndPass
  <2>3. ops' \in 0 .. MaxOps /\ pc' \in Places
    BY <2>2, TimerAssumption DEF Places
  <2>4. TypeOK'
    BY <1>0, <2>1, <2>2, <2>3 DEF TypeOK, timerVars, idleVars
  <2>5. InTree' /\ Lists' /\ IdlesKnown'
    BY <1>0, <2>2 DEF InTree, Lists, IdlesKnown, timerVars, idleVars
  <2> QED
    BY <2>4, <2>5 DEF Memory
<1> QED
  BY <1>2, <1>3, <1>4, <1>5, <1>6, <1>7, <1>8 DEF Pass

LEMMA LaterIsMoment ==
  ASSUME NEW millis \in Delays, millis_later(millis) \in Timeouts
  PROVE  millis_later(millis) \in Moments
  BY TimerAssumption

LEMMA NextMemory ==
  ASSUME Memory, Next
  PROVE  Memory'
<1>1. CASE Program
  <2>1. ASSUME NEW at \in Timeouts, AddTimer(at) PROVE Memory'
    <3>1. at \in Moments
      BY TimerAssumption
    <3> QED
      BY <2>1, <3>1, AddTimerMemory DEF AddTimer
  <2>2. ASSUME NEW millis \in Delays, AddTimerMillis(millis) PROVE Memory'
    BY <2>2, LaterIsMoment, AddTimerMemory DEF AddTimerMillis
  <2> QED
    BY <1>1, <2>1, <2>2, RemoveTimerMemory, AddIdleMemory, RemoveIdleMemory DEF Program
<1>2. CASE Expire
  <2>1. PICK now, at \in Instants : Expires(now, at)
    BY <1>2 DEF Expire
  <2>2. Poll(at, ~has_idle /\ ~Clamped(now))
    BY <2>1 DEF Expires
  <2>3. (~has_idle /\ ~Clamped(now)) \in BOOLEAN
    OBVIOUS
  <2> QED
    BY <2>2, <2>3, PollMemory
<1>3. CASE Ready
  <2>1. PICK at \in Instants : Poll(at, FALSE)
    BY <1>3 DEF Ready
  <2>2. FALSE \in BOOLEAN
    OBVIOUS
  <2> QED
    BY <2>1, <2>2, PollMemory, Zenon
<1> QED
  BY <1>1, <1>2, <1>3, PassMemory DEF Next
-----------------------------------------------------------------------------
(* How long poll waits.                                                    *)

LEMMA Divides ==
  ASSUME NEW a \in Nat, NEW F \in Nat, F > 0
  PROVE  /\ a \div F \in Int /\ a % F \in Nat /\ a % F < F
         /\ a = (a \div F) * F + (a % F)
<1> DEFINE q == a \div F
           r == a % F
<1>1. q \in Int /\ q * F <= a /\ a < q * F + F
  <2>1. a \div F \in Int
    OBVIOUS
  <2>2. (a \div F) * F <= a
    OBVIOUS
  <2>3. a < (a \div F) * F + F
    OBVIOUS
  <2> QED
    BY <2>1, <2>2, <2>3
<1>2. r = a - F * q
  OBVIOUS
<1> HIDE DEF q, r
<1>3. q * F \in Int /\ F * q \in Int
  BY <1>1
<1>4. F * q = q * F
  BY <1>1
<1> DEFINE p == q * F
<1>5. r = a - p /\ p \in Int /\ p <= a /\ a < p + F
  BY <1>1, <1>2, <1>3, <1>4
<1> HIDE DEF p
<1>6. r \in Nat /\ r < F /\ a = p + r
  BY <1>5
<1>7. a = q * F + r
  BY <1>6 DEF p
<1> QED
  BY <1>1, <1>6, <1>7 DEF q, r

LEMMA RoundedUp ==
  ASSUME NEW a \in Nat, NEW F \in Nat, F > 0
  PROVE  /\ (a + F - 1) \div F \in Int /\ a <= ((a + F - 1) \div F) * F
         /\ ((a + F - 1) \div F) * F < a + F
<1> DEFINE b == a + F - 1
           q == b \div F
           r == b % F
<1>1. b \in Nat
  OBVIOUS
<1> HIDE DEF b
<1>2. q \in Int /\ r \in Nat /\ r < F /\ b = q * F + r
  BY <1>1, Divides
<1> HIDE DEF q, r
<1> DEFINE p == q * F
<1>3. p \in Int /\ b = p + r
  BY <1>2
<1> HIDE DEF p
<1>4. a <= p /\ p < a + F
  BY <1>2, <1>3 DEF b
<1> QED
  BY <1>2, <1>4 DEF b, p, q

LEMMA Distributes ==
  ASSUME NEW a \in Int, NEW b \in Int, NEW c \in Int
  PROVE  (a + b) * c = a * c + b * c
  OBVIOUS

\* A quotient that is too small or too large shows in the number.
LEMMA Between ==
  ASSUME NEW q \in Int, NEW r \in Int, NEW F \in Nat, F > 0, 0 <= r, r < F, NEW m \in Nat,
         0 < q * F + r, q * F + r < (m + 1) * F
  PROVE  q \in Nat /\ q <= m
<1>1. q * F \in Int
  OBVIOUS
<1>2. q >= 0
  <2> SUFFICES ASSUME q <= -1 PROVE FALSE
    OBVIOUS
  <2>1. q * F <= (-1) * F
    OBVIOUS
  <2>2. (-1) * F = -F
    OBVIOUS
  <2> QED
    BY <1>1, <2>1, <2>2
<1>3. q <= m
  <2> SUFFICES ASSUME m + 1 <= q PROVE FALSE
    OBVIOUS
  <2>1. (m + 1) * F <= q * F
    OBVIOUS
  <2>2. (m + 1) * F \in Int
    OBVIOUS
  <2> QED
    BY <1>1, <2>1, <2>2
<1> QED
  BY <1>2, <1>3

LEMMA USecIs == USec \in Nat /\ USec > 0
  BY TimerAssumption DEF USec

LEMMA IntIs ==
  /\ INT_MAX \in Nat /\ MSec \in Nat /\ MSec > 0 /\ MSec <= INT_MAX
  /\ MaxWaitSecs \in Nat /\ MaxWaitSecs * MSec \in Nat /\ MaxWaitSecs * MSec <= INT_MAX
<1>1. INT_MAX \in Nat /\ MSec \in Nat /\ MSec > 0 /\ MSec <= INT_MAX
  BY TimerAssumption
<1> DEFINE m == MaxWaitSecs
           r == INT_MAX % MSec
<1>2. m \in Int /\ r \in Nat /\ INT_MAX = m * MSec + r
  BY <1>1, Divides DEF MaxWaitSecs
<1>3. m \in Nat
  BY <1>1 DEF MaxWaitSecs
<1> HIDE DEF m, r
<1>4. m * MSec \in Nat
  BY <1>1, <1>3
<1>5. m * MSec <= INT_MAX
  BY <1>1, <1>2, <1>4
<1> QED
  BY <1>1, <1>3, <1>4, <1>5 DEF m

LEMMA KIs == USecPerMSec \in Nat /\ USecPerMSec > 0
  BY TimerAssumption

\* Products in order.
LEMMA Multiples ==
  ASSUME NEW a \in Int, NEW b \in Int, NEW K \in Nat, K > 0
  PROVE  /\ a * K \in Int /\ b * K \in Int
         /\ a <= b <=> a * K <= b * K
         /\ (a + 1) * K = a * K + K
<1>1. a * K \in Int /\ b * K \in Int
  OBVIOUS
<1>2. a <= b => a * K <= b * K
  OBVIOUS
<1>3. (a + 1) * K = a * K + K
  OBVIOUS
<1>4. (b + 1) * K = b * K + K
  OBVIOUS
<1>5. ASSUME ~(a <= b) PROVE ~(a * K <= b * K)
  <2>1. b + 1 <= a
    BY <1>5
  <2>2. (b + 1) * K <= a * K
    BY <2>1
  <2> QED
    BY <1>1, <1>4, <2>2
<1> QED
  BY <1>1, <1>2, <1>3, <1>5

\* The milliseconds of a time that is not cut short, before they are put in an int:
\* as many as are enough, and not one more.
LEMMA MillisIs ==
  ASSUME NEW ds \in Nat, NEW du \in Nat, du < USec, ds <= MaxWaitSecs, NEW total,
         total = ds * MSec + ((du + USecPerMSec - 1) \div USecPerMSec)
  PROVE  /\ millis_until(du, ds) = as_int(total)
         /\ total \in Nat /\ total <= INT_MAX + MSec /\ total * USecPerMSec \in Int
         /\ ds * USec + du <= total * USecPerMSec
         /\ total * USecPerMSec < ds * USec + du + USecPerMSec
<1> DEFINE K == USecPerMSec
           up == (du + K - 1) \div K
<1>1. K \in Nat /\ K > 0 /\ MSec \in Nat /\ MaxWaitSecs \in Nat /\ INT_MAX \in Nat
  BY KIs, IntIs
<1>2. millis_until(du, ds) = as_int(total)
  BY <1>1 DEF millis_until
<1>3. up \in Int /\ du <= up * K /\ up * K < du + K
  BY <1>1, RoundedUp
<1>4. USec = MSec * K
  BY DEF USec
<1>5. total = ds * MSec + up
  OBVIOUS
<1> HIDE DEF up, K
<1>6. up * K \in Int /\ MSec * K \in Int
  BY <1>1, <1>3
<1>7. up <= MSec
  <2>1. up * K < MSec * K + K
    BY <1>1, <1>3, <1>4, <1>6
  <2>2. (MSec + 1) * K = MSec * K + K /\ (MSec + 1) * K \in Int
    BY <1>1, Multiples
  <2>3. ~((MSec + 1) * K <= up * K)
    BY <1>1, <1>6, <2>1, <2>2
  <2>4. ~(MSec + 1 <= up)
    BY <1>1, <1>3, <2>3, Multiples
  <2> QED
    BY <1>1, <1>3, <2>4
<1>8. up >= 0
  <2> SUFFICES ASSUME up <= -1 PROVE FALSE
    BY <1>3
  <2>1. up * K <= (-1) * K
    BY <1>1, <1>3
  <2>2. (-1) * K = -K
    BY <1>1
  <2> QED
    BY <1>1, <1>3, <1>6, <2>1, <2>2
<1>9. ds * MSec \in Nat /\ ds * MSec <= MaxWaitSecs * MSec
  BY <1>1
<1>10. MaxWaitSecs * MSec \in Nat /\ MaxWaitSecs * MSec <= INT_MAX
  BY IntIs
<1>11. (ds * MSec + up) * K = (ds * MSec) * K + up * K
  BY <1>1, <1>3, <1>9, Distributes
<1>12. (ds * MSec) * K = ds * (MSec * K)
  BY <1>1
<1>13. ds * (MSec * K) \in Int
  BY <1>1, <1>6
<1>14. total \in Nat /\ total <= INT_MAX + MSec
  <2> DEFINE x == ds * MSec
             y == MaxWaitSecs * MSec
  <2>1. x \in Nat /\ y \in Nat /\ x <= y /\ y <= INT_MAX
    BY <1>9, <1>10
  <2>2. total = x + up
    BY <1>5
  <2> HIDE DEF x, y
  <2> QED
    BY <1>1, <1>3, <1>7, <1>8, <2>1, <2>2
<1>15. /\ total * K \in Int /\ ds * USec + du <= total * K
       /\ total * K < ds * USec + du + K
  <2> DEFINE z == ds * USec
             u == up * K
  <2>1. total * K = z + u
    BY <1>4, <1>5, <1>11, <1>12
  <2>2. z \in Int /\ u \in Int
    BY <1>4, <1>6, <1>13
  <2>3. du <= u /\ u < du + K
    BY <1>3
  <2> HIDE DEF z, u
  <2>4. z + du <= z + u /\ z + u < z + du + K /\ z + u \in Int
    BY <1>1, <2>2, <2>3
  <2> QED
    BY <2>1, <2>4 DEF z
<1> QED
  BY <1>2, <1>14, <1>15 DEF K

\* What an int makes of them.
LEMMA IntHolds ==
  ASSUME NEW total \in Nat, total <= INT_MAX + MSec
  PROVE  /\ as_int(total) \in Int
         /\ total <= INT_MAX => as_int(total) = total
         /\ as_int(total) < 0 <=> total > INT_MAX
<1>1. INT_MAX \in Nat /\ MSec \in Nat /\ MSec <= INT_MAX
  BY IntIs
<1> QED
  BY <1>1 DEF as_int

\* The number of milliseconds is the wait, rounded up and then put in an int.
Rounded(now, total) ==
  /\ total \in Nat /\ total <= INT_MAX + MSec /\ total * USecPerMSec \in Int
  /\ PollTimeout(now) = as_int(total)
  /\ published - now <= total * USecPerMSec
  /\ total * USecPerMSec < published - now + USecPerMSec

\* How long poll is told to wait: cut short, or rounded up.
LEMMA WaitIs ==
  ASSUME published \in Moments, has_timeout, ~has_idle, NEW now \in Moments,
         ~(published <= now)
  PROVE  IF Clamped(now) THEN PollTimeout(now) = MaxWaitSecs * MSec
         ELSE \E total : Rounded(now, total)
<1> DEFINE pq == published \div USec
           pr == published % USec
           nq == now \div USec
           nr == now % USec
<1>1. published \in Nat /\ now \in Nat /\ MaxWaitSecs \in Nat
  BY MomentsAre, IntIs
<1>2. USec \in Nat /\ USec > 0
  BY USecIs
<1> DEFINE du == IF pr - nr < 0 THEN pr - nr + USec ELSE pr - nr
           ds == IF pr - nr < 0 THEN pq - nq - 1 ELSE pq - nq
<1>3. PollTimeout(now) = millis_until(du, ds)
  BY DEF PollTimeout
<1>4. /\ pq \in Int /\ pr \in Nat /\ pr < USec /\ published = pq * USec + pr
      /\ nq \in Int /\ nr \in Nat /\ nr < USec /\ now = nq * USec + nr
  BY <1>1, <1>2, Divides
<1> HIDE DEF pq, pr, nq, nr
<1>5. du \in Nat /\ du < USec /\ ds \in Int
  BY <1>2, <1>4
<1>6. ds * USec + du = published - now
  <2>1. (pq - nq) * USec = pq * USec - nq * USec
    BY <1>2, <1>4
  <2>2. (pq - nq - 1) * USec = pq * USec - nq * USec - USec
    BY <1>2, <1>4
  <2>3. pq * USec \in Int /\ nq * USec \in Int
    BY <1>2, <1>4
  <2>4. CASE pr - nr < 0
    BY <1>2, <1>4, <2>2, <2>3, <2>4
  <2>5. CASE ~(pr - nr < 0)
    BY <1>2, <1>4, <2>1, <2>3, <2>5
  <2> QED
    BY <2>4, <2>5
<1> HIDE DEF du, ds
<1> DEFINE far == (MaxWaitSecs + 1) * USec
<1>7. far \in Int /\ ds * USec \in Int
  BY <1>1, <1>2, <1>5
<1>8. Clamped(now) <=> ds * USec + du >= far
  BY <1>6 DEF Clamped
<1>9. CASE Clamped(now)
  <2>1. ds > MaxWaitSecs
    <3> SUFFICES ASSUME ds <= MaxWaitSecs PROVE FALSE
      BY <1>1, <1>5
    <3>1. ds + 1 <= MaxWaitSecs + 1
      BY <1>1, <1>5
    <3>2. (ds + 1) * USec <= far /\ (ds + 1) * USec = ds * USec + USec
      BY <1>1, <1>2, <1>5, <3>1, Multiples
    <3> HIDE DEF far
    <3> QED
      BY <1>2, <1>5, <1>7, <1>8, <1>9, <3>2
  <2> QED
    BY <1>3, <1>9, <2>1 DEF millis_until
<1>10. CASE ~Clamped(now)
  <2>1. 0 < ds * USec + du
    BY <1>1, <1>6
  <2>2. ds * USec + du < far
    BY <1>1, <1>6, <1>7, <1>8, <1>10
  <2>3. ds \in Nat /\ ds <= MaxWaitSecs
    BY <1>1, <1>2, <1>5, <2>1, <2>2, Between
  <2> DEFINE total == ds * MSec + ((du + USecPerMSec - 1) \div USecPerMSec)
  <2>4. /\ millis_until(du, ds) = as_int(total)
        /\ total \in Nat /\ total <= INT_MAX + MSec /\ total * USecPerMSec \in Int
        /\ ds * USec + du <= total * USecPerMSec
        /\ total * USecPerMSec < ds * USec + du + USecPerMSec
    BY <1>5, <2>3, MillisIs
  <2> HIDE DEF total
  <2>5. Rounded(now, total)
    BY <1>3, <1>6, <2>4 DEF Rounded
  <2> QED
    BY <1>10, <2>5
<1> QED
  BY <1>9, <1>10

\* Unless it is cut short, a wait that ends does so when the public timeout is over.
LEMMA WaitIsEnough ==
  ASSUME published \in Moments, has_timeout, ~has_idle, NEW now \in Moments,
         NEW at \in Moments, ~Clamped(now), PollTimeout(now) >= 0,
         at >= now + PollTimeout(now) * USecPerMSec
  PROVE  published <= at
<1>1. published \in Nat /\ now \in Nat /\ at \in Nat
  BY MomentsAre
<1>2. CASE published <= now
  <2>1. PollTimeout(now) = 0
    BY <1>2 DEF PollTimeout
  <2>2. 0 * USecPerMSec = 0
    BY KIs
  <2> QED
    BY <1>1, <1>2, <2>1, <2>2
<1>3. CASE ~(published <= now)
  <2>1. PICK total : Rounded(now, total)
    BY <1>3, WaitIs
  <2> DEFINE w == total * USecPerMSec
  <2>2. /\ total \in Nat /\ total <= INT_MAX + MSec /\ w \in Int
        /\ PollTimeout(now) = as_int(total) /\ published - now <= w
    BY <2>1 DEF Rounded
  <2>3. INT_MAX \in Nat
    BY IntIs
  <2>4. as_int(total) = total
    <3>1. ~(as_int(total) < 0)
      BY <2>2, IntHolds
    <3> QED
      BY <2>2, <2>3, <3>1, IntHolds
  <2>5. at >= now + w
    BY <2>2, <2>4
  <2> HIDE DEF w
  <2> QED
    BY <1>1, <2>2, <2>5
<1> QED
  BY <1>2, <1>3

\* poll is told to wait for ever exactly if the timeout is in the window.
LEMMA WaitEndsThere ==
  ASSUME published \in Moments, has_timeout, NEW now \in Moments
  PROVE  PollTimeout(now) < 0 <=> ~has_idle /\ TooFar(now)
<1> DEFINE K   == USecPerMSec
           d   == published - now
           far == (MaxWaitSecs + 1) * USec
           lim == INT_MAX * K
<1>1. published \in Nat /\ now \in Nat /\ d \in Int /\ INT_MAX \in Nat /\ MaxWaitSecs \in Nat
      /\ K \in Nat /\ K > 0 /\ USec \in Nat
  BY MomentsAre, IntIs, KIs, USecIs
<1>2. far \in Int /\ lim \in Nat
  BY <1>1
<1>3. TooFar(now) <=> lim < d /\ d < far
  BY DEF TooFar
<1>4. Clamped(now) <=> d >= far
  BY DEF Clamped
<1>5. published <= now <=> d <= 0
  BY <1>1
<1> HIDE DEF K, d, far, lim
<1>6. CASE has_idle
  <2>1. PollTimeout(now) = 0
    BY <1>6 DEF PollTimeout
  <2> QED
    BY <1>6, <2>1
<1>7. CASE ~has_idle /\ published <= now
  <2>1. PollTimeout(now) = 0
    BY <1>7 DEF PollTimeout
  <2>2. ~TooFar(now)
    BY <1>1, <1>2, <1>3, <1>5, <1>7
  <2> QED
    BY <2>1, <2>2
<1>8. CASE ~has_idle /\ ~(published <= now) /\ Clamped(now)
  <2>1. PollTimeout(now) = MaxWaitSecs * MSec
    BY <1>8, WaitIs
  <2>2. MaxWaitSecs * MSec \in Nat
    BY IntIs
  <2>3. ~TooFar(now)
    BY <1>1, <1>2, <1>3, <1>4, <1>8
  <2> QED
    BY <2>1, <2>2, <2>3
<1>9. CASE ~has_idle /\ ~(published <= now) /\ ~Clamped(now)
  <2>1. PICK total : Rounded(now, total)
    BY <1>9, WaitIs
  <2> DEFINE w == total * K
  <2>2. /\ total \in Nat /\ total <= INT_MAX + MSec /\ w \in Int
        /\ PollTimeout(now) = as_int(total) /\ d <= w /\ w < d + K
    BY <2>1 DEF Rounded, K, d
  <2>3. PollTimeout(now) < 0 <=> total > INT_MAX
    BY <2>2, IntHolds
  <2>4. /\ total <= INT_MAX <=> w <= lim
        /\ INT_MAX + 1 <= total <=> lim + K <= w
    <3>1. total <= INT_MAX <=> total * K <= INT_MAX * K
      BY <1>1, <2>2, Multiples
    <3>2. INT_MAX + 1 <= total <=> (INT_MAX + 1) * K <= total * K
      BY <1>1, <2>2, Multiples
    <3>3. (INT_MAX + 1) * K = INT_MAX * K + K
      BY <1>1, Multiples
    <3> QED
      BY <3>1, <3>2, <3>3 DEF lim
  <2>5. TooFar(now) <=> lim < d
    BY <1>1, <1>2, <1>3, <1>4, <1>9
  <2>6. total > INT_MAX <=> lim < d
    <3> HIDE DEF w
    <3>1. ASSUME total > INT_MAX PROVE lim < d
      <4>1. lim + K <= w
        BY <1>1, <2>2, <2>4, <3>1
      <4> QED
        BY <1>1, <1>2, <2>2, <4>1
    <3>2. ASSUME lim < d PROVE total > INT_MAX
      <4>1. ~(w <= lim)
        BY <1>1, <1>2, <2>2, <3>2
      <4> QED
        BY <1>1, <2>2, <2>4, <4>1
    <3> QED
      BY <3>1, <3>2
  <2> QED
    BY <1>9, <2>3, <2>5, <2>6
<1> QED
  BY <1>6, <1>7, <1>8, <1>9
-----------------------------------------------------------------------------
(* The public members.                                                     *)

LEMMA AddTimerPublished ==
  ASSUME Memory, PublishedIsArmed, Operate, CanAdd, NEW at \in Moments, add_timer(at)
  PROVE  PublishedIsArmed'
<1> DEFINE rv   == NextTimer
           when == [timeout EXCEPT ![rv] = at]
           tree == TreeInsert(timer_tree, rv, {n \in armed : Earlier(when, rv, n)})
<1>0. TypeOK /\ InTree /\ Lists
  BY DEF Memory
<1>1. /\ timeout' = when /\ timer_tree' = tree /\ armed' = armed \cup {rv}
      /\ IF OnLeftEdge(tree, rv) THEN Publish(at) ELSE UNCHANGED publicVars
  BY DEF add_timer
<1>2. rv \in Nodes /\ rv \notin armed
  BY <1>0, NextTimerIs
<1>3. timeout \in [Nodes -> Moments] /\ armed \subseteq Nodes
  BY <1>0 DEF TypeOK
<1>4. when[rv] = at /\ \A n \in armed : when[n] = timeout[n]
  BY <1>2, <1>3
<1>5. armed = {} => OnLeftEdge(tree, rv)
  <2> SUFFICES ASSUME armed = {} PROVE OnLeftEdge(tree, rv)
    OBVIOUS
  <2>1. GoodTree(tree, armed \cup {rv}, TimerOrder(when))
    BY <1>0, <1>2, <1>3, AddGood DEF InTree
  <2>2. armed \cup {rv} = {rv}
    OBVIOUS
  <2>3. GoodTree(tree, {rv}, TimerOrder(when))
    BY <2>1, <2>2
  <2>4. Strict(TimerOrder(when))
    <3>1. when \in [Nodes -> Moments]
      BY <1>2, <1>3
    <3> QED
      BY <3>1, OrderIs
  <2> HIDE DEF rv, when, tree
  <2> QED
    BY <2>3, <2>4, EdgeOfOne
<1>6. pc' = pc
  BY <1>0, Operates
<1> HIDE DEF rv, when, tree
<1>7. CASE OnLeftEdge(tree, rv)
  BY <1>1, <1>4, <1>7 DEF PublishedIsArmed, Publish
<1>8. CASE ~OnLeftEdge(tree, rv)
  BY <1>1, <1>4, <1>5, <1>6, <1>8 DEF PublishedIsArmed, publicVars
<1> QED
  BY <1>7, <1>8

LEMMA RemoveTimerPublished ==
  ASSUME Memory, PublishedIsArmed, NEW n \in Nodes, RemoveTimer(n)
  PROVE  PublishedIsArmed'
<1>0. TypeOK /\ InTree /\ Lists
  BY DEF Memory
<1>1. pc' = pc
  BY <1>0, Operates DEF RemoveTimer
<1>2. CASE UNCHANGED <<timerVars, publicVars>>
  BY <1>1, <1>2 DEF PublishedIsArmed, timerVars, publicVars
<1>3. CASE n \in armed /\ unlink_timer(n) /\ remove_publishes(n)
  <2>1. armed' = armed \ {n} /\ (timer_tree'.top = 0 <=> armed' = {})
    BY <1>0, <1>3, UnlinkMemory
  <2>2. timer_tree'.top # 0 => TreeFirst(timer_tree') \in armed'
    BY <1>0, <1>3, UnlinkMemory
  <2>3. \A k \in armed : k # n => timeout'[k] = timeout[k]
    BY <1>0, <1>3 DEF unlink_timer, TypeOK
  <2>4. CASE published # timeout[n]
    <3>1. UNCHANGED publicVars
      BY <1>3, <2>4 DEF remove_publishes
    <3>2. CASE pc = "outside" /\ initialised
      <4>1. has_timeout /\ published \in {timeout[k] : k \in armed}
        BY <1>3, <3>2 DEF PublishedIsArmed
      <4>2. PICK k \in armed : published = timeout[k]
        BY <4>1
      <4>3. k \in armed' /\ published = timeout'[k]
        BY <2>1, <2>3, <2>4, <4>2
      <4> QED
        BY <3>1, <4>1, <4>3 DEF PublishedIsArmed, publicVars
    <3>3. CASE ~(pc = "outside" /\ initialised)
      BY <1>1, <3>1, <3>3 DEF PublishedIsArmed, publicVars
    <3> QED
      BY <3>2, <3>3
  <2>5. CASE published = timeout[n] /\ timer_tree'.top = 0
    <3>1. has_timeout' = FALSE
      BY <1>3, <2>5 DEF remove_publishes
    <3>2. armed' = {}
      BY <2>1, <2>5
    <3>3. PublishedIsArmed' <=>
            (pc' = "outside" /\ initialised' =>
               /\ has_timeout' <=> armed' # {}
               /\ has_timeout' => published' \in {timeout'[k] : k \in armed'})
      BY DEF PublishedIsArmed
    <3> QED
      BY <3>1, <3>2, <3>3
  <2>6. CASE published = timeout[n] /\ timer_tree'.top # 0
    <3> DEFINE min == TreeFirst(timer_tree')
    <3>1. min \in armed'
      BY <2>2, <2>6
    <3>2. published' = timeout'[min] /\ has_timeout' = has_timeout /\ initialised' = initialised
      BY <1>3, <2>6 DEF remove_publishes
    <3> HIDE DEF min
    <3> QED
      BY <1>1, <1>3, <2>1, <3>1, <3>2 DEF PublishedIsArmed
  <2> QED
    BY <2>4, <2>5, <2>6
<1> QED
  BY <1>2, <1>3 DEF RemoveTimer

LEMMA NextPublished ==
  ASSUME Memory, PublishedIsArmed, Next
  PROVE  PublishedIsArmed'
<1>0. TypeOK /\ InTree /\ Lists
  BY DEF Memory
<1>1. CASE Program
  <2>1. ASSUME NEW at \in Timeouts, AddTimer(at) PROVE PublishedIsArmed'
    <3>1. at \in Moments
      BY TimerAssumption
    <3> QED
      BY <2>1, <3>1, AddTimerPublished DEF AddTimer
  <2>2. ASSUME NEW millis \in Delays, AddTimerMillis(millis) PROVE PublishedIsArmed'
    BY <2>2, LaterIsMoment, AddTimerPublished DEF AddTimerMillis
  <2>3. CASE AddIdle \/ \E i \in Idles : RemoveIdle(i)
    <3>1. pc' = pc
      BY <1>0, <2>3, Operates DEF AddIdle, RemoveIdle
    <3>2. UNCHANGED <<timerVars, publicVars>>
      BY <2>3 DEF AddIdle, RemoveIdle
    <3> QED
      BY <3>1, <3>2 DEF PublishedIsArmed, timerVars, publicVars
  <2> QED
    BY <1>1, <2>1, <2>2, <2>3, RemoveTimerPublished DEF Program
<1>2. CASE Expire \/ Ready
  <2>1. pc' = "fds"
    BY <1>2 DEF Expire, Ready, Expires, Poll
  <2> QED
    BY <2>1 DEF PublishedIsArmed
<1>3. CASE Pass /\ ~EndPass
  <2>1. pc' # "outside"
    BY <1>3 DEF Pass, FdsDone, RunIdle, IdleReturns, IdlesDone, FireTimer, TimerReturns
  <2> QED
    BY <2>1 DEF PublishedIsArmed
<1>4. CASE EndPass
  <2>1. timeout \in [Nodes -> Moments]
    BY <1>0 DEF TypeOK
  <2>2. timer_tree.top = 0 <=> armed = {}
    BY <1>0, <2>1, FirstTimer DEF InTree
  <2>3. timer_tree.top # 0 => TreeFirst(timer_tree) \in armed
    BY <1>0, <2>1, FirstTimer DEF InTree
  <2>4. armed' = armed /\ timeout' = timeout
    BY <1>4 DEF EndPass, timerVars
  <2>5. CASE timer_tree.top = 0
    BY <1>4, <2>2, <2>4, <2>5 DEF EndPass, PublishedIsArmed
  <2>6. CASE timer_tree.top # 0
    <3>1. has_timeout' = TRUE /\ published' = timeout[TreeFirst(timer_tree)]
      BY <1>4, <2>6 DEF EndPass, Publish
    <3> QED
      BY <2>2, <2>3, <2>4, <2>6, <3>1 DEF PublishedIsArmed
  <2> QED
    BY <2>5, <2>6
<1> QED
  BY <1>1, <1>2, <1>3, <1>4 DEF Next

LEMMA NextWaits ==
  ASSUME Memory, PublishedIsArmed, NoFutileWait, Next
  PROVE  NoFutileWait'
<1>0. TypeOK
  BY DEF Memory
<1>1. CASE Program
  <2>1. Operate
    BY <1>1 DEF Program, AddTimer, AddTimerMillis, RemoveTimer, AddIdle, RemoveIdle
  <2>2. pc' = pc /\ (pc = "fds" => ops' # 0)
    BY <1>0, <2>1, Operates
  <2> QED
    BY <2>2 DEF NoFutileWait
<1>2. CASE Ready
  <2>1. woken' = FALSE
    BY <1>2 DEF Ready, Poll
  <2> QED
    BY <2>1 DEF NoFutileWait
<1>3. CASE Expire
  <2>1. PICK now \in Instants : \E at \in Instants : Expires(now, at)
    BY <1>3 DEF Expire
  <2>2. PICK at \in Instants : Expires(now, at)
    BY <2>1
  <2>3. /\ PollTimeout(now) >= 0 /\ at >= now + PollTimeout(now) * USecPerMSec
        /\ pc = "outside" /\ last_dispatch' = at
        /\ woken' = (~has_idle /\ ~Clamped(now))
        /\ UNCHANGED <<timerVars, publicVars>>
    BY <2>2 DEF Expires, Poll
  <2>4. now \in Moments /\ at \in Moments /\ published \in Moments
    BY <1>0, TimerAssumption DEF TypeOK
  <2> SUFFICES ASSUME woken', initialised' PROVE \E n \in armed : timeout[n] <= at
    BY <2>3 DEF NoFutileWait, due, timerVars
  <2>5. ~has_idle /\ ~Clamped(now) /\ initialised
    BY <2>3 DEF publicVars
  <2>6. has_timeout
    BY <2>3, <2>5 DEF PollTimeout, Infinite
  <2>7. published <= at
    BY <2>3, <2>4, <2>5, <2>6, WaitIsEnough
  <2>8. PICK n \in armed : published = timeout[n]
    BY <2>3, <2>5, <2>6 DEF PublishedIsArmed
  <2> QED
    BY <2>7, <2>8
<1>4. CASE Pass
  <2>1. pc' # "fds"
    BY <1>4 DEF Pass, FdsDone, RunIdle, IdleReturns, IdlesDone, FireTimer, TimerReturns,
                EndPass
  <2> QED
    BY <2>1 DEF NoFutileWait
<1> QED
  BY <1>1, <1>2, <1>3, <1>4 DEF Next
-----------------------------------------------------------------------------
(* What holds of every behaviour.                                          *)

LEMMA NextKeepsIInv == IInv /\ [Next]_vars => IInv'
<1> SUFFICES ASSUME IInv, [Next]_vars PROVE IInv'
  OBVIOUS
<1>1. CASE Next
  BY <1>1, NextMemory, NextPublished, NextWaits DEF IInv
<1>2. CASE UNCHANGED vars
  <2>1. /\ UNCHANGED <<timer_tree, timeout, recycled_timeouts, armed>>
        /\ UNCHANGED <<idles, recycled_idles, has_idle>>
        /\ UNCHANGED <<has_timeout, published, initialised>>
        /\ UNCHANGED <<last_dispatch, pc, running, woken, ops>>
    BY <1>2 DEF vars, timerVars, idleVars, publicVars, passVars
  <2>2. TypeOK'
    BY <2>1 DEF IInv, Memory, TypeOK
  <2>3. InTree' /\ Lists' /\ IdlesKnown'
    BY <2>1 DEF IInv, Memory, InTree, Lists, IdlesKnown
  <2>4. PublishedIsArmed'
    BY <2>1 DEF IInv, PublishedIsArmed
  <2>5. NoFutileWait'
    BY <2>1 DEF IInv, NoFutileWait, due
  <2> QED
    BY <2>2, <2>3, <2>4, <2>5 DEF IInv, Memory
<1> QED
  BY <1>1, <1>2

\* The inductive invariant: the tree is a red-black tree of the armed timers, in
\* the sense of subtrees and black heights, the lists hold nothing twice, and the
\* public members are right between two passes.
THEOREM TimersInductive == Spec => []IInv
  BY InitMemory, NextKeepsIInv, PTL DEF Spec

\* What IInv says of the tree in terms of subtrees and heights is what TreeSound
\* says of the walks up and down.
LEMMA InTreeIsSound ==
  ASSUME TypeOK, InTree
  PROVE  TreeSound
<1> DEFINE t == timer_tree
           S == armed
           R == TimerOrder(timeout)
<1>1. timeout \in [Nodes -> Moments] /\ S \subseteq Nodes
  BY DEF TypeOK
<1>2. Strict(R) /\ \A a, b \in Nodes : <<a, b>> \in R <=> Earlier(timeout, a, b)
  BY <1>1, OrderIs
<1>3. GoodTree(t, S, R)
  BY DEF InTree
<1>4. t["left"] = t.left /\ t["right"] = t.right
  <2>1. t \in Tree
    BY <1>1, FirstTimer DEF InTree
  <2> QED
    BY <2>1, TreeType
<1> HIDE DEF t, S, R
<1>5. Subtree(t, t.top) = S
  BY <1>2, <1>3, GoodIsSound
<1>6. ~IsRed(t, t.top) /\ (t.top # 0 => t.parent[t.top] = 0)
  BY <1>2, <1>3, GoodIsSound
<1>7. ASSUME NEW n \in S, NEW side \in {"left", "right"}, t[side][n] # 0
      PROVE  t.parent[t[side][n]] = n /\ ~(t.red[n] /\ t.red[t[side][n]])
  <2>1. side \in Sides
    BY DEF Sides
  <2> QED
    BY <1>2, <1>3, <1>7, <2>1, GoodIsSound
<1>8. ASSUME NEW n \in S, NEW m \in Subtree(t, t.left[n]) PROVE Earlier(timeout, m, n)
  <2>1. m \in S /\ <<m, n>> \in R
    BY <1>2, <1>3, GoodIsSound
  <2> QED
    BY <1>1, <1>2, <2>1
<1>9. ASSUME NEW n \in S, NEW m \in Subtree(t, t.right[n]) PROVE Earlier(timeout, n, m)
  <2>1. m \in S /\ <<n, m>> \in R
    BY <1>2, <1>3, GoodIsSound
  <2> QED
    BY <1>1, <1>2, <2>1
<1>10. \A n, m \in {k \in S : t.left[k] = 0 \/ t.right[k] = 0} :
         BlackHeight(t, n) = BlackHeight(t, m)
  BY <1>2, <1>3, GoodIsSound
<1>11. SoundTree(t, S, LAMBDA a, b : Earlier(timeout, a, b))
  BY <1>5, <1>6, <1>7, <1>8, <1>9, <1>10 DEF SoundTree
<1> QED
  BY <1>11 DEF TreeSound, t, S

\* Whatever the program and its timer functions add and remove, for any number of
\* timers: the macros keep a red-black tree of exactly the timers that are armed,
\* in order, and the recycled structures are apart from it.
THEOREM TimersAreSound == Spec => []TimersSound
<1>1. ASSUME IInv PROVE TimersSound
  <2>1. TypeOK /\ InTree /\ Lists
    BY <1>1 DEF IInv, Memory
  <2>2. TreeSound
    BY <2>1, InTreeIsSound
  <2>3. Cardinality(ToSet(recycled_timeouts)) = Len(recycled_timeouts)
    <3>1. recycled_timeouts \in Seq(Nodes) /\ Inj(recycled_timeouts)
      BY <2>1 DEF TypeOK, Lists
    <3> QED
      BY <3>1, ListCardinality
  <2>4. RecycledApart
    BY <2>1, <2>3 DEF Lists, RecycledApart
  <2> QED
    BY <2>1, <2>2, <2>4 DEF TimersSound
<1>2. IInv => TimersSound
  BY <1>1
<1> QED
  BY <1>2, TimersInductive, PTL

\* protobuf_c_dispatch_dispatch fires no timer before its moment and none before
\* an earlier one, whatever the timer functions before it did to the tree.
THEOREM TimersFireInTurn == Spec => FiresInTurn
<1> DEFINE InTurn == pc = "timers" /\ pc' = "timer" =>
                       /\ timeout[running'] <= last_dispatch
                       /\ running' \in armed
                       /\ \A n \in armed : timeout[running'] <= timeout[n]
<1>1. ASSUME IInv, [Next]_vars PROVE [InTurn]_vars
  <2> SUFFICES ASSUME pc = "timers", pc' = "timer" PROVE InTurn
    OBVIOUS
  <2>0. TypeOK /\ InTree
    BY <1>1 DEF IInv, Memory
  <2>1. Next
    BY <1>1 DEF vars, passVars
  <2>2. ~Program
    <3>1. ~InProgram
      BY DEF InProgram
    <3> QED
      BY <3>1 DEF Program, AddTimer, AddTimerMillis, RemoveTimer, AddIdle, RemoveIdle,
                  Operate
  <2>3. ~Expire /\ ~Ready
    BY DEF Expire, Expires, Ready, Poll
  <2>4. ~(FdsDone \/ RunIdle \/ IdleReturns \/ IdlesDone \/ TimerReturns \/ EndPass)
    BY DEF FdsDone, RunIdle, IdleReturns, IdlesDone, TimerReturns, EndPass
  <2>5. FireTimer
    BY <2>1, <2>2, <2>3, <2>4 DEF Next, Pass
  <2>6. /\ running' = TreeFirst(timer_tree) /\ due(TreeFirst(timer_tree))
        /\ timer_tree.top # 0
    BY <2>5 DEF FireTimer
  <2>7. timeout \in [Nodes -> Moments]
    BY <2>0 DEF TypeOK
  <2>8. /\ TreeFirst(timer_tree) \in armed
        /\ \A k \in armed : timeout[TreeFirst(timer_tree)] <= timeout[k]
    BY <2>0, <2>6, <2>7, FirstTimer DEF InTree
  <2> QED
    BY <2>6, <2>8 DEF due
<1>2. IInv /\ [Next]_vars => [InTurn]_vars
  BY <1>1
<1> QED
  BY <1>2, TimersInductive, PTL DEF Spec, FiresInTurn

\* Between two passes the public timeout is that of a timer that is armed, if one
\* is, and has_idle is set if there is an idle function.
THEOREM PublicMembersAreRight == Spec => []PublicMembersRight
<1>1. IInv => PublicMembersRight
  BY DEF IInv, Memory, IdlesKnown, IdleNotForgotten, PublicMembersRight
<1> QED
  BY <1>1, TimersInductive, PTL

\* protobuf_c_dispatch_run rounds the wait up: when poll has waited for all of a time
\* that ends, a timer is due.  Its int overflows, and poll waits for ever, exactly for
\* timeouts that are more milliseconds away than an int holds and less than the second
\* at which the wait is cut short.  This is so for any length of a second and of a
\* millisecond, any width of an int, and any times.
THEOREM WaitsAreRight == Spec => []WaitsRight
<1>1. IInv => NoFutileWait
  BY DEF IInv
<1>2. IInv => WaitEnds
  <2> SUFFICES ASSUME IInv, has_timeout, NEW now \in Instants
               PROVE  PollTimeout(now) < 0 <=> ~has_idle /\ TooFar(now)
    BY DEF WaitEnds
  <2>1. published \in Moments /\ now \in Moments
    BY TimerAssumption DEF IInv, Memory, TypeOK
  <2> QED
    BY <2>1, WaitEndsThere
<1>3. IInv => WaitsRight
  BY <1>1, <1>2 DEF WaitsRight
<1> QED
  BY <1>3, TimersInductive, PTL
=============================================================================
