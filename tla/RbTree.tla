------------------------------- MODULE RbTree -------------------------------
(***************************************************************************)
(* The red-black tree of gskrbtreemacros.h.  A tree is a record of its top *)
(* and of the four fields the macros use, as functions of the node; node 0 *)
(* is NULL.  The mirrored halves of the macros are one operator that takes *)
(* the side.  Every loop goes up or down a tree, so it has as many turns   *)
(* as there are nodes at most; it stands still once its condition is       *)
(* false.                                                                  *)
(***************************************************************************)
EXTENDS Integers, FiniteSets

EmptyTree(Nodes) ==
  [top    |-> 0,
   left   |-> [n \in Nodes |-> 0], right |-> [n \in Nodes |-> 0],
   parent |-> [n \in Nodes |-> 0], red   |-> [n \in Nodes |-> FALSE]]

Other(side) == IF side = "left" THEN "right" ELSE "left"

\* n->field = v, nothing if n is NULL.
Set(t, field, n, v) == IF n = 0 THEN t ELSE [t EXCEPT ![field][n] = v]

IsRed(t, n) == n # 0 /\ t.red[n]

SideOf(t, p, n) == IF t.left[p] = n THEN "left" ELSE "right"

\* What points down to "old", a child of p or the top, points to "new" instead.
Relink(t, p, old, new) ==
  IF p = 0 THEN [t EXCEPT !.top = new] ELSE Set(t, SideOf(t, p, old), p, new)

Loop(Body(_), While(_), t, start) ==
  LET turns == Cardinality(DOMAIN t.red)
      state[i \in 0 .. turns] ==
        IF i = 0 THEN start
        ELSE LET s == state[i - 1] IN IF While(s) THEN Body(s) ELSE s
  IN  state[turns]

\* GSK_RBTREE_ROTATE_LEFT, for side "left".
Rotate(t, side, x) ==
  LET o  == Other(side)
      y  == t[o][x]
      t1 == Set(Set(t, o, x, t[side][y]), "parent", t[side][y], x)
      t2 == Relink(Set(t1, "parent", y, t.parent[x]), t.parent[x], x, y)
  IN  Set(Set(t2, side, y, x), "parent", x, y)

\* The last node on the way down from n.
Extreme(t, side, n) ==
  Loop(LAMBDA m : t[side][m], LAMBDA m : t[side][m] # 0, t, n)

\* GSK_RBTREE_FIRST_
TreeFirst(t) == IF t.top = 0 THEN 0 ELSE Extreme(t, "left", t.top)

\* GSK_RBTREE_NEXT_ of a node that has a right child: REMOVE asks for no other.
NextBelow(t, n) == Extreme(t, "left", t.right[n])
-----------------------------------------------------------------------------
(* Insertion.                                                              *)

\* One turn of the fixup loop: the parent of s.at is red.
InsertFixupStep(s) ==
  LET t    == s.tree
      p    == t.parent[s.at]
      g    == t.parent[p]
      side == SideOf(t, g, p)
      o    == Other(side)
      y    == t[o][g]
      in   == s.at = t[o][p]            \* an inner grandchild
      t1   == IF in THEN Rotate(t, side, p) ELSE t
      at   == IF in THEN p ELSE s.at
      t2   == Set(Set(t1, "red", t1.parent[at], FALSE), "red", g, TRUE)
  IN  IF IsRed(t, y)
      THEN [tree |-> Set(Set(Set(t, "red", p, FALSE), "red", y, FALSE), "red", g, TRUE),
            at   |-> g]
      ELSE [tree |-> Rotate(t2, o, g), at |-> at]

InsertFixup(t, n) ==
  LET Black(u) == Set(u.tree, "red", u.tree.top, FALSE)
  IN  Black(Loop(InsertFixupStep,
                 LAMBDA u : u.tree.top # u.at /\ IsRed(u.tree, u.tree.parent[u.at]),
                 t, [tree |-> t, at |-> n]))

\* The node below which a node goes that is before those of "later" and after the
\* rest.  Comparators do not hold nodes equal.
InsertPoint(t, later) ==
  LET Down(m) == IF m \in later THEN t.left[m] ELSE t.right[m]
  IN  Loop(Down, LAMBDA m : m # 0 /\ Down(m) # 0, t, t.top)

\* GSK_RBTREE_INSERT_
TreeInsert(t, n, later) ==
  LET last  == InsertPoint(t, later)
      fresh == Set(Set(Set(t, "left", n, 0), "right", n, 0), "parent", n, last)
      side  == IF last \in later THEN "left" ELSE "right"
  IN  IF t.top = 0
      THEN [Set(fresh, "red", n, FALSE) EXCEPT !.top = n]
      ELSE InsertFixup(Set(Set(fresh, side, last, n), "red", n, TRUE), n)
-----------------------------------------------------------------------------
(* Removal.                                                                *)

\* A node with one black too much on its way down is on the given side of xp.
\* A red sibling is rotated away.
SiblingBlack(t, side, xp) ==
  LET w == t[Other(side)][xp]
  IN  IF IsRed(t, w)
      THEN Rotate(Set(Set(t, "red", w, FALSE), "red", xp, TRUE), side, xp)
      ELSE t

\* Of the children of the sibling only the inner one is red: rotate it up.
OuterRed(t, side, w) ==
  IF IsRed(t, t[Other(side)][w]) THEN t
  ELSE Rotate(Set(Set(t, "red", t[side][w], FALSE), "red", w, TRUE), Other(side), w)

\* The outer child of the sibling is red: it takes the black.
Settled(t, side, xp) ==
  LET w == t[Other(side)][xp]
  IN  Rotate(Set(Set(Set(t, "red", w, t.red[xp]), "red", xp, FALSE),
                 "red", t[Other(side)][w], FALSE), side, xp)

\* One turn of the fixup loop: s.x, perhaps NULL below s.nullpar, is black by one
\* too much.
RemoveFixupStep(s) ==
  LET xp   == IF s.x # 0 THEN s.tree.parent[s.x] ELSE s.nullpar
      side == IF s.x = s.tree.left[xp] THEN "left" ELSE "right"
      Ended(t) == [s EXCEPT !.tree = t, !.x = t.top]
      Turn(t, w) ==
        IF ~IsRed(t, t.left[w]) /\ ~IsRed(t, t.right[w])
        THEN [s EXCEPT !.tree = Set(t, "red", w, TRUE), !.x = xp]
        ELSE Ended(Settled(OuterRed(t, side, w), side, xp))
      Black(t) == Turn(t, t[Other(side)][xp])
  IN  Black(SiblingBlack(s.tree, side, xp))

RemoveFixup(t, x, nullpar) ==
  LET Black(u) == Set(u.tree, "red", u.x, FALSE)
  IN  Black(Loop(RemoveFixupStep,
                 LAMBDA u : u.x # u.tree.top /\ ~IsRed(u.tree, u.x),
                 t, [tree |-> t, x |-> x, nullpar |-> nullpar]))

\* y takes the place of z.
TakePlace(t, y, z) ==
  LET t1 == [t EXCEPT !.red[y] = t.red[z], !.left[y] = t.left[z],
                      !.right[y] = t.right[z], !.parent[y] = t.parent[z]]
      t2 == Relink(t1, t1.parent[y], z, y)
  IN  Set(Set(t2, "parent", t2.left[y], y), "parent", t2.right[y], y)

\* Mistake: no fixup when the node that is spliced out was not z itself.
RemoveNeedsFixup_self(t, y, z) == ~t.red[y] /\ y = z

RemoveNeedsFixup(t, y, z) == ~t.red[y]

\* y, which has one child x at most, is spliced out and takes the place of z,
\* unless it is z.
SpliceOut(t, z, y, x) ==
  LET np == IF x # 0 THEN 0 ELSE t.parent[y]
      t1 == Relink(Set(t, "parent", x, t.parent[y]), t.parent[y], y, x)
      t2 == IF y = z THEN t1 ELSE TakePlace(t1, y, z)
  IN  IF RemoveNeedsFixup(t, y, z)
      THEN RemoveFixup(t2, x, IF y # z /\ np = z THEN y ELSE np)
      ELSE t2

\* GSK_RBTREE_REMOVE_: z, or its successor, is spliced out.
TreeRemove(t, z) ==
  LET y  == IF t.left[z] = 0 \/ t.right[z] = 0 THEN z ELSE NextBelow(t, z)
      t1 == SpliceOut(t, z, y, IF t.left[y] # 0 THEN t.left[y] ELSE t.right[y])
  IN  Set(Set(Set(t1, "left", z, 0), "right", z, 0), "parent", z, 0)
-----------------------------------------------------------------------------
(* What a sound tree is.                                                   *)

\* The nodes of S and their children, their parents.
AndChildren(t, S) == (S \cup {t.left[m] : m \in S} \cup {t.right[m] : m \in S}) \ {0}
AndParents(t, S)  == (S \cup {t.parent[m] : m \in S}) \ {0}

\* The nodes in the subtree of n.
Subtree(t, n) ==
  Loop(LAMBDA S : AndChildren(t, S), LAMBDA S : AndChildren(t, S) # S, t, {n} \ {0})

\* The nodes from n up to the top.
PathUp(t, n) ==
  Loop(LAMBDA S : AndParents(t, S), LAMBDA S : AndParents(t, S) # S, t, {n})

BlackHeight(t, n) == Cardinality({m \in PathUp(t, n) : ~t.red[m]})

\* The tree holds exactly the nodes S, in order, with parent pointers that agree
\* with the child pointers, no red child of a red node, and as many black nodes
\* on every way down.
SoundTree(t, S, Before(_, _)) ==
  /\ Subtree(t, t.top) = S
  /\ ~IsRed(t, t.top) /\ (t.top # 0 => t.parent[t.top] = 0)
  /\ \A n \in S :
       /\ \A side \in {"left", "right"} :
            t[side][n] # 0 => /\ t.parent[t[side][n]] = n
                              /\ ~(t.red[n] /\ t.red[t[side][n]])
       /\ \A m \in Subtree(t, t.left[n]) : Before(m, n)
       /\ \A m \in Subtree(t, t.right[n]) : Before(n, m)
  /\ \A n, m \in {k \in S : t.left[k] = 0 \/ t.right[k] = 0} :
       BlackHeight(t, n) = BlackHeight(t, m)
=============================================================================
