------------------------------ MODULE MCTimers ------------------------------
(* Timers with short seconds and milliseconds.                             *)
EXTENDS Timers

Six == 1 .. 6
Inserted(t, n) == TreeInsert(t, n, {m \in Six : n < m})
Removed(t, n)  == Set(TreeRemove(t, n), "red", n, FALSE)
NodesOf(t)     == Subtree(t, t.top)
IsRedBlack(t)  == SoundTree(t, NodesOf(t), LAMBDA a, b : a < b)

\* The trees that eight insertions and removals of six nodes lead to: the removal
\* of a node from them goes through every case of the fixup.
AllTrees ==
  LET Turn(S, k) ==
        S \cup UNION {{Inserted(t, n) : n \in Six \ NodesOf(t)}
                        \cup {Removed(t, n) : n \in NodesOf(t)}
                      : t \in {u \in S : IsRedBlack(u)}}
  IN  FoldLeft(Turn, {EmptyTree(Six)}, [k \in 1 .. 8 |-> k])

\* Each is a red-black tree, and what the macros make of it has one node more or
\* less.
TreesSound ==
  \A t \in AllTrees :
    /\ IsRedBlack(t)
    /\ \A n \in Six :
         IF n \in NodesOf(t) THEN NodesOf(Removed(t, n)) = NodesOf(t) \ {n}
         ELSE NodesOf(Inserted(t, n)) = NodesOf(t) \cup {n}

\* From an empty tree, the macros make only red-black trees of the nodes they are
\* given, of more nodes too than this model has timers.
EveryTreeSound == timer_tree.top = 0 => TreesSound
=============================================================================
