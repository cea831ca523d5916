--------------------------- MODULE ServiceLevels ---------------------------
(***************************************************************************)
(* serviceGraph.levels (gw/framework/core_graph.go) as a pure algorithm on  *)
(* a graph of nodes 1..n in registration order, dependents[i] being the     *)
(* nodes that depend on i; and the order StartServices derives from it.     *)
(***************************************************************************)
EXTENDS Naturals, FiniteSetsExt, SequencesExt

\* Mutant of lvl: a node with dependents is at level 1.
lvlFlat(n, dependents) == [i \in 1..n |-> IF dependents[i] = {} THEN 0 ELSE 1]

\* The backward pass: a node sits one step behind its highest dependent.
lvl(n, dependents) ==
    LET l[i \in 1..n] == Max({0} \cup {l[j] + 1 : j \in dependents[i]}) IN l

\* The nodes of level k, in registration order.
LevelNodes(n, l, k) == SelectSeq([i \in 1..n |-> i], LAMBDA i : l[i] = k)

\* The grouping, level 0 first; empty for an empty graph.
levels(n, dependents) ==
    IF n = 0 THEN <<>>
    ELSE LET l == lvl(n, dependents)
         IN  [k \in 1..(Max({l[i] : i \in 1..n}) + 1) |-> LevelNodes(n, l, k - 1)]

\* StartServices: the levels from the deepest to level 0.
StartOrder(n, dependents) == FlattenSeq(Reverse(levels(n, dependents)))

-----------------------------------------------------------------------------
(* Reference definition *)

\* S is a chain of dependents above its least member: each member depends on
\* the next smaller one.
IsChain(S, dependents) ==
    \A i \in S : i = Max(S) \/ Min({j \in S : j > i}) \in dependents[i]

\* The longest chain of dependents above node i.
ChainAbove(n, dependents, i) ==
    Max({Cardinality(S) - 1 : S \in {T \in SUBSET (i..n) :
                                       i \in T /\ IsChain(T, dependents)}})
=============================================================================
