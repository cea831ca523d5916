---------------------------- MODULE ServiceOrder ----------------------------
(***************************************************************************)
(* The levels and the start order of ServiceLevels, on the graphs that      *)
(* ServiceGraph builds.                                                     *)
(***************************************************************************)
EXTENDS ServiceGraph, ServiceLevels

\* What levels reads of the graph.
Dependents == [j \in DOMAIN dependents |-> {e.node : e \in dependents[j]}]

\* levels puts a node at the length of the longest chain of dependents above
\* it, and the start order holds every node once, each after what it depends
\* on (levels, StartServices).
LevelsOrder ==
    verdict = "sealed" =>
        LET n == Len(nodes)
            l == lvl(n, Dependents)
            order == StartOrder(n, Dependents)
            at(i) == CHOOSE p \in DOMAIN order : order[p] = i
        IN  /\ \A i \in 1..n : l[i] = ChainAbove(n, Dependents, i)
            /\ Len(order) = n /\ ToSet(order) = 1..n
            /\ \A j \in 1..n : \A i \in Dependents[j] : at(j) < at(i)
=============================================================================
