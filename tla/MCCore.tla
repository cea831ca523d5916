------------------------------- MODULE MCCore -------------------------------
(***************************************************************************)
(* Small instances of Core for TLC: session (1) and uds (2) registered      *)
(* first, web (3) depending on session.                                     *)
(***************************************************************************)
EXTENDS Core, ServiceLevels

CONSTANTS o1, o2

MCNode == 1..3
MCDeps == <<{}, {}, {1}>>
MCLvl == <<1, 0, 0>>
MCNumLevels == 2
MCOrder == <<1, 2, 3>>

\* The levels and the start order above are the ones levels and StartServices
\* derive from the graph.
ASSUME LevelsAssumption ==
    LET dependents == [j \in MCNode |-> {i \in MCNode : j \in MCDeps[i]}]
    IN  /\ MCLvl = lvl(3, dependents)
        /\ MCNumLevels = Len(levels(3, dependents))
        /\ MCOrder = StartOrder(3, dependents)
=============================================================================
