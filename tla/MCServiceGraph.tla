-------------------------- MODULE MCServiceGraph --------------------------
(* A small instance of ServiceGraph and its levels for TLC: three services. *)
EXTENDS ServiceOrder

CONSTANTS s1, s2, s3

Sym == Permutations(Label)

\* Lists of up to two declarations, with one label declared both ways.
MCDepList ==
    {<<>>} \cup {<<e>> : e \in Declaration}
           \cup {<<e, f>> : e, f \in Declaration}

MCOwnList == {<<e>> : e \in Declaration}
=============================================================================
