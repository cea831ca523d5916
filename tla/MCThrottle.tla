----------------------------- MODULE MCThrottle -----------------------------
(* Two requests at a time, one on each of two instances. *)
EXTENDS Throttle, TLC

CONSTANTS w1, w2, i1, i2

MCAt == w1 :> i1 @@ w2 :> i2
\* The workers change places, and their instances with them.
Swapped ==
    {p @@ [i \in Instance |-> MCAt[p[CHOOSE w \in Worker : MCAt[w] = i]]] : p \in Permutations(Worker)}
=============================================================================
