----------------------------- MODULE MCLocking -----------------------------
(***************************************************************************)
(* A small instance of Locking for TLC: c1 and c2 share instance A, which   *)
(* may die once; c3 runs on B and asks for c1's names in the opposite order. *)
(***************************************************************************)
EXTENDS Locking

CONSTANTS A, B, c1, c2, c3, x, y

MCHome == [c \in Caller |-> IF c = c3 THEN B ELSE A]
MCAsks == [c \in Caller |-> CASE c = c1 -> {<<x, y>>}
                              [] c = c2 -> {<<x>>}
                              [] OTHER  -> {<<y, x>>}]
MCMaxBoot == [i \in Instance |-> IF i = A THEN 2 ELSE 1]
=============================================================================
