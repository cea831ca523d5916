-------------------------- MODULE MCBearerSession --------------------------
(***************************************************************************)
(* A small instance of BearerSession for TLC: two requests at once over two *)
(* sessions with room for one, three pairs, one fault.                      *)
(***************************************************************************)
EXTENDS BearerSession, TLC

Workers == Permutations(Worker)
=============================================================================
