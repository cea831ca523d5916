----------------------------- MODULE MCUpstream -----------------------------
(***************************************************************************)
(* Two processes; two requests at a time, one on each.                     *)
(***************************************************************************)
EXTENDS Upstream, TLC

CONSTANTS i1, i2, w1, w2

MCHome == w1 :> i1 @@ w2 :> i2
=============================================================================
