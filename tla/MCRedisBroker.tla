---- MODULE MCRedisBroker ----
(***************************************************************************)
(* One subscriber of a topic, and one of two that names the first twice.   *)
(***************************************************************************)
EXTENDS RedisBroker, TLC
CONSTANTS s1, s2, a, b
MCNamed == s1 :> <<a>> @@ s2 :> <<a, b, a>>
====
