----------------------------- MODULE NamedLocks -----------------------------
(***************************************************************************)
(* What gw/locking promises its callers: mutual exclusion over names.  A   *)
(* name has at most one owner; it is taken only when nobody owns it, given *)
(* back by its owner, and lost only by the owners on an instance that dies. *)
(* Nothing is said of ledgers, proofs or messages: module Locking is the   *)
(* implementation, and is shown to refine this one.                        *)
(***************************************************************************)
EXTENDS Naturals

CONSTANTS
    Instance,   \* processes of the fleet
    Caller,     \* callers of Manager.AcquireDoRelease[All], fleet-wide
    Home,       \* Home[c]: the instance caller c runs on
    Name,       \* lock names
    NoCaller    \* "nobody"

VARIABLES
    owner,      \* owner[n]: the caller holding name n, or NoCaller
    boot        \* boot[i]: the life instance i is in

Init ==
    /\ owner = [n \in Name |-> NoCaller]
    /\ boot = [i \in Instance |-> 1]

Take(c, n) ==
    /\ owner[n] = NoCaller
    /\ owner' = [owner EXCEPT ![n] = c]
    /\ UNCHANGED boot

GiveBack(c, n) ==
    /\ owner[n] = c
    /\ owner' = [owner EXCEPT ![n] = NoCaller]
    /\ UNCHANGED boot

\* Instance i dies: the callers that ran on it hold nothing any more.
Die(i) ==
    /\ boot' = [boot EXCEPT ![i] = @ + 1]
    /\ owner' = [n \in Name |-> IF owner[n] \in {c \in Caller : Home[c] = i}
                                THEN NoCaller ELSE owner[n]]

Next ==
    \/ \E c \in Caller, n \in Name : Take(c, n) \/ GiveBack(c, n)
    \/ \E i \in Instance : Die(i)

Spec == Init /\ [][Next]_<<owner, boot>>
=============================================================================
