------------------------------ MODULE MCLogin ------------------------------
(***************************************************************************)
(* A small instance of the logins.  The steps of a verification share no   *)
(* variable with those of a session, so they commute: sessions, their      *)
(* lifetimes and their requests are explored under the app's own login,    *)
(* and Focused leaves lifetimes and requests out where the framework's     *)
(* logins are explored.  There, a second ticket and a second key of the    *)
(* provider are explored one at a time.                                    *)
(***************************************************************************)
EXTENDS Login, TLC

CONSTANTS w1, w2, b1

Focused ==
    \/ offered = OwnKinds
    \/ /\ \A w \in Worker : ~At(w, "fetch")
       /\ \A s \in Session : ttl[s] \in {0, ExpireIn}
       /\ tickets < 2 \/ kid = 1
=============================================================================
