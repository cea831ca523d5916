----------------------------- MODULE MCJobSched -----------------------------
(* Two instances around midnight of the first day of a month. *)
EXTENDS JobSched, TLC

Instances == Permutations(Instance)

MCLists == [minutes |-> <<1, 60>>, hours |-> <<24, 0>>, days |-> <<2, 32>>, weekdays |-> <<1>>]

MCJob == {ListedCronJob("cron", "OncePerApp"),
          [id |-> "mail", kind |-> "oneTime", scope |-> "OncePerApp"],
          [id |-> "disk", kind |-> "oneTime", scope |-> "OncePerInstance"]}
=============================================================================
