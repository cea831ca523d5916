-------------------------------- MODULE Core --------------------------------
(***************************************************************************)
(* gw/framework: how Core brings the registered services up and down.       *)
(*                                                                          *)
(*  - the main goroutine (Run): StartServices starts and admits the nodes   *)
(*    in start order and sets a collector on each; a failed start is rolled *)
(*    back; then WaitServicesTerminated and ResourceCleanUp;                *)
(*  - the signal goroutine: RootCancel, then TerminateServices, level by    *)
(*    level with a barrier, one terminateNode goroutine per node;           *)
(*  - the operators' goroutines, one per control connection:                *)
(*    StartServiceNode and StopServiceNode.                                 *)
(*                                                                          *)
(* A service is its state word, whether its active part is at work, and its *)
(* one-slot Terminated channel; its lifecycle calls are atomic here but for *)
(* the time Stop and Terminate wait (ServiceLifecycle opens them up).       *)
(***************************************************************************)
EXTENDS Naturals, Sequences

CONSTANTS
    Node,          \* the registered services
    Deps,          \* Deps[n]: what n depends on
    Lvl,           \* Lvl[n]: n's dependency level, as levels computes it
    NumLevels,     \* how many levels there are
    Order,         \* the start order
    Control,       \* the service operators reach the process through (uds)
    Operator,      \* operators' goroutines
    StartMayFail,  \* TRUE: a Start may fail although the service is READY
    SignalFrom,    \* the earliest phase a signal comes in: prep, boot or up
    OperatorFrom   \* the earliest phase an operator acts in: boot or up

ASSUME GraphAssumption ==
    /\ Deps \in [Node -> SUBSET Node]
    /\ NumLevels \in Nat
    /\ Lvl \in [Node -> 0..(NumLevels - 1)]
    /\ \A n \in Node : \A d \in Deps[n] : Lvl[d] > Lvl[n]

ASSUME OrderAssumption ==
    /\ Order \in Seq(Node)
    /\ \A n \in Node : \E i \in 1..Len(Order) : Order[i] = n
    /\ \A i, j \in 1..Len(Order) : i < j => /\ Order[i] # Order[j]
                                            /\ Lvl[Order[i]] >= Lvl[Order[j]]

VARIABLES
    svc,        \* svc[n]: the service's state word
    work,       \* work[n]: its active part is at work
    late,       \* late[n]: its Terminate returned at the deadline, work going on
    report,     \* report[n]: none, sent on Terminated, relayed to termSig, taken
    collector,  \* collector[n]: the collector goroutine was started
    admitted,   \* admitted[n]: the node's admission flag
    abandoned,  \* abandoned[n]: Core stopped waiting for it
    term,       \* term[w][n]: where terminateNode(n) is, for the walk, the rollback
    main,       \* where the main goroutine is
    pos,        \* its position in the start order (boot and rollback)
    signal,     \* where the signal goroutine is
    level,      \* the level its walk is at
    done,       \* the shutdownDone channel: nil, open or closed
    op          \* op[o]: what operator o's goroutine is in the middle of

vars == <<svc, work, late, report, collector, admitted, abandoned, term,
          main, pos, signal, level, done, op>>

Walker == {"walk", "rollback"}

Idle == [at |-> "idle"]

Init ==
    /\ svc = [n \in Node |-> "READY"]
    /\ work = [n \in Node |-> FALSE]
    /\ late = [n \in Node |-> FALSE]
    /\ report = [n \in Node |-> "none"]
    /\ collector = [n \in Node |-> FALSE]
    /\ admitted = [n \in Node |-> FALSE]
    /\ abandoned = [n \in Node |-> FALSE]
    /\ term = [w \in Walker |-> [n \in Node |-> "no"]]
    /\ main = "prep" /\ pos = 1
    /\ signal = "idle" /\ level = 0
    /\ done = "nil"
    /\ op = [o \in Operator |-> Idle]

\* The process is there; its goroutines end with it.
Alive == main \notin {"crashed", "exited"}

-----------------------------------------------------------------------------
(* The services *)

\* What Start does to service n when it succeeds; TRUE for a no-op on RUNNING.
StartOK(n) ==
    \/ svc[n] = "RUNNING" /\ UNCHANGED <<svc, work>>
    \/ /\ svc[n] = "READY"
       /\ svc' = [svc EXCEPT ![n] = "RUNNING"]
       /\ work' = [work EXCEPT ![n] = TRUE]

StartFails(n) == svc[n] \in {"STOPPING", "TERMINATING"} \/ StartMayFail

\* The active part ends: it was cancelled by Stop, Terminate or RootCancel.
WorkEnds(n) ==
    /\ Alive /\ work[n]
    /\ svc[n] \in {"STOPPING", "TERMINATING"} \/ signal # "idle"
    /\ work' = [work EXCEPT ![n] = FALSE]
    /\ svc' = [svc EXCEPT ![n] = IF @ = "STOPPING" THEN "READY" ELSE @]
    /\ UNCHANGED <<late, report, collector, admitted, abandoned, term, main, pos,
                   signal, level, done, op>>

-----------------------------------------------------------------------------
(* terminateNode, for either walker *)

TermAt(w, n, from, to) ==
    Alive /\ term[w][n] = from /\ term' = [term EXCEPT ![w][n] = to]

\* The walk is at n's level, or the rollback is at n.
Reached(w, n) ==
    \/ w = "walk" /\ signal = "walk" /\ Lvl[n] = level
    \/ w = "rollback" /\ main = "rollback" /\ pos > 0 /\ Order[pos] = n

\* Admission is revoked first.
Revoke(w, n) ==
    /\ Reached(w, n) /\ TermAt(w, n, "no", "revoked")
    /\ admitted' = [admitted EXCEPT ![n] = FALSE]
    /\ UNCHANGED <<svc, work, late, report, collector, abandoned, main, pos,
                   signal, level, done, op>>

\* Terminate is called: a no-op on a service that is TERMINATING already.
CallTerminate(w, n) ==
    /\ TermAt(w, n, "revoked", IF svc[n] = "TERMINATING" THEN "waiting" ELSE "ending")
    /\ svc' = [svc EXCEPT ![n] = "TERMINATING"]
    /\ UNCHANGED <<work, late, report, collector, admitted, abandoned, main, pos,
                   signal, level, done, op>>

\* Terminate returns, its report sent: the work ended, or the deadline came.
TerminateReturns(w, n) ==
    /\ TermAt(w, n, "ending", "waiting")
    /\ late' = [late EXCEPT ![n] = work[n]]
    /\ report' = [report EXCEPT ![n] = "sent"]
    /\ UNCHANGED <<svc, work, collector, admitted, abandoned, main, pos, signal,
                   level, done, op>>

\* Terminate panics: the node is abandoned.
TerminatePanics(w, n) ==
    /\ TermAt(w, n, "ending", "done")
    /\ abandoned' = [abandoned EXCEPT ![n] = TRUE]
    /\ UNCHANGED <<svc, work, late, report, collector, admitted, main, pos, signal,
                   level, done, op>>

\* The collector of n moves its report to termSig.
Relay(n) ==
    /\ Alive /\ collector[n] /\ report[n] = "sent"
    /\ report' = [report EXCEPT ![n] = "relayed"]
    /\ UNCHANGED <<svc, work, late, collector, admitted, abandoned, term, main, pos,
                   signal, level, done, op>>

\* terminateNode receives the report.
TakeReport(w, n) ==
    /\ TermAt(w, n, "waiting", "done")
    /\ report[n] = "relayed"
    /\ report' = [report EXCEPT ![n] = "taken"]
    /\ UNCHANGED <<svc, work, late, collector, admitted, abandoned, main, pos, signal,
                   level, done, op>>

\* The report is on its way to a waiting terminateNode.
Coming(n) == report[n] = "relayed" \/ (report[n] = "sent" /\ collector[n])

\* The per-service budget runs out: the node is abandoned.  The budget is in
\* seconds, so a relay under way beats it unless Terminate used it all up.
Abandon(w, n) ==
    /\ TermAt(w, n, "waiting", "done")
    /\ late[n] \/ ~Coming(n)
    /\ abandoned' = [abandoned EXCEPT ![n] = TRUE]
    /\ UNCHANGED <<svc, work, late, report, collector, admitted, main, pos, signal,
                   level, done, op>>

TermStep(w, n) ==
    \/ Revoke(w, n) \/ CallTerminate(w, n) \/ TerminateReturns(w, n)
    \/ TerminatePanics(w, n) \/ TakeReport(w, n) \/ Abandon(w, n)

-----------------------------------------------------------------------------
(* The main goroutine: Run *)

\* StartServices up to the walk: the graph is sealed, shutdownDone is made.
BeginBoot ==
    /\ main = "prep"
    /\ main' = IF Order = <<>> THEN "wait" ELSE "start"
    /\ done' = "open"
    /\ UNCHANGED <<svc, work, late, report, collector, admitted, abandoned, term, pos,
                   signal, level, op>>

\* seal refuses the graph: nothing was started and no channel made.
SealRefused ==
    /\ main = "prep"
    /\ main' = "cleanup"
    /\ UNCHANGED <<svc, work, late, report, collector, admitted, abandoned, term, pos,
                   signal, level, done, op>>

BootStart ==
    /\ main = "start"
    /\ StartOK(Order[pos])
    /\ main' = "admit"
    /\ UNCHANGED <<late, report, collector, admitted, abandoned, term, pos, signal,
                   level, done, op>>

\* The node just started is admitted and gets its collector.
BootAdmit ==
    /\ main = "admit"
    /\ admitted' = [admitted EXCEPT ![Order[pos]] = TRUE]
    /\ collector' = [collector EXCEPT ![Order[pos]] = TRUE]
    /\ pos' = pos + 1
    /\ main' = IF pos = Len(Order) THEN "wait" ELSE "start"
    /\ UNCHANGED <<svc, work, late, report, abandoned, term, signal, level, done, op>>

\* A start fails: rollbackStarted begins with the node started last.
BootFails ==
    /\ main = "start"
    /\ StartFails(Order[pos])
    /\ main' = "rollback"
    /\ pos' = pos - 1
    /\ UNCHANGED <<svc, work, late, report, collector, admitted, abandoned, term, signal,
                   level, done, op>>

RollbackNext ==
    /\ main = "rollback" /\ pos > 0
    /\ term["rollback"][Order[pos]] = "done"
    /\ pos' = pos - 1
    /\ UNCHANGED <<svc, work, late, report, collector, admitted, abandoned, term, main,
                   signal, level, done, op>>

RollbackDone ==
    /\ main = "rollback" /\ pos = 0
    /\ main' = "cleanup"
    /\ UNCHANGED <<svc, work, late, report, collector, admitted, abandoned, term, pos,
                   signal, level, done, op>>

\* Mutant of WaitServicesTerminated: it does not wait.
WaitServicesNot ==
    /\ main = "wait"
    /\ main' = "cleanup"
    /\ UNCHANGED <<svc, work, late, report, collector, admitted, abandoned, term, pos,
                   signal, level, done, op>>

WaitServicesTerminated ==
    /\ main = "wait" /\ done = "closed"
    /\ main' = "cleanup"
    /\ UNCHANGED <<svc, work, late, report, collector, admitted, abandoned, term, pos,
                   signal, level, done, op>>

\* ResourceCleanUp, and the process ends.
ResourceCleanUp ==
    /\ main = "cleanup"
    /\ main' = "exited"
    /\ UNCHANGED <<svc, work, late, report, collector, admitted, abandoned, term, pos,
                   signal, level, done, op>>

MainStep ==
    \/ BeginBoot \/ SealRefused \/ BootStart \/ BootAdmit \/ BootFails
    \/ RollbackNext \/ RollbackDone \/ WaitServicesTerminated \/ ResourceCleanUp

-----------------------------------------------------------------------------
(* The signal goroutine *)

Up == main = "wait"
Booting == main \in {"start", "admit", "rollback"}

\* The signal comes: RootCancel, and TerminateServices begins at level 0.
Signal ==
    /\ signal = "idle"
    /\ \/ Up
       \/ SignalFrom \in {"boot", "prep"} /\ Booting
       \/ SignalFrom = "prep" /\ main = "prep"
    /\ signal' = "walk"
    /\ UNCHANGED <<svc, work, late, report, collector, admitted, abandoned, term, main,
                   pos, level, done, op>>

\* Mutants of NextLevel: teardown is only initiated before the next level; an
\* abandoned node is waited for.
NextLevelNoBarrier ==
    /\ Alive /\ signal = "walk" /\ level < NumLevels
    /\ \A n \in Node : Lvl[n] = level => term["walk"][n] # "no"
    /\ level' = level + 1
    /\ UNCHANGED <<svc, work, late, report, collector, admitted, abandoned, term, main,
                   pos, signal, done, op>>

NextLevelReported ==
    /\ Alive /\ signal = "walk" /\ level < NumLevels
    /\ \A n \in Node : Lvl[n] = level => report[n] = "taken"
    /\ level' = level + 1
    /\ UNCHANGED <<svc, work, late, report, collector, admitted, abandoned, term, main,
                   pos, signal, done, op>>

\* The barrier: every node of the level is through terminateNode.
NextLevel ==
    /\ Alive /\ signal = "walk" /\ level < NumLevels
    /\ \A n \in Node : Lvl[n] = level => term["walk"][n] = "done"
    /\ level' = level + 1
    /\ UNCHANGED <<svc, work, late, report, collector, admitted, abandoned, term, main,
                   pos, signal, done, op>>

\* shutdownDone is closed; closing the nil channel ends the process.
CloseDone ==
    /\ Alive /\ signal = "walk" /\ level = NumLevels
    /\ signal' = "done"
    /\ IF done = "nil" THEN main' = "crashed" /\ UNCHANGED done
                       ELSE done' = "closed" /\ UNCHANGED main
    /\ UNCHANGED <<svc, work, late, report, collector, admitted, abandoned, term, pos,
                   level, op>>

SignalStep == NextLevel \/ CloseDone

-----------------------------------------------------------------------------
(* The operators *)

OperatorMay(o) ==
    /\ op[o] = Idle /\ svc[Control] = "RUNNING"
    /\ Up \/ (OperatorFrom = "boot" /\ Booting)

\* StartServiceNode: Start succeeded, admission follows in a later step.
OpStart(o, n) ==
    /\ OperatorMay(o) /\ StartOK(n)
    /\ op' = [op EXCEPT ![o] = [at |-> "admit", node |-> n]]
    /\ UNCHANGED <<late, report, collector, admitted, abandoned, term, main, pos, signal,
                   level, done>>

OpAdmit(o) ==
    /\ Alive /\ op[o].at = "admit"
    /\ admitted' = [admitted EXCEPT ![op[o].node] = TRUE]
    /\ op' = [op EXCEPT ![o] = Idle]
    /\ UNCHANGED <<svc, work, late, report, collector, abandoned, term, main, pos, signal,
                   level, done>>

\* Mutant of OpRevoke: the service is stopped with its admission standing.
OpRevokeNothing(o, n) ==
    /\ OperatorMay(o)
    /\ op' = [op EXCEPT ![o] = [at |-> "stop", node |-> n]]
    /\ UNCHANGED <<svc, work, late, report, collector, admitted, abandoned, term, main,
                   pos, signal, level, done>>

\* StopServiceNode revokes admission first.
OpRevoke(o, n) ==
    /\ OperatorMay(o)
    /\ admitted' = [admitted EXCEPT ![n] = FALSE]
    /\ op' = [op EXCEPT ![o] = [at |-> "stop", node |-> n]]
    /\ UNCHANGED <<svc, work, late, report, collector, abandoned, term, main, pos, signal,
                   level, done>>

\* Stop: a RUNNING service is STOPPING until its work ends.
OpStop(o) ==
    /\ Alive /\ op[o].at = "stop"
    /\ svc' = [svc EXCEPT ![op[o].node] = IF @ = "RUNNING" THEN "STOPPING" ELSE @]
    /\ op' = [op EXCEPT ![o] = [at |-> "stopping", node |-> op[o].node]]
    /\ UNCHANGED <<work, late, report, collector, admitted, abandoned, term, main, pos,
                   signal, level, done>>

\* Stop returns: the work ended, or the operator's deadline came.
OpReturn(o) ==
    /\ Alive /\ op[o].at = "stopping"
    /\ op' = [op EXCEPT ![o] = Idle]
    /\ UNCHANGED <<svc, work, late, report, collector, admitted, abandoned, term, main,
                   pos, signal, level, done>>

OperatorStep(o) ==
    \/ OpAdmit(o) \/ OpStop(o) \/ OpReturn(o)
    \/ \E n \in Node : OpStart(o, n) \/ OpRevoke(o, n)

-----------------------------------------------------------------------------
\* The process is gone.
Gone == ~Alive /\ UNCHANGED vars

Next ==
    \/ MainStep \/ Signal \/ SignalStep
    \/ \E n \in Node : WorkEnds(n) \/ Relay(n)
    \/ \E w \in Walker, n \in Node : TermStep(w, n)
    \/ \E o \in Operator : OperatorStep(o)
    \/ Gone

Spec == Init /\ [][Next]_vars

\* The scheduler runs every goroutine that can go on; a Terminate returns at
\* its deadline at the latest, as svc.Service asks of it.
FairSpec ==
    /\ Spec
    /\ WF_vars(MainStep) /\ WF_vars(SignalStep)
    /\ \A n \in Node : WF_vars(Relay(n))
    /\ \A w \in Walker, n \in Node : WF_vars(TermStep(w, n))

-----------------------------------------------------------------------------
(* Properties *)

TypeOK ==
    /\ svc \in [Node -> {"READY", "RUNNING", "STOPPING", "TERMINATING"}]
    /\ work \in [Node -> BOOLEAN]
    /\ late \in [Node -> BOOLEAN]
    /\ report \in [Node -> {"none", "sent", "relayed", "taken"}]
    /\ collector \in [Node -> BOOLEAN]
    /\ admitted \in [Node -> BOOLEAN]
    /\ abandoned \in [Node -> BOOLEAN]
    /\ term \in [Walker -> [Node -> {"no", "revoked", "ending", "waiting", "done"}]]
    /\ main \in {"prep", "start", "admit", "wait", "rollback", "cleanup", "exited", "crashed"}
    /\ pos \in 0..(Len(Order) + 1)
    /\ signal \in {"idle", "walk", "done"}
    /\ level \in 0..NumLevels
    /\ done \in {"nil", "open", "closed"}
    /\ op \in [Operator -> {Idle} \cup [at : {"admit", "stop", "stopping"}, node : Node]]

\* Terminate was called on n, by the walk or by the rollback.
Touched(n) == \E w \in Walker : term[w][n] \in {"ending", "waiting", "done"}

\* Core owes n nothing more: its active part ended, or its time was up.
Settled(n) == ~work[n] \/ late[n] \/ abandoned[n]

\* A service is terminated only once everything that depends on it has ended
\* its work or used up its time, also when a signal meets a boot that is still
\* starting services or rolling them back (TerminateServices' barrier,
\* rollbackStarted's order).
DependentsFirst ==
    \A n \in Node : \A d \in Deps[n] : Touched(d) => Settled(n)

\* The clients are closed after the services: no service still at work in its
\* time has its KVDB or SQL client closed under it (Run: "services first,
\* clients second").
ClientsLast == main \in {"cleanup", "exited"} => \A n \in Node : Settled(n)

\* From the moment it is torn down a service is not admitted again
\* (terminateNode: "Admission is revoked FIRST so that no new use can begin
\* while the service is being torn down", core.go:386-387).
TornDownUnadmitted == \A n \in Node : Touched(n) => ~admitted[n]

\* A stopped service stays un-admitted until it is started again
\* (StopServiceNode, core.go:301-303).
StoppedUnadmitted ==
    (\A o \in Operator : op[o] = Idle) =>
        \A n \in Node : svc[n] = "READY" => ~admitted[n]

\* The shutdown never ends the process by closing a channel that was not made
\* ("a graceful in-process shutdown", core_shutdown_signal.go:13-14).
NoCrash == main # "crashed"

\* A boot that failed leaves nothing running once its clients are closed
\* ("A process that will not run should leave nothing running and nothing
\* open", core_run.go:24-25).
FailedBootLeavesNothing ==
    main = "exited" /\ signal = "idle" => \A n \in Node : Settled(n)

\* Once the signal came, Run returns, whatever services fail to report, panic
\* or miss their deadline.
ShutdownCompletes == signal = "walk" ~> main = "exited"
=============================================================================
