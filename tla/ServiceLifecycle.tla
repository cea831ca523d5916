-------------------------- MODULE ServiceLifecycle --------------------------
(***************************************************************************)
(* The lifecycle of one service that owns a run goroutine, the shape the    *)
(* web, jobsched, in-memory throttle, uds and sse services share            *)
(* (svc.Service): Start opens a cycle and spawns run; Stop cancels the      *)
(* cycle's context and waits for run to exit; Terminate does the same for   *)
(* good and reports on the terminated channel.  One goroutine makes the     *)
(* lifecycle calls, one after another ("Lifecycle methods are not safe to   *)
(* call concurrently"); the run goroutine of the cycle runs beside it, and  *)
(* both load and store the atomic state word.  What the cycles do, and the   *)
(* specification, are module ServiceWork.                                    *)
(***************************************************************************)
EXTENDS Naturals

CONSTANTS
    MaxCycles,      \* bound: starts that open a cycle
    MaxTerminates   \* bound: Terminate calls that get to their send (the
                    \* framework makes two at most: shutdown and boot rollback)

ASSUME BoundAssumption == MaxCycles \in Nat /\ MaxTerminates \in 0..2

Cycle == 1..MaxCycles

VARIABLES
    state,      \* the atomic state word
    cycle,      \* cycles opened so far; the current one, 0 before the first
    cancelled,  \* cycles whose context was cancelled
    run,        \* run[k]: where the run goroutine of cycle k is
    pc,         \* where the lifecycle caller is
    prev,       \* prevState of Terminate
    ret,        \* the call that returned last, and how
    sends,      \* values sent on the terminated channel
    collected,  \* the framework's collector received one
    expired     \* history: some Stop returned because its ctx had ended

lifecycleVars == <<state, cycle, cancelled, run, pc, prev, ret, sends, collected, expired>>

LifecycleInit ==
    /\ state = "READY"
    /\ cycle = 0
    /\ cancelled = {}
    /\ run = [k \in Cycle |-> "none"]
    /\ pc = "idle"
    /\ prev = "READY"
    /\ ret = [op |-> "none", ok |-> TRUE]
    /\ sends = 0
    /\ collected = FALSE
    /\ expired = FALSE

-----------------------------------------------------------------------------
(* The lifecycle caller *)

Return(op, ok) == pc' = "idle" /\ ret' = [op |-> op, ok |-> ok]

\* Start while RUNNING is a no-op, in STOPPING or TERMINATING an error.
StartIdle ==
    /\ pc = "idle" /\ state # "READY"
    /\ Return("start", state = "RUNNING")
    /\ UNCHANGED <<state, cycle, cancelled, run, prev, sends, collected, expired>>

\* Start: the step that can fail (bind, probe) fails, and nothing is left.
StartFails ==
    /\ pc = "idle" /\ state = "READY"
    /\ Return("start", FALSE)
    /\ UNCHANGED <<state, cycle, cancelled, run, prev, sends, collected, expired>>

\* Start: fresh context and stopped channel, RUNNING, run spawned.
Start ==
    /\ pc = "idle" /\ state = "READY" /\ cycle < MaxCycles
    /\ cycle' = cycle + 1
    /\ state' = "RUNNING"
    /\ run' = [run EXCEPT ![cycle + 1] = "loop"]
    /\ Return("start", TRUE)
    /\ UNCHANGED <<cancelled, prev, sends, collected, expired>>

\* Stop while READY is a no-op, in STOPPING or TERMINATING an error.
StopIdle ==
    /\ pc = "idle" /\ state # "RUNNING"
    /\ Return("stop", state = "READY")
    /\ UNCHANGED <<state, cycle, cancelled, run, prev, sends, collected, expired>>

Stop ==
    /\ pc = "idle" /\ state = "RUNNING"
    /\ state' = "STOPPING"
    /\ pc' = "stop"
    /\ UNCHANGED <<cycle, cancelled, run, prev, ret, sends, collected, expired>>

\* Terminate on a TERMINATING service returns before the send is armed.
TerminateIdle ==
    /\ pc = "idle" /\ state = "TERMINATING"
    /\ Return("terminate", TRUE)
    /\ UNCHANGED <<state, cycle, cancelled, run, prev, sends, collected, expired>>

\* Terminate: prevState is loaded here and TERMINATING stored in a later step.
Terminate ==
    /\ pc = "idle" /\ state # "TERMINATING" /\ sends < MaxTerminates
    /\ prev' = state
    /\ pc' = "store"
    /\ UNCHANGED <<state, cycle, cancelled, run, ret, sends, collected, expired>>

\* Mutant of AfterStore: a RUNNING service is not waited for.
AfterStoreLeavesRunning(s) == IF s = "STOPPING" THEN "wait" ELSE "send"

\* What Terminate does after the store, by the state it found.
AfterStore(s) ==
    CASE s = "RUNNING"  -> "cancel"
      [] s = "STOPPING" -> "wait"
      [] OTHER          -> "send"

StoreTerminating ==
    /\ pc = "store"
    /\ state' = "TERMINATING"
    /\ pc' = AfterStore(prev)
    /\ ret' = [op |-> "terminate", ok |-> TRUE]
    /\ UNCHANGED <<cycle, cancelled, run, prev, sends, collected, expired>>

\* stop: cancel the cycle's context, then waitStopped.
Cancel ==
    /\ pc \in {"stop", "cancel"}
    /\ cancelled' = cancelled \cup {cycle}
    /\ pc' = IF pc = "stop" THEN "stopWait" ELSE "wait"
    /\ UNCHANGED <<state, cycle, run, prev, ret, sends, collected, expired>>

\* waitStopped of Stop: the cycle's stopped channel is closed.
StopReturns ==
    /\ pc = "stopWait" /\ run[cycle] = "done"
    /\ Return("stop", TRUE)
    /\ UNCHANGED <<state, cycle, cancelled, run, prev, sends, collected, expired>>

\* waitStopped of Stop: ctx ended first.
StopExpires ==
    /\ pc = "stopWait"
    /\ Return("stop", FALSE)
    /\ expired' = TRUE
    /\ UNCHANGED <<state, cycle, cancelled, run, prev, sends, collected>>

\* waitStopped of Terminate, ended by the channel or by the deadline.
TerminateWaited(ok) ==
    /\ pc = "wait"
    /\ ok => run[cycle] = "done"
    /\ pc' = "send"
    /\ ret' = [op |-> "terminate", ok |-> ok]
    /\ UNCHANGED <<state, cycle, cancelled, run, prev, sends, collected, expired>>

\* The terminated channel has one slot.
SlotFree == sends = 0 \/ (sends = 1 /\ collected)

\* The deferred send of Terminate, on every path.
Send ==
    /\ pc = "send" /\ SlotFree
    /\ sends' = sends + 1
    /\ pc' = "idle"
    /\ UNCHANGED <<state, cycle, cancelled, run, prev, ret, collected, expired>>

\* The framework's collector: one receive per service.
Collect ==
    /\ ~collected /\ sends > 0
    /\ collected' = TRUE
    /\ UNCHANGED <<state, cycle, cancelled, run, prev, pc, ret, sends, expired>>

-----------------------------------------------------------------------------
(* The run goroutine of cycle k *)

\* The loop is left: the cycle was cancelled, the root context ended, or the
\* loop ended by itself (the server died).
LeaveLoop(k) ==
    /\ run[k] = "loop"
    /\ run' = [run EXCEPT ![k] = "drain"]
    /\ UNCHANGED <<state, cycle, cancelled, pc, prev, ret, sends, collected, expired>>

\* Mutants of LoadAfterRun: any state becomes READY; READY is never reached.
LoadAfterRunAlways(k) ==
    /\ run[k] = "drain"
    /\ run' = [run EXCEPT ![k] = "toReady"]
    /\ UNCHANGED <<state, cycle, cancelled, pc, prev, ret, sends, collected, expired>>

LoadAfterRunNever(k) ==
    /\ run[k] = "drain"
    /\ run' = [run EXCEPT ![k] = "toClose"]
    /\ UNCHANGED <<state, cycle, cancelled, pc, prev, ret, sends, collected, expired>>

\* The drain closes; transitionAfterRun loads the state.
LoadAfterRun(k) ==
    /\ run[k] = "drain"
    /\ run' = [run EXCEPT ![k] = IF state = "STOPPING" THEN "toReady" ELSE "toClose"]
    /\ UNCHANGED <<state, cycle, cancelled, pc, prev, ret, sends, collected, expired>>

\* transitionAfterRun stores READY.
StoreReady(k) ==
    /\ run[k] = "toReady"
    /\ state' = "READY"
    /\ run' = [run EXCEPT ![k] = "toClose"]
    /\ UNCHANGED <<cycle, cancelled, pc, prev, ret, sends, collected, expired>>

\* close(stopped), and the goroutine is gone.
CloseStopped(k) ==
    /\ run[k] = "toClose"
    /\ run' = [run EXCEPT ![k] = "done"]
    /\ UNCHANGED <<state, cycle, cancelled, pc, prev, ret, sends, collected, expired>>

-----------------------------------------------------------------------------
(* Properties *)

\* A cycle is at work: its loop or its drain runs.
Active(k) == run[k] \in {"loop", "drain"}

\* A report without an error means the active part has ended: nothing the
\* service depends on is used after Terminated fires (svc.Service Terminate).
ReportMeansDown ==
    [][sends' # sends /\ ret.ok => \A k \in Cycle : ~Active(k)]_lifecycleVars

\* TERMINATING is final: neither a late run goroutine nor a later call leaves
\* it ("any state -> TERMINATING (immediate, irreversible)", svc/service.go:91).
Irreversible == [][state = "TERMINATING" => state' = "TERMINATING"]_lifecycleVars

\* As long as no Stop gave up waiting, TERMINATING is final and the one report
\* fits the channel's one slot: Terminate meets a run that has stored what it
\* loaded, or one that can only load TERMINATING (transitionAfterRun).
TerminatedOnce ==
    [][~expired => /\ state = "TERMINATING" => state' = "TERMINATING"
                   /\ sends' <= 1]_lifecycleVars

\* A Stop that returned nil left the service READY, so it can be started again
\* (Stop: "RUNNING -> STOPPING (immediate) -> READY (when the run goroutine has
\* exited)", svc/service.go:83-84).
StopNilMeansReady == pc = "idle" /\ ret.op = "stop" /\ ret.ok => state = "READY"

\* A service stopped at work becomes READY in the end, also when the Stop ran
\* out of time (svc/service.go:86-88).
StopReachesReady ==
    (state = "STOPPING" /\ \E k \in Cycle : Active(k)) ~> state # "STOPPING"
=============================================================================
