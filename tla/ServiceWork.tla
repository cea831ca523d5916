----------------------------- MODULE ServiceWork -----------------------------
(***************************************************************************)
(* What the cycles of ServiceLifecycle do, for four kinds of service: the  *)
(* HTTP server, which only waits for its drain window; the job scheduler   *)
(* with its jobs; the SSE service with its streams; the control socket     *)
(* with its file and connections.  A unit of work is a job, a stream or a  *)
(* connection.  The run goroutine leaves its loop when the cycle's context *)
(* is over, and waits for the work its service promises to wait for.       *)
(***************************************************************************)
EXTENDS ServiceLifecycle

CONSTANTS Unit, Kinds

ASSUME KindsKnown == Kinds \subseteq {"web", "jobsched", "sse", "uds"}

VARIABLES
    kind,       \* the kind of service, fixed
    root,       \* the context every cycle's derives from is over
    work,       \* work[u]: "none", "entering" (inside register, past its check), "on", or
                \* "busy" (a connection whose command runs)
    of,         \* of[u]: the cycle whose context the unit watches
    file,       \* the cycle whose socket the file at the path is, 0: the path is free
    cleaner     \* cleaner[k]: the goroutine that closes listener and file of cycle k

workVars == <<kind, root, work, of, file, cleaner>>
allVars == <<lifecycleVars, workVars>>

WorkInit ==
    /\ LifecycleInit
    /\ kind \in Kinds /\ root = FALSE
    /\ work = [u \in Unit |-> "none"] /\ of = [u \in Unit |-> 0]
    /\ file = 0 /\ cleaner = [k \in Cycle |-> "none"]

CycleOver(k) == k \in cancelled \/ root
Looping == cycle > 0 /\ run[cycle] = "loop"

-----------------------------------------------------------------------------
(* The lifecycle's steps over the work *)

\* The control socket binds its path: a path that is taken is refused, whoever has it.
refuseOccupiedPath == kind = "uds" => file = 0

StartsWork ==
    /\ Start /\ refuseOccupiedPath
    /\ file' = IF kind = "uds" THEN cycle' ELSE file
    /\ cleaner' = IF kind = "uds" THEN [cleaner EXCEPT ![cycle'] = "waiting"] ELSE cleaner
    /\ UNCHANGED <<kind, root, work, of>>

\* Bind, and for the socket the chmod behind it, whose failure takes the file away again.
StartRefused == StartFails /\ kind \in {"web", "uds"} /\ UNCHANGED workVars

\* sse cancels under the mutex that register checks and counts under.
MuFreeAlways == TRUE
MuFree == kind = "sse" => \A u \in Unit : work[u] # "entering"

CancelsWork == Cancel /\ MuFree /\ UNCHANGED workVars

\* A web server may die by itself; the socket's loop ends when its listener is closed.
LeavesWork(k) ==
    /\ LeaveLoop(k)
    /\ CASE kind = "web" -> TRUE
         [] kind = "uds" -> cleaner[k] \in {"closed", "done"}
         [] OTHER        -> CycleOver(k)
    /\ UNCHANGED workVars

\* Jobs and streams are waited for: one wait group for the streams of all cycles, counted when on.
WaitsWork(k) ==
    /\ LoadAfterRun(k)
    /\ kind \in {"jobsched", "sse"} => \A u \in Unit : work[u] # "on"
    /\ UNCHANGED workVars

RunWork(k) ==
    \/ LeavesWork(k) \/ WaitsWork(k)
    \/ (StoreReady(k) \/ CloseStopped(k)) /\ UNCHANGED workVars

RootCancel ==
    /\ ~root /\ root' = TRUE
    /\ UNCHANGED <<lifecycleVars, kind, work, of, file, cleaner>>

LifeGoesOn ==
    \/ CancelsWork
    \/ /\ StoreTerminating \/ StopReturns \/ StopExpires \/ Send
          \/ \E ok \in BOOLEAN : TerminateWaited(ok)
       /\ UNCHANGED workVars

LifeStep ==
    \/ StartsWork \/ StartRefused \/ LifeGoesOn
    \/ (StartIdle \/ StopIdle \/ Stop \/ TerminateIdle \/ Terminate \/ Collect) /\ UNCHANGED workVars

-----------------------------------------------------------------------------
(* The work *)

unworked == <<lifecycleVars, kind, root, file, cleaner>>
To(u, place) == work' = [work EXCEPT ![u] = place]

\* The scheduler's loop starts a job on a goroutine of its own, counted first.
StartJob(u) ==
    /\ kind = "jobsched" /\ work[u] = "none" /\ Looping
    /\ To(u, "on") /\ of' = [of EXCEPT ![u] = cycle]
    /\ UNCHANGED unworked

\* register, under mu: the check of the cycle's context, and in a later step the count.  A root that
\* ends does not take mu.
register(u) ==
    /\ kind = "sse" /\ work[u] = "none" /\ MuFree
    /\ cycle > 0 /\ ~CycleOver(cycle)
    /\ To(u, "entering") /\ of' = [of EXCEPT ![u] = cycle]
    /\ UNCHANGED unworked

OpenStream(u) ==
    /\ kind = "sse" /\ work[u] = "entering"
    /\ To(u, "on")
    /\ UNCHANGED <<of, unworked>>

\* A connection reaches the socket through its file; its handler's goroutine starts to watch the
\* service's context, which is by then the one of the cycle that is under way.
Accept(u) ==
    /\ kind = "uds" /\ work[u] = "none" /\ Looping /\ file = cycle
    /\ To(u, "on") /\ of' = [of EXCEPT ![u] = cycle]
    /\ UNCHANGED unworked

\* A command, which runs on when its connection is closed meanwhile.
RunCommand(u) ==
    /\ kind = "uds" /\ work[u] = "on"
    /\ To(u, "busy")
    /\ UNCHANGED <<of, unworked>>

CommandReturns(u) ==
    /\ work[u] = "busy"
    /\ To(u, "on")
    /\ UNCHANGED <<of, unworked>>

\* A job returns; a stream or a connection ends: its client leaves, its source ends, a write or a line
\* fails, a command panicked, or the cycle's context is over.
EndWork(u) ==
    /\ work[u] = "on" \/ (work[u] = "busy" /\ kind = "uds")
    /\ To(u, "none") /\ of' = [of EXCEPT ![u] = 0]
    /\ UNCHANGED unworked

\* The cleaner of cycle k: the listener's Close unlinks the file of its own path and ends Accept; the
\* file is removed once more, in a step of its own.
CloseListenerKeepsFile(k) ==
    /\ cleaner[k] = "waiting" /\ CycleOver(k)
    /\ cleaner' = [cleaner EXCEPT ![k] = "closed"]
    /\ UNCHANGED <<lifecycleVars, kind, root, work, of, file>>

CloseListener(k) ==
    /\ cleaner[k] = "waiting" /\ CycleOver(k)
    /\ cleaner' = [cleaner EXCEPT ![k] = "closed"] /\ file' = 0
    /\ UNCHANGED <<lifecycleVars, kind, root, work, of>>

RemoveFile(k) ==
    /\ cleaner[k] = "closed"
    /\ cleaner' = [cleaner EXCEPT ![k] = "done"] /\ file' = 0
    /\ UNCHANGED <<lifecycleVars, kind, root, work, of>>

Clean(k) == CloseListener(k) \/ RemoveFile(k)

WorkStep(u) ==
    \/ StartJob(u) \/ register(u) \/ OpenStream(u)
    \/ Accept(u) \/ RunCommand(u) \/ CommandReturns(u) \/ EndWork(u)

WorkNext ==
    \/ LifeStep \/ RootCancel
    \/ \E k \in Cycle : RunWork(k) \/ Clean(k)
    \/ \E u \in Unit : WorkStep(u)

\* As in ServiceLifecycle, and: a job's task returns; a stream whose cycle is over ends, as its select
\* chooses among what is ready at random and a frame is written within frame_write_timeout_secs; a
\* registration under mu goes on; a cancel gets mu, which sync.Mutex hands to who waits longest (SF);
\* a cleaner whose context is over runs.
WorkSpec ==
    /\ WorkInit /\ [][WorkNext]_allVars
    /\ WF_allVars(LifeGoesOn) /\ SF_allVars(CancelsWork)
    /\ WF_allVars(Collect /\ UNCHANGED workVars)
    /\ \A k \in Cycle : /\ WF_allVars((CycleOver(k) \/ run[k] # "loop") /\ RunWork(k))
                        /\ WF_allVars(Clean(k))
    /\ \A u \in Unit : /\ WF_allVars(OpenStream(u))
                       /\ WF_allVars((kind = "jobsched" \/ CycleOver(of[u])) /\ EndWork(u))

-----------------------------------------------------------------------------
(* Properties *)

\* No job and no stream is under way in a cycle whose run goroutine is through with its wait, so a
\* Stop that returned nil has none left (sse Stop: "Ends every open stream ... and returns once all
\* have ended"; register: "once a cycle is canceled no stream can join it").  For streams as long as
\* the root context lives: its end is not under mu, and a stream may be counted after the wait.
WorkEndsFirst ==
    \A u \in Unit : work[u] = "on" /\ (kind = "jobsched" \/ (kind = "sse" /\ ~root))
        => Active(of[u])

\* A control socket that is READY can be started: its path is free, however Stop, its deadline, the
\* cleaner and the end of the loop interleaved (refuseOccupiedPath: "cleanup is proper on every stop
\* path, so a file here means something is wrong").
ReadyMeansFree == kind = "uds" /\ state = "READY" => file = 0

\* A cycle that is over leaves nothing behind it.
CycleLeavesNothing == WorkEndsFirst /\ ReadyMeansFree

\* A control socket that serves has its file, so operators reach it (refuseOccupiedPath: removing
\* would "destroy the evidence - or a running instance's socket").
ServingIsReachable == kind = "uds" /\ Looping /\ ~CycleOver(cycle) => file = cycle
=============================================================================
