----------------------------- MODULE CoreProofs -----------------------------
(***************************************************************************)
(* Theorems about Core for every service graph: dependents are terminated   *)
(* first, and the clients are closed last, in every interleaving of boot,   *)
(* rollback, shutdown and operators that act on a process that is up.       *)
(***************************************************************************)
EXTENDS Core, TLAPS

\* The solver of every step that names no other.
USE ZenonT(30)

\* A node Terminate was called on is TERMINATING for good.
TouchedTerminating ==
    \A w \in Walker, n \in Node :
        term[w][n] \in {"ending", "waiting", "done"} => svc[n] = "TERMINATING"

\* n's work ended, or its Terminate said it could not in time.
Ended(n) == ~work[n] \/ late[n]

\* A service that reported has ended its work, or said it could not in time.
ReportedSettled ==
    \A n \in Node : report[n] # "none" => svc[n] = "TERMINATING" /\ Ended(n)

\* terminateNode is through with n only when n is settled.
DoneSettled ==
    \A w \in Walker, n \in Node : term[w][n] = "done" => Settled(n)

\* The walk is through with the levels below its own, and has not begun those
\* above.
WalkOrder ==
    \A n \in Node :
        /\ Lvl[n] < level => term["walk"][n] = "done"
        /\ term["walk"][n] # "no" => Lvl[n] <= level

\* The rollback only touches nodes it has come down to, and comes after the
\* shutdownDone channel was made.
RollbackOrder ==
    \A i \in 1..Len(Order) :
        term["rollback"][Order[i]] # "no" =>
            /\ main \in {"rollback", "cleanup", "exited"} /\ i >= pos
            /\ done # "nil"

\* The part of the start order that is settled in each phase of main.
BootOrder ==
    /\ main = "prep" => pos = 1
    /\ main \in {"start", "admit"} => pos \in 1..Len(Order)
    /\ main = "rollback" => pos \in 0..Len(Order)
    /\ \A i \in 1..Len(Order) :
         /\ main = "prep" => ~work[Order[i]]
         /\ main = "start" /\ i >= pos => ~work[Order[i]]
         /\ main = "admit" /\ i > pos => ~work[Order[i]]
         /\ main = "rollback" /\ i > pos => Settled(Order[i])
         /\ main \in {"cleanup", "exited"} => Settled(Order[i])

\* What the channel and the signal goroutine say of each other.
ChannelOrder ==
    /\ done = "nil" => main \in {"prep", "cleanup", "exited", "crashed"}
    /\ main = "crashed" => done = "nil"
    /\ done = "closed" => signal = "done"
    /\ signal = "done" => level = NumLevels

Inv ==
    /\ TypeOK
    /\ TouchedTerminating /\ ReportedSettled /\ DoneSettled
    /\ WalkOrder /\ RollbackOrder /\ BootOrder /\ ChannelOrder

-----------------------------------------------------------------------------
LEMMA OrderFacts ==
    /\ Order \in Seq(Node) /\ Len(Order) \in Nat
    /\ \A i \in 1..Len(Order) : Order[i] \in Node
    /\ Order # <<>> => Len(Order) > 0
  BY OrderAssumption, SMTT(30)

LEMMA LevelFacts ==
    \A n \in Node : /\ Lvl[n] \in Nat /\ Lvl[n] < NumLevels
                    /\ \A d \in Deps[n] : d \in Node /\ Lvl[n] < Lvl[d]
<1> SUFFICES ASSUME NEW n \in Node
             PROVE  /\ Lvl[n] \in Nat /\ Lvl[n] < NumLevels
                    /\ \A d \in Deps[n] : d \in Node /\ Lvl[n] < Lvl[d]
  OBVIOUS
<1>1. Lvl[n] \in 0..(NumLevels - 1) /\ NumLevels \in Nat
  BY GraphAssumption
<1>2. ASSUME NEW d \in Deps[n] PROVE d \in Node /\ Lvl[n] < Lvl[d]
  <2>1. d \in Node /\ Lvl[d] > Lvl[n]
    BY GraphAssumption
  <2>2. Lvl[d] \in 0..(NumLevels - 1)
    BY <2>1, GraphAssumption
  <2> QED
    BY <1>1, <2>1, <2>2
<1> QED
  BY <1>1, <1>2, SMTT(30)

LEMMA InitInv == Init => Inv
<1> SUFFICES ASSUME Init PROVE Inv
  OBVIOUS
<1> USE OrderFacts, GraphAssumption DEF Init
<1>1. TypeOK
  BY SMTT(30) DEF TypeOK, Walker, Idle
<1>2. TouchedTerminating /\ ReportedSettled /\ DoneSettled
  BY DEF TouchedTerminating, ReportedSettled, DoneSettled, Walker
<1>3. WalkOrder
  <2>1. ASSUME NEW n \in Node PROVE ~(Lvl[n] < 0)
    <3>1. Lvl[n] \in Nat
      BY LevelFacts
    <3> QED
      BY <3>1, SMTT(30)
  <2>2. \A n \in Node : term["walk"][n] = "no"
    BY DEF Walker
  <2> QED
    BY <2>1, <2>2 DEF WalkOrder
<1>4. RollbackOrder
  BY DEF RollbackOrder, Walker
<1>5. BootOrder /\ ChannelOrder
  BY DEF BootOrder, ChannelOrder
<1> QED
  BY <1>1, <1>2, <1>3, <1>4, <1>5 DEF Inv

-----------------------------------------------------------------------------
LEMMA StartType ==
    ASSUME TypeOK, NEW n \in Node, StartOK(n)
    PROVE  /\ svc' \in [Node -> {"READY", "RUNNING", "STOPPING", "TERMINATING"}]
           /\ work' \in [Node -> BOOLEAN]
<1>1. svc' \in [Node -> {"READY", "RUNNING", "STOPPING", "TERMINATING"}]
  BY DEF StartOK, TypeOK
<1>2. work' \in [Node -> BOOLEAN]
  BY DEF StartOK, TypeOK
<1> QED
  BY <1>1, <1>2

LEMMA TypeStep ==
    ASSUME TypeOK, BootOrder, [Next]_vars PROVE TypeOK'
<1> USE OrderFacts, GraphAssumption DEF TypeOK
<1>1. CASE MainStep
  <2>1. CASE BeginBoot \/ SealRefused
    BY <2>1 DEF BeginBoot, SealRefused
  <2>2. CASE BootStart
    BY <2>2 DEF BootStart, StartOK
  <2>3. CASE BootAdmit
    BY <2>3, SMTT(30) DEF BootAdmit, BootOrder
  <2>4. CASE BootFails
    BY <2>4, SMTT(30) DEF BootFails, BootOrder
  <2>5. CASE RollbackNext
    BY <2>5, SMTT(30) DEF RollbackNext
  <2>6. CASE RollbackDone \/ WaitServicesTerminated \/ ResourceCleanUp
    BY <2>6 DEF RollbackDone, WaitServicesTerminated, ResourceCleanUp
  <2> QED
    BY <1>1, <2>1, <2>2, <2>3, <2>4, <2>5, <2>6 DEF MainStep
<1>2. CASE Signal
  BY <1>2 DEF Signal
<1>3. CASE SignalStep
  <2>1. CASE NextLevel
    BY <2>1, SMTT(30) DEF NextLevel
  <2>2. CASE CloseDone
    BY <2>2 DEF CloseDone
  <2> QED
    BY <1>3, <2>1, <2>2 DEF SignalStep
<1>4. ASSUME NEW n \in Node, WorkEnds(n) \/ Relay(n) PROVE TypeOK'
  <2>1. CASE WorkEnds(n)
    BY <2>1 DEF WorkEnds
  <2>2. CASE Relay(n)
    BY <2>2 DEF Relay
  <2> QED
    BY <1>4, <2>1, <2>2
<1>5. ASSUME NEW w \in Walker, NEW n \in Node, TermStep(w, n) PROVE TypeOK'
  <2>1. CASE Revoke(w, n)
    BY <2>1 DEF Revoke, TermAt
  <2>2. CASE CallTerminate(w, n)
    BY <2>2 DEF CallTerminate, TermAt
  <2>3. CASE TerminateReturns(w, n)
    BY <2>3 DEF TerminateReturns, TermAt
  <2>4. CASE TerminatePanics(w, n)
    BY <2>4 DEF TerminatePanics, TermAt
  <2>5. CASE TakeReport(w, n)
    BY <2>5 DEF TakeReport, TermAt
  <2>6. CASE Abandon(w, n)
    BY <2>6 DEF Abandon, TermAt
  <2> QED
    BY <1>5, <2>1, <2>2, <2>3, <2>4, <2>5, <2>6 DEF TermStep
<1>6. ASSUME NEW o \in Operator, OperatorStep(o) PROVE TypeOK'
  <2>1. CASE OpAdmit(o)
    BY <2>1 DEF OpAdmit, Idle
  <2>2. CASE OpStop(o)
    <3>1. op[o].node \in Node
      BY <2>2, SMTT(30) DEF OpStop, Idle
    <3>2. svc' \in [Node -> {"READY", "RUNNING", "STOPPING", "TERMINATING"}]
      BY <2>2, <3>1 DEF OpStop
    <3>3. op' \in [Operator -> {Idle} \cup [at : {"admit", "stop", "stopping"}, node : Node]]
      BY <2>2, <3>1 DEF OpStop
    <3> QED
      BY <2>2, <3>2, <3>3 DEF OpStop
  <2>3. CASE OpReturn(o)
    BY <2>3 DEF OpReturn
  <2>4. ASSUME NEW n \in Node, OpStart(o, n) PROVE TypeOK'
    <3>1. /\ svc' \in [Node -> {"READY", "RUNNING", "STOPPING", "TERMINATING"}]
          /\ work' \in [Node -> BOOLEAN]
      BY <2>4, StartType DEF OpStart
    <3>2. op' \in [Operator -> {Idle} \cup [at : {"admit", "stop", "stopping"}, node : Node]]
      BY <2>4 DEF OpStart
    <3> QED
      BY <2>4, <3>1, <3>2 DEF OpStart
  <2>5. ASSUME NEW n \in Node, OpRevoke(o, n) PROVE TypeOK'
    BY <2>5 DEF OpRevoke
  <2> QED
    BY <1>6, <2>1, <2>2, <2>3, <2>4, <2>5 DEF OperatorStep
<1>7. CASE UNCHANGED vars
  BY <1>7 DEF vars
<1> QED
  BY <1>1, <1>2, <1>3, <1>4, <1>5, <1>6, <1>7 DEF Next, Gone

-----------------------------------------------------------------------------
(* What a step does to one service and to one terminateNode. *)

\* The steps that change a service or Core's verdict on it.
ServiceStep ==
    \/ BootStart
    \/ \E n \in Node : WorkEnds(n)
    \/ \E w \in Walker, n \in Node :
         \/ CallTerminate(w, n) \/ TerminateReturns(w, n)
         \/ TerminatePanics(w, n) \/ Abandon(w, n)
    \/ \E o \in Operator : OpStop(o) \/ \E n \in Node : OpStart(o, n)

LEMMA QuietOrService ==
    ASSUME [Next]_vars
    PROVE  UNCHANGED <<svc, work, late, abandoned>> \/ ServiceStep
<1>1. CASE MainStep
  BY <1>1 DEF MainStep, ServiceStep, BeginBoot, SealRefused, BootAdmit, BootFails, RollbackNext,
              RollbackDone, WaitServicesTerminated, ResourceCleanUp
<1>2. CASE Signal \/ SignalStep
  BY <1>2 DEF Signal, SignalStep, NextLevel, CloseDone
<1>3. ASSUME NEW n \in Node, WorkEnds(n) \/ Relay(n)
      PROVE  UNCHANGED <<svc, work, late, abandoned>> \/ ServiceStep
  BY <1>3 DEF ServiceStep, Relay
<1>4. ASSUME NEW w \in Walker, NEW n \in Node, TermStep(w, n)
      PROVE  UNCHANGED <<svc, work, late, abandoned>> \/ ServiceStep
  BY <1>4 DEF ServiceStep, TermStep, Revoke, TakeReport
<1>5. ASSUME NEW o \in Operator, OperatorStep(o)
      PROVE  UNCHANGED <<svc, work, late, abandoned>> \/ ServiceStep
  BY <1>5 DEF ServiceStep, OperatorStep, OpAdmit, OpReturn, OpRevoke
<1>6. CASE UNCHANGED vars
  BY <1>6 DEF vars
<1> QED
  BY <1>1, <1>2, <1>3, <1>4, <1>5, <1>6 DEF Next, Gone

\* A service that is not at work is put to work only by a Start, which the boot
\* makes at its position and an operator when the process is up.
MayStart(n) ==
    /\ svc[n] # "TERMINATING"
    /\ main = "wait" \/ (main = "start" /\ main' = "admit" /\ Order[pos] = n)

LEMMA ServiceEffects ==
    ASSUME TypeOK, BootOrder, OperatorFrom = "up", ServiceStep, NEW n \in Node
    PROVE  /\ svc[n] = "TERMINATING" => svc'[n] = "TERMINATING"
           /\ work'[n] => work[n] \/ MayStart(n)
           /\ Settled(n) /\ (work'[n] => work[n]) => Settled(n)'
           /\ Ended(n) /\ (work'[n] => work[n]) => Ended(n)'
<1> DEFINE Goal == /\ svc[n] = "TERMINATING" => svc'[n] = "TERMINATING"
                   /\ work'[n] => work[n] \/ MayStart(n)
                   /\ Settled(n) /\ (work'[n] => work[n]) => Settled(n)'
                   /\ Ended(n) /\ (work'[n] => work[n]) => Ended(n)'
<1> USE DEF TypeOK, Settled, Ended
<1>1. CASE BootStart
  <2>1. Order[pos] \in Node
    BY <1>1, OrderFacts DEF BootStart, BootOrder
  <2> QED
    BY <1>1, <2>1 DEF BootStart, StartOK, MayStart
<1>2. ASSUME NEW m \in Node, WorkEnds(m) PROVE Goal
  BY <1>2 DEF WorkEnds
<1>3. ASSUME NEW w \in Walker, NEW m \in Node, CallTerminate(w, m) PROVE Goal
  BY <1>3 DEF CallTerminate
<1>4. ASSUME NEW w \in Walker, NEW m \in Node, TerminateReturns(w, m) PROVE Goal
  BY <1>4 DEF TerminateReturns
<1>5. ASSUME NEW w \in Walker, NEW m \in Node, TerminatePanics(w, m) PROVE Goal
  BY <1>5 DEF TerminatePanics
<1>6. ASSUME NEW w \in Walker, NEW m \in Node, Abandon(w, m) PROVE Goal
  BY <1>6 DEF Abandon
<1>7. ASSUME NEW o \in Operator, OpStop(o) PROVE Goal
  <2>1. op[o].node \in Node
    BY <1>7, SMTT(30) DEF OpStop, Idle
  <2> QED
    BY <1>7, <2>1 DEF OpStop
<1>8. ASSUME NEW o \in Operator, NEW m \in Node, OpStart(o, m) PROVE Goal
  <2>1. main = "wait"
    BY <1>8 DEF OpStart, OperatorMay, Up
  <2> QED
    BY <1>8, <2>1 DEF OpStart, StartOK, MayStart
<1> QED
  BY <1>1, <1>2, <1>3, <1>4, <1>5, <1>6, <1>7, <1>8 DEF ServiceStep

LEMMA Effects ==
    ASSUME TypeOK, BootOrder, OperatorFrom = "up", [Next]_vars, NEW n \in Node
    PROVE  /\ svc[n] = "TERMINATING" => svc'[n] = "TERMINATING"
           /\ work'[n] => work[n] \/ MayStart(n)
           /\ Settled(n) /\ (work'[n] => work[n]) => Settled(n)'
           /\ Ended(n) /\ (work'[n] => work[n]) => Ended(n)'
<1>1. CASE UNCHANGED <<svc, work, late, abandoned>>
  BY <1>1 DEF Settled, Ended
<1>2. CASE ServiceStep
  BY <1>2, ServiceEffects
<1> QED
  BY <1>1, <1>2, QuietOrService

\* terminateNode of n moves only by its own steps.
LEMMA TermMoves ==
    ASSUME TypeOK, [Next]_vars, NEW w \in Walker, NEW n \in Node
    PROVE  term'[w][n] = term[w][n] \/ TermStep(w, n)
<1>1. ASSUME NEW v \in Walker, NEW m \in Node, TermStep(v, m)
      PROVE  term'[w][n] = term[w][n] \/ TermStep(w, n)
  <2>1. CASE v = w /\ m = n
    BY <1>1, <2>1
  <2>2. CASE ~(v = w /\ m = n)
    <3>1. \E to : term' = [term EXCEPT ![v][m] = to]
      BY <1>1 DEF TermStep, Revoke, CallTerminate, TerminateReturns, TerminatePanics,
                  TakeReport, Abandon, TermAt
    <3> QED
      BY <2>2, <3>1, SMTT(30) DEF TypeOK
  <2> QED
    BY <2>1, <2>2
<1>2. CASE UNCHANGED term
  BY <1>2
<1>3. UNCHANGED term \/ \E v \in Walker, m \in Node : TermStep(v, m)
  <2>1. CASE MainStep
    BY <2>1 DEF MainStep, BeginBoot, SealRefused, BootStart, BootAdmit, BootFails, RollbackNext,
                RollbackDone, WaitServicesTerminated, ResourceCleanUp
  <2>2. CASE Signal \/ SignalStep
    BY <2>2 DEF Signal, SignalStep, NextLevel, CloseDone
  <2>3. ASSUME NEW m \in Node, WorkEnds(m) \/ Relay(m) PROVE UNCHANGED term
    BY <2>3 DEF WorkEnds, Relay
  <2>4. ASSUME NEW o \in Operator, OperatorStep(o) PROVE UNCHANGED term
    BY <2>4 DEF OperatorStep, OpAdmit, OpStop, OpReturn, OpStart, OpRevoke
  <2>5. CASE UNCHANGED vars
    BY <2>5 DEF vars
  <2> QED
    BY <2>1, <2>2, <2>3, <2>4, <2>5 DEF Next, Gone
<1> QED
  BY <1>1, <1>2, <1>3

LEMMA LevelMoves ==
    ASSUME [Next]_vars PROVE UNCHANGED level \/ NextLevel
<1>1. CASE MainStep
  BY <1>1 DEF MainStep, BeginBoot, SealRefused, BootStart, BootAdmit, BootFails, RollbackNext,
              RollbackDone, WaitServicesTerminated, ResourceCleanUp
<1>2. CASE Signal \/ SignalStep
  BY <1>2 DEF Signal, SignalStep, CloseDone
<1>3. ASSUME NEW m \in Node, WorkEnds(m) \/ Relay(m) PROVE UNCHANGED level
  BY <1>3 DEF WorkEnds, Relay
<1>4. ASSUME NEW w \in Walker, NEW m \in Node, TermStep(w, m) PROVE UNCHANGED level
  BY <1>4 DEF TermStep, Revoke, CallTerminate, TerminateReturns, TerminatePanics,
              TakeReport, Abandon
<1>5. ASSUME NEW o \in Operator, OperatorStep(o) PROVE UNCHANGED level
  BY <1>5 DEF OperatorStep, OpAdmit, OpStop, OpReturn, OpStart, OpRevoke
<1>6. CASE UNCHANGED vars
  BY <1>6 DEF vars
<1> QED
  BY <1>1, <1>2, <1>3, <1>4, <1>5, <1>6 DEF Next, Gone

LEMMA MainMoves ==
    ASSUME [Next]_vars PROVE UNCHANGED <<main, pos, done>> \/ MainStep \/ CloseDone
<1>1. CASE Signal \/ SignalStep
  BY <1>1 DEF Signal, SignalStep, NextLevel
<1>2. ASSUME NEW m \in Node, WorkEnds(m) \/ Relay(m) PROVE UNCHANGED <<main, pos, done>>
  BY <1>2 DEF WorkEnds, Relay
<1>3. ASSUME NEW w \in Walker, NEW m \in Node, TermStep(w, m) PROVE UNCHANGED <<main, pos, done>>
  BY <1>3 DEF TermStep, Revoke, CallTerminate, TerminateReturns, TerminatePanics,
              TakeReport, Abandon
<1>4. ASSUME NEW o \in Operator, OperatorStep(o) PROVE UNCHANGED <<main, pos, done>>
  BY <1>4 DEF OperatorStep, OpAdmit, OpStop, OpReturn, OpStart, OpRevoke
<1>5. CASE UNCHANGED vars
  BY <1>5 DEF vars
<1> QED
  BY <1>1, <1>2, <1>3, <1>4, <1>5 DEF Next, Gone

LEMMA ReportMoves ==
    ASSUME TypeOK, [Next]_vars, NEW n \in Node
    PROVE  \/ report'[n] # "none" => report[n] # "none"
           \/ \E w \in Walker : TerminateReturns(w, n)
<1> DEFINE Goal == \/ report'[n] # "none" => report[n] # "none"
                   \/ \E w \in Walker : TerminateReturns(w, n)
<1>1. CASE MainStep
  BY <1>1 DEF MainStep, BeginBoot, SealRefused, BootStart, BootAdmit, BootFails, RollbackNext,
              RollbackDone, WaitServicesTerminated, ResourceCleanUp
<1>2. CASE Signal \/ SignalStep
  BY <1>2 DEF Signal, SignalStep, NextLevel, CloseDone
<1>3. ASSUME NEW m \in Node, WorkEnds(m) \/ Relay(m) PROVE Goal
  BY <1>3 DEF WorkEnds, Relay, TypeOK
<1>4. ASSUME NEW w \in Walker, NEW m \in Node, TermStep(w, m) PROVE Goal
  <2>1. CASE TerminateReturns(w, m)
    BY <2>1 DEF TerminateReturns, TypeOK
  <2>2. CASE TakeReport(w, m)
    BY <2>2 DEF TakeReport, TypeOK
  <2> QED
    BY <1>4, <2>1, <2>2 DEF TermStep, Revoke, CallTerminate, TerminatePanics, Abandon
<1>5. ASSUME NEW o \in Operator, OperatorStep(o) PROVE UNCHANGED report
  BY <1>5 DEF OperatorStep, OpAdmit, OpStop, OpReturn, OpStart, OpRevoke
<1>6. CASE UNCHANGED vars
  BY <1>6 DEF vars
<1> QED
  BY <1>1, <1>2, <1>3, <1>4, <1>5, <1>6 DEF Next, Gone

-----------------------------------------------------------------------------
(* The invariant is inductive, one lemma per conjunct. *)

LEMMA TouchedStep ==
    ASSUME Inv, OperatorFrom = "up", [Next]_vars PROVE TouchedTerminating'
<1> SUFFICES ASSUME NEW w \in Walker, NEW n \in Node,
                    term'[w][n] \in {"ending", "waiting", "done"}
             PROVE  svc'[n] = "TERMINATING"
  BY DEF TouchedTerminating
<1>0. svc[n] = "TERMINATING" => svc'[n] = "TERMINATING"
  BY Effects DEF Inv
<1>1. CASE term'[w][n] = term[w][n]
  BY <1>0, <1>1 DEF Inv, TouchedTerminating
<1>2. CASE Revoke(w, n)
  BY <1>2 DEF Revoke, TermAt, Inv, TypeOK
<1>3. CASE CallTerminate(w, n)
  BY <1>3 DEF CallTerminate, Inv, TypeOK
<1>4. CASE TerminateReturns(w, n) \/ TerminatePanics(w, n) \/ TakeReport(w, n) \/ Abandon(w, n)
  <2>1. term[w][n] \in {"ending", "waiting"}
    BY <1>4 DEF TerminateReturns, TerminatePanics, TakeReport, Abandon, TermAt
  <2> QED
    BY <1>0, <2>1 DEF Inv, TouchedTerminating
<1> QED
  BY <1>1, <1>2, <1>3, <1>4, TermMoves DEF TermStep, Inv

LEMMA ReportedStep ==
    ASSUME Inv, OperatorFrom = "up", [Next]_vars PROVE ReportedSettled'
<1> SUFFICES ASSUME NEW n \in Node, report'[n] # "none"
             PROVE  svc'[n] = "TERMINATING" /\ Ended(n)'
  BY DEF ReportedSettled
<1>0. TypeOK /\ BootOrder
  BY DEF Inv
<1>1. CASE report[n] # "none"
  <2>1. svc[n] = "TERMINATING" /\ Ended(n)
    BY <1>1 DEF Inv, ReportedSettled
  <2>2. work'[n] => work[n]
    BY <1>0, <2>1, Effects DEF MayStart
  <2> QED
    BY <1>0, <2>1, <2>2, Effects
<1>2. ASSUME NEW w \in Walker, TerminateReturns(w, n)
      PROVE  svc'[n] = "TERMINATING" /\ Ended(n)'
  <2>1. svc'[n] = "TERMINATING"
    BY <1>2 DEF TerminateReturns, TermAt, Inv, TouchedTerminating
  <2>2. Ended(n)'
    BY <1>2 DEF TerminateReturns, Ended, Inv, TypeOK
  <2> QED
    BY <2>1, <2>2
<1> QED
  BY <1>0, <1>1, <1>2, ReportMoves

LEMMA DoneStep ==
    ASSUME Inv, OperatorFrom = "up", [Next]_vars PROVE DoneSettled'
<1> SUFFICES ASSUME NEW w \in Walker, NEW n \in Node, term'[w][n] = "done"
             PROVE  Settled(n)'
  BY DEF DoneSettled
<1>0. TypeOK /\ BootOrder
  BY DEF Inv
<1>1. CASE term[w][n] = "done"
  <2>1. svc[n] = "TERMINATING" /\ Settled(n)
    BY <1>1 DEF Inv, TouchedTerminating, DoneSettled
  <2>2. work'[n] => work[n]
    BY <1>0, <2>1, Effects DEF MayStart
  <2> QED
    BY <1>0, <2>1, <2>2, Effects
<1>2. CASE TerminatePanics(w, n) \/ Abandon(w, n)
  BY <1>0, <1>2 DEF TerminatePanics, Abandon, Settled, TypeOK
<1>3. CASE TakeReport(w, n)
  <2>1. Ended(n)
    BY <1>3 DEF TakeReport, Inv, ReportedSettled
  <2> QED
    BY <1>3, <2>1 DEF TakeReport, Ended, Settled
<1>4. CASE Revoke(w, n) \/ CallTerminate(w, n) \/ TerminateReturns(w, n)
  BY <1>0, <1>4, SMTT(30) DEF Revoke, CallTerminate, TerminateReturns, TermAt, TypeOK
<1> QED
  BY <1>0, <1>1, <1>2, <1>3, <1>4, TermMoves DEF TermStep

LEMMA WalkStep ==
    ASSUME Inv, [Next]_vars PROVE WalkOrder'
<1> SUFFICES ASSUME NEW n \in Node
             PROVE  /\ Lvl[n] < level' => term'["walk"][n] = "done"
                    /\ term'["walk"][n] # "no" => Lvl[n] <= level'
  BY DEF WalkOrder
<1>0. TypeOK /\ level \in Nat /\ Lvl[n] \in Nat /\ "walk" \in Walker
  BY LevelFacts, GraphAssumption, SMTT(30) DEF Inv, TypeOK, Walker
<1>1. CASE NextLevel
  <2>1. /\ level' = level + 1 /\ term' = term
        /\ Lvl[n] = level => term["walk"][n] = "done"
    BY <1>1 DEF NextLevel
  <2>2. /\ Lvl[n] < level => term["walk"][n] = "done"
        /\ term["walk"][n] # "no" => Lvl[n] <= level
    BY DEF Inv, WalkOrder
  <2>3. Lvl[n] < level' => Lvl[n] < level \/ Lvl[n] = level
    BY <1>0, <2>1, SMTT(30)
  <2>4. Lvl[n] <= level => Lvl[n] <= level'
    BY <1>0, <2>1, SMTT(30)
  <2> QED
    BY <2>1, <2>2, <2>3, <2>4
<1>2. CASE UNCHANGED level
  <2>1. term["walk"][n] = "done" => term'["walk"][n] = "done"
    BY <1>0, TermMoves DEF TermStep, Revoke, CallTerminate, TerminateReturns,
                           TerminatePanics, TakeReport, Abandon, TermAt
  <2>2. term'["walk"][n] # "no" => term["walk"][n] # "no" \/ Lvl[n] = level
    BY <1>0, TermMoves DEF TermStep, Revoke, Reached, CallTerminate, TerminateReturns,
                           TerminatePanics, TakeReport, Abandon, TermAt
  <2> QED
    BY <1>0, <1>2, <2>1, <2>2, SMTT(30) DEF Inv, WalkOrder
<1> QED
  BY <1>1, <1>2, LevelMoves

LEMMA RollbackStep ==
    ASSUME Inv, [Next]_vars PROVE RollbackOrder'
<1> SUFFICES ASSUME NEW i \in 1..Len(Order), term'["rollback"][Order[i]] # "no"
             PROVE  /\ main' \in {"rollback", "cleanup", "exited"} /\ i >= pos'
                    /\ done' # "nil"
  BY DEF RollbackOrder
<1>0. TypeOK /\ Order[i] \in Node /\ "rollback" \in Walker /\ pos \in Nat
  BY OrderFacts, SMTT(30) DEF Inv, TypeOK, Walker
<1>1. CASE term["rollback"][Order[i]] # "no"
  <2>1. main \in {"rollback", "cleanup", "exited"} /\ i >= pos /\ done # "nil"
    BY <1>1 DEF Inv, RollbackOrder
  <2>2. CASE UNCHANGED <<main, pos, done>>
    BY <2>1, <2>2
  <2>3. CASE MainStep
    BY <1>0, <2>1, <2>3, SMTT(30) DEF MainStep, BeginBoot, SealRefused, BootStart, BootAdmit, BootFails,
         RollbackNext, RollbackDone, WaitServicesTerminated, ResourceCleanUp
  <2>4. CASE CloseDone
    BY <2>1, <2>4 DEF CloseDone, Inv, ChannelOrder
  <2> QED
    BY <2>2, <2>3, <2>4, MainMoves
<1>2. CASE Revoke("rollback", Order[i])
  <2>1. main = "rollback" /\ pos > 0 /\ Order[pos] = Order[i]
    BY <1>2 DEF Revoke, Reached
  <2>2. pos \in 1..Len(Order)
    BY <1>0, <2>1, OrderFacts, SMTT(30) DEF Inv, BootOrder
  <2>3. i = pos
    BY <2>1, <2>2, OrderAssumption, SMTT(30)
  <2> QED
    BY <1>2, <2>1, <2>3, SMTT(30) DEF Revoke, Inv, ChannelOrder
<1> QED
  BY <1>0, <1>1, <1>2, TermMoves DEF TermStep, CallTerminate, TerminateReturns,
       TerminatePanics, TakeReport, Abandon, TermAt

\* The clause of BootOrder about position i.
Slot(i) ==
    /\ main = "prep" => ~work[Order[i]]
    /\ main = "start" /\ i >= pos => ~work[Order[i]]
    /\ main = "admit" /\ i > pos => ~work[Order[i]]
    /\ main = "rollback" /\ i > pos => Settled(Order[i])
    /\ main \in {"cleanup", "exited"} => Settled(Order[i])

LEMMA SlotMain ==
    ASSUME Inv, MainStep, NEW i \in 1..Len(Order) PROVE Slot(i)'
<1>0. /\ TypeOK /\ Order[i] \in Node /\ pos \in Nat /\ i \in Nat
      /\ Len(Order) \in Nat /\ Slot(i)
  BY OrderFacts, SMTT(30) DEF Inv, TypeOK, BootOrder, Slot
<1>1. CASE BeginBoot \/ SealRefused
  BY <1>0, <1>1 DEF BeginBoot, SealRefused, Slot, Settled
<1>2. CASE BootStart
  <2>1. pos \in 1..Len(Order) /\ Order[pos] \in Node
    BY <1>2, OrderFacts DEF BootStart, Inv, BootOrder
  <2>2. i > pos => Order[i] # Order[pos]
    BY <2>1, OrderAssumption
  <2>3. i > pos => work'[Order[i]] = work[Order[i]]
    BY <1>0, <1>2, <2>1, <2>2 DEF BootStart, StartOK, TypeOK
  <2>4. i > pos => ~work[Order[i]]
    BY <1>0, <1>2, <2>1, SMTT(30) DEF BootStart, Slot
  <2> QED
    BY <1>2, <2>3, <2>4 DEF BootStart, Slot
<1>3. CASE BootAdmit
  BY <1>0, <1>3, SMTT(30) DEF BootAdmit, Slot, Settled
<1>4. CASE BootFails
  <2>1. i >= pos => ~work[Order[i]]
    BY <1>0, <1>4 DEF BootFails, Slot
  <2> QED
    BY <1>0, <1>4, <2>1, SMTT(30) DEF BootFails, Slot, Settled
<1>5. CASE RollbackNext
  <2>1. i = pos => Settled(Order[i])
    BY <1>0, <1>5 DEF RollbackNext, Inv, DoneSettled, Walker
  <2>2. i > pos => Settled(Order[i])
    BY <1>0, <1>5 DEF RollbackNext, Slot
  <2>3. Settled(Order[i])' <=> Settled(Order[i])
    BY <1>5 DEF RollbackNext, Settled
  <2> QED
    BY <1>0, <1>5, <2>1, <2>2, <2>3, SMTT(30) DEF RollbackNext, Slot
<1>6. CASE RollbackDone
  BY <1>0, <1>6, SMTT(30) DEF RollbackDone, Slot, Settled
<1>7. CASE WaitServicesTerminated
  <2>1. Lvl[Order[i]] < level
    BY <1>0, <1>7, LevelFacts DEF WaitServicesTerminated, Inv, ChannelOrder
  <2>2. Settled(Order[i])
    BY <1>0, <2>1 DEF Inv, WalkOrder, DoneSettled, Walker
  <2> QED
    BY <1>7, <2>2 DEF WaitServicesTerminated, Slot, Settled
<1>8. CASE ResourceCleanUp
  BY <1>0, <1>8 DEF ResourceCleanUp, Slot, Settled
<1> QED
  BY <1>1, <1>2, <1>3, <1>4, <1>5, <1>6, <1>7, <1>8 DEF MainStep

LEMMA SlotOther ==
    ASSUME Inv, OperatorFrom = "up", [Next]_vars, UNCHANGED <<main, pos>>,
           NEW i \in 1..Len(Order)
    PROVE  Slot(i)'
<1>0. TypeOK /\ BootOrder /\ Order[i] \in Node /\ Slot(i)
  BY OrderFacts DEF Inv, BootOrder, Slot
<1>1. main \in {"prep", "start", "admit", "rollback", "cleanup", "exited"}
        => (work'[Order[i]] => work[Order[i]])
  BY <1>0, Effects DEF MayStart
<1>2. Settled(Order[i]) /\ (work'[Order[i]] => work[Order[i]]) => Settled(Order[i])'
  BY <1>0, Effects
<1> QED
  BY <1>0, <1>1, <1>2 DEF Slot

LEMMA BootStep ==
    ASSUME Inv, OperatorFrom = "up", [Next]_vars PROVE BootOrder'
<1>1. ASSUME NEW i \in 1..Len(Order) PROVE Slot(i)'
  <2>1. CASE CloseDone
    BY <2>1 DEF CloseDone, Inv, BootOrder, Slot, Settled
  <2> QED
    BY <2>1, SlotMain, SlotOther, MainMoves
<1>2. /\ main' = "prep" => pos' = 1
      /\ main' \in {"start", "admit"} => pos' \in 1..Len(Order)
      /\ main' = "rollback" => pos' \in 0..Len(Order)
  <2>0. Len(Order) \in Nat /\ pos \in Nat /\ (Order # <<>> => Len(Order) > 0)
    BY OrderFacts, SMTT(30) DEF Inv, TypeOK
  <2>1. CASE UNCHANGED <<main, pos>>
    BY <2>1 DEF Inv, BootOrder
  <2>2. CASE CloseDone
    BY <2>2 DEF CloseDone, Inv, BootOrder
  <2>3. CASE MainStep
    <3>1. CASE BeginBoot \/ SealRefused
      BY <2>0, <3>1, SMTT(30) DEF BeginBoot, SealRefused, Inv, BootOrder
    <3>2. CASE BootStart \/ BootAdmit \/ BootFails
      BY <2>0, <3>2, SMTT(30) DEF BootStart, BootAdmit, BootFails, Inv, BootOrder
    <3>3. CASE RollbackNext
      BY <2>0, <3>3, SMTT(30) DEF RollbackNext, Inv, BootOrder
    <3>4. CASE RollbackDone \/ WaitServicesTerminated \/ ResourceCleanUp
      BY <3>4 DEF RollbackDone, WaitServicesTerminated, ResourceCleanUp
    <3> QED
      BY <2>3, <3>1, <3>2, <3>3, <3>4 DEF MainStep
  <2> QED
    BY <2>1, <2>2, <2>3, MainMoves
<1> QED
  BY <1>1, <1>2 DEF BootOrder, Slot

LEMMA ChannelStep ==
    ASSUME Inv, [Next]_vars PROVE ChannelOrder'
<1> USE DEF Inv, ChannelOrder
<1>1. CASE MainStep
  BY <1>1 DEF MainStep, BeginBoot, SealRefused, BootStart, BootAdmit, BootFails, RollbackNext,
              RollbackDone, WaitServicesTerminated, ResourceCleanUp
<1>2. CASE Signal \/ SignalStep
  BY <1>2 DEF Signal, SignalStep, NextLevel, CloseDone, Alive
<1>3. ASSUME NEW m \in Node, WorkEnds(m) \/ Relay(m) PROVE ChannelOrder'
  BY <1>3 DEF WorkEnds, Relay
<1>4. ASSUME NEW w \in Walker, NEW m \in Node, TermStep(w, m) PROVE ChannelOrder'
  BY <1>4 DEF TermStep, Revoke, CallTerminate, TerminateReturns, TerminatePanics,
              TakeReport, Abandon
<1>5. ASSUME NEW o \in Operator, OperatorStep(o) PROVE ChannelOrder'
  BY <1>5 DEF OperatorStep, OpAdmit, OpStop, OpReturn, OpStart, OpRevoke
<1>6. CASE UNCHANGED vars
  BY <1>6 DEF vars
<1> QED
  BY <1>1, <1>2, <1>3, <1>4, <1>5, <1>6 DEF Next, Gone

LEMMA InvStep ==
    ASSUME Inv, OperatorFrom = "up", [Next]_vars PROVE Inv'
<1>1. TypeOK'
  BY TypeStep DEF Inv
<1> QED
  BY <1>1, TouchedStep, ReportedStep, DoneStep, WalkStep, RollbackStep, BootStep,
     ChannelStep DEF Inv

-----------------------------------------------------------------------------
(* The theorems *)

\* The invariant the others follow from, for operators that act on a process
\* that is up: the order facts of the walk and the rollback, with what each
\* phase of main has settled.
THEOREM Invariance ==
    ASSUME OperatorFrom = "up" PROVE Spec => []Inv
<1>1. Init => Inv
  BY InitInv
<1>2. Inv /\ [Next]_vars => Inv'
  BY InvStep
<1> QED
  BY <1>1, <1>2, PTL DEF Spec

\* In every service graph, a service is terminated only once everything that
\* depends on it is settled: a dependent's level is below its own, and the walk
\* has finished that level, or the rollback, coming down the start order, has
\* passed it.
THEOREM DependentsFirstHolds ==
    ASSUME OperatorFrom = "up" PROVE Spec => []DependentsFirst
<1>1. Inv => DependentsFirst
  <2> SUFFICES ASSUME Inv, NEW n \in Node, NEW d \in Deps[n], Touched(d)
               PROVE  Settled(n)
    BY DEF DependentsFirst
  <2>0. /\ d \in Node /\ Lvl[n] \in Nat /\ Lvl[d] \in Nat /\ Lvl[n] < Lvl[d]
        /\ level \in Nat /\ pos \in Nat /\ TypeOK
    <3>1. d \in Node /\ Lvl[n] \in Nat /\ Lvl[n] < Lvl[d]
      BY LevelFacts
    <3>2. Lvl[d] \in Nat
      BY <3>1, LevelFacts
    <3> QED
      BY <3>1, <3>2, GraphAssumption, OrderFacts, SMTT(30) DEF Inv, TypeOK
  <2>1. CASE term["walk"][d] # "no"
    <3>1. Lvl[d] <= level
      BY <2>0, <2>1 DEF Inv, WalkOrder
    <3>2. term["walk"][n] = "done"
      BY <2>0, <3>1, SMTT(30) DEF Inv, WalkOrder
    <3> QED
      BY <3>2 DEF Inv, DoneSettled, Walker
  <2>2. CASE term["rollback"][d] # "no"
    <3>1. PICK i \in 1..Len(Order) : Order[i] = d
      BY <2>0, OrderAssumption
    <3>2. PICK j \in 1..Len(Order) : Order[j] = n
      BY OrderAssumption
    <3>3. main \in {"rollback", "cleanup", "exited"} /\ i >= pos
      BY <2>2, <3>1 DEF Inv, RollbackOrder
    <3>4. j > i
      <4>1. j < i => Lvl[Order[j]] >= Lvl[Order[i]]
        BY OrderAssumption
      <4>2. ~(j < i)
        BY <2>0, <3>1, <3>2, <4>1, SMTT(30)
      <4>3. j # i
        BY <2>0, <3>1, <3>2, SMTT(30)
      <4> QED
        BY <4>2, <4>3, SMTT(30)
    <3> QED
      BY <2>0, <3>2, <3>3, <3>4, SMTT(30) DEF Inv, BootOrder
  <2> QED
    BY <2>1, <2>2 DEF Touched, Walker
<1> QED
  BY <1>1, Invariance, PTL

\* In every service graph, the clients are closed only once every service is
\* settled, after a shutdown and after a failed boot alike.
THEOREM ClientsLastHolds ==
    ASSUME OperatorFrom = "up" PROVE Spec => []ClientsLast
<1>1. Inv => ClientsLast
  <2> SUFFICES ASSUME Inv, main \in {"cleanup", "exited"}, NEW n \in Node
               PROVE  Settled(n)
    BY DEF ClientsLast
  <2>1. PICK i \in 1..Len(Order) : Order[i] = n
    BY OrderAssumption
  <2> QED
    BY <2>1 DEF Inv, BootOrder
<1> QED
  BY <1>1, Invariance, PTL

-----------------------------------------------------------------------------
(* Admission, with one operator at a time *)

\* Service n runs, or is being torn down.
Live(n) == svc[n] \in {"RUNNING", "TERMINATING"}

\* What is admitted, or about to be, is live; what an operator is about to stop
\* is not admitted; no operator is in the middle of anything during the boot.
Steady ==
    /\ \A n \in Node : admitted[n] => Live(n)
    /\ main = "admit" => Live(Order[pos])
    /\ main \in {"prep", "start", "admit"} => \A o \in Operator : op[o] = Idle
    /\ \A o \in Operator : /\ op[o].at = "admit" => Live(op[o].node)
                           /\ op[o].at = "stop" => ~admitted[op[o].node]

\* A step that admits nothing, ends no live service and moves no operator.
LEMMA SteadyKept ==
    ASSUME Inv, Steady, UNCHANGED op, \A n \in Node : Live(n) => Live(n)',
           \A n \in Node : admitted'[n] => admitted[n],
           main' = "admit" => main = "admit" /\ pos' = pos,
           main' \in {"prep", "start", "admit"} => main \in {"prep", "start", "admit"}
    PROVE  Steady'
<1>1. \A o \in Operator : op[o].at \in {"admit", "stop"} => op[o].node \in Node
  BY SMTT(30) DEF Inv, TypeOK, Idle
<1>2. main = "admit" => Order[pos] \in Node
  BY OrderFacts DEF Inv, BootOrder
<1> QED
  BY <1>1, <1>2 DEF Steady, Live

LEMMA SteadyMain ==
    ASSUME Inv, Steady, MainStep \/ Signal \/ SignalStep
    PROVE  Steady'
<1>0. TypeOK /\ BootOrder
  BY DEF Inv
<1>1. CASE BootStart
  <2>1. Order[pos] \in Node /\ main' = "admit" /\ main = "start" /\ StartOK(Order[pos])
        /\ UNCHANGED <<op, admitted, pos>>
    BY <1>0, <1>1, OrderFacts DEF BootStart, BootOrder
  <2>2. Live(Order[pos])' /\ \A n \in Node : Live(n) => Live(n)'
    BY <1>0, <2>1 DEF StartOK, TypeOK, Live
  <2> QED
    BY <2>1, <2>2, SMTT(30) DEF Steady, Idle, Live
<1>2. CASE BootAdmit
  <2>1. /\ admitted' = [admitted EXCEPT ![Order[pos]] = TRUE] /\ main = "admit"
        /\ main' \in {"wait", "start"} /\ UNCHANGED <<svc, op>>
    BY <1>2 DEF BootAdmit
  <2>2. \A n \in Node : admitted'[n] => Live(n)
    BY <1>0, <2>1 DEF TypeOK, Steady
  <2> QED
    BY <2>1, <2>2, SMTT(30) DEF Steady, Live, Idle
<1>3. CASE ~BootStart /\ ~BootAdmit
  <2>1. /\ UNCHANGED <<op, svc, admitted>>
        /\ main' = "admit" => main = "admit" /\ pos' = pos
        /\ main' \in {"prep", "start", "admit"} => main \in {"prep", "start", "admit"}
    BY <1>3 DEF MainStep, SignalStep, BeginBoot, SealRefused, BootFails, RollbackNext, RollbackDone,
       WaitServicesTerminated, ResourceCleanUp, Signal, NextLevel, CloseDone
  <2> QED
    BY <2>1, SteadyKept DEF Live
<1> QED
  BY <1>1, <1>2, <1>3

LEMMA SteadyServices ==
    ASSUME Inv, Steady, NEW n \in Node,
           WorkEnds(n) \/ Relay(n) \/ \E w \in Walker : TermStep(w, n)
    PROVE  Steady'
<1>0. TypeOK
  BY DEF Inv
<1>1. UNCHANGED <<op, main, pos>>
  BY DEF WorkEnds, Relay, TermStep, Revoke, CallTerminate, TerminateReturns, TerminatePanics,
     TakeReport, Abandon
<1>2. \A m \in Node : admitted'[m] => admitted[m]
  <2>1. UNCHANGED admitted \/ admitted' = [admitted EXCEPT ![n] = FALSE]
    BY DEF WorkEnds, Relay, TermStep, Revoke, CallTerminate, TerminateReturns, TerminatePanics,
       TakeReport, Abandon
  <2> QED
    BY <1>0, <2>1 DEF TypeOK
<1>3. \A m \in Node : Live(m) => Live(m)'
  <2>1. \/ UNCHANGED svc
        \/ svc' = [svc EXCEPT ![n] = "TERMINATING"]
        \/ svc' = [svc EXCEPT ![n] = IF @ = "STOPPING" THEN "READY" ELSE @]
    BY DEF WorkEnds, Relay, TermStep, Revoke, CallTerminate, TerminateReturns, TerminatePanics,
       TakeReport, Abandon
  <2> QED
    BY <1>0, <2>1 DEF TypeOK, Live
<1> QED
  BY <1>1, <1>2, <1>3, SteadyKept

\* The only operator moved, on a process that is up.
LEMMA SteadyAlone ==
    ASSUME NEW o \in Operator, \A p \in Operator : p = o, UNCHANGED <<main, pos>>,
           main \notin {"prep", "start", "admit"},
           \A m \in Node : admitted'[m] => svc'[m] \in {"RUNNING", "TERMINATING"},
           op'[o].at = "admit" => svc'[op'[o].node] \in {"RUNNING", "TERMINATING"},
           op'[o].at = "stop" => ~admitted'[op'[o].node]
    PROVE  Steady'
<1>1. \A p \in Operator :
        /\ op'[p].at = "admit" => svc'[op'[p].node] \in {"RUNNING", "TERMINATING"}
        /\ op'[p].at = "stop" => ~admitted'[op'[p].node]
  BY Zenon
<1> QED
  BY <1>1 DEF Steady, Live

LEMMA SteadyOperator ==
    ASSUME Inv, Steady, OperatorFrom = "up", \A o, p \in Operator : o = p,
           NEW o \in Operator, OperatorStep(o)
    PROVE  Steady'
<1>0. TypeOK
  BY DEF Inv
<1>1. UNCHANGED <<main, pos>>
  BY DEF OperatorStep, OpAdmit, OpStop, OpReturn, OpStart, OpRevoke
<1>2. \A p \in Operator : p = o
  OBVIOUS
<1>3. op[o].at \in {"admit", "stop", "stopping"} =>
        op[o].node \in Node /\ main \notin {"prep", "start", "admit"}
  BY <1>0, SMTT(30) DEF TypeOK, Idle, Steady
<1>4. ASSUME NEW n \in Node, OpStart(o, n) PROVE Steady'
  <2>1. main = "wait" /\ StartOK(n) /\ UNCHANGED admitted
    BY <1>4 DEF OpStart, OperatorMay, Up
  <2>2. op'[o].at = "admit" /\ op'[o].node = n
    BY <1>0, <1>4 DEF OpStart, TypeOK
  <2>3. svc'[n] \in {"RUNNING", "TERMINATING"} /\ \A m \in Node : Live(m) => Live(m)'
    BY <1>0, <2>1 DEF StartOK, TypeOK, Live
  <2>4. \A m \in Node : admitted'[m] => svc'[m] \in {"RUNNING", "TERMINATING"}
    BY <2>1, <2>3 DEF Steady, Live
  <2> QED
    BY <1>1, <1>2, <2>1, <2>2, <2>3, <2>4, SteadyAlone
<1>5. ASSUME NEW n \in Node, OpRevoke(o, n) PROVE Steady'
  <2>1. main = "wait" /\ admitted' = [admitted EXCEPT ![n] = FALSE] /\ UNCHANGED svc
    BY <1>5 DEF OpRevoke, OperatorMay, Up
  <2>2. op'[o].at = "stop" /\ op'[o].node = n
    BY <1>0, <1>5 DEF OpRevoke, TypeOK
  <2>3. ~admitted'[n] /\ \A m \in Node : admitted'[m] => svc'[m] \in {"RUNNING", "TERMINATING"}
    BY <1>0, <2>1 DEF TypeOK, Steady, Live
  <2> QED
    BY <1>1, <1>2, <2>1, <2>2, <2>3, SteadyAlone
<1>6. CASE OpAdmit(o)
  <2>1. op[o].at = "admit" /\ UNCHANGED svc
        /\ admitted' = [admitted EXCEPT ![op[o].node] = TRUE]
    BY <1>6 DEF OpAdmit
  <2>2. op'[o].at = "idle"
    BY <1>0, <1>6 DEF OpAdmit, TypeOK, Idle
  <2>3. \A m \in Node : admitted'[m] => svc'[m] \in {"RUNNING", "TERMINATING"}
    BY <1>0, <1>3, <2>1 DEF TypeOK, Steady, Live
  <2> QED
    BY <1>1, <1>2, <1>3, <2>1, <2>2, <2>3, SteadyAlone
<1>7. CASE OpStop(o)
  <2>1. op[o].at = "stop" /\ UNCHANGED admitted
        /\ svc' = [svc EXCEPT ![op[o].node] = IF @ = "RUNNING" THEN "STOPPING" ELSE @]
    BY <1>7 DEF OpStop
  <2>2. op'[o].at = "stopping"
    BY <1>0, <1>7 DEF OpStop, TypeOK
  <2>3. \A m \in Node : admitted'[m] => svc'[m] \in {"RUNNING", "TERMINATING"}
    BY <1>0, <1>3, <2>1, SMTT(30) DEF TypeOK, Steady, Live
  <2> QED
    BY <1>1, <1>2, <1>3, <2>1, <2>2, <2>3, SteadyAlone
<1>8. CASE OpReturn(o)
  <2>1. op[o].at = "stopping" /\ UNCHANGED <<svc, admitted>>
    BY <1>8 DEF OpReturn
  <2>2. op'[o].at = "idle"
    BY <1>0, <1>8 DEF OpReturn, TypeOK, Idle
  <2>3. \A m \in Node : admitted'[m] => svc'[m] \in {"RUNNING", "TERMINATING"}
    BY <2>1 DEF Steady, Live
  <2> QED
    BY <1>1, <1>2, <1>3, <2>1, <2>2, <2>3, SteadyAlone
<1> QED
  BY <1>4, <1>5, <1>6, <1>7, <1>8 DEF OperatorStep

\* In every service graph, with one operator at a time, a stopped service is not
\* admitted, whatever the boot, the rollback and the shutdown are at: an
\* operator's stop revokes before it stops, and only a service that was just
\* started is admitted.
THEOREM StoppedUnadmittedHolds ==
    ASSUME OperatorFrom = "up", \A o, p \in Operator : o = p
    PROVE  Spec => []StoppedUnadmitted
<1>1. Init => Steady
  BY SMTT(30) DEF Init, Steady, Idle
<1>2. Inv /\ Steady /\ [Next]_vars => Steady'
  <2> SUFFICES ASSUME Inv, Steady, [Next]_vars PROVE Steady'
    OBVIOUS
  <2>1. CASE UNCHANGED vars
    BY <2>1, SteadyKept DEF vars, Live
  <2> QED
    BY <2>1, SteadyMain, SteadyServices, SteadyOperator DEF Next, Gone
<1>3. Steady => StoppedUnadmitted
  BY DEF Steady, Live, StoppedUnadmitted
<1> QED
  BY <1>1, <1>2, <1>3, Invariance, PTL DEF Spec
=============================================================================
