--------------------------- MODULE ServiceProofs ---------------------------
(***************************************************************************)
(* Theorems about the service graph, the life cycle and the work of a      *)
(* service, and one service of the framework, the job scheduler.           *)
(***************************************************************************)
EXTENDS ServiceGraph, ServiceWork, JobSched, TLAPS

\* The prover of every step that names no other.
USE ZenonT(30)
-----------------------------------------------------------------------------
(***************************************************************************)
(* The service graph is sound for every set of services and every list of  *)
(* declarations, whatever the factories try to register while they run:    *)
(* the mark on the waiting node refuses it, so what was checked before the *)
(* factory ran still holds when its node is attached.                      *)
(***************************************************************************)
NodeType ==
    [name : Label, declared : Seq(Declaration), deps : UNION {[L -> BOOLEAN] : L \in SUBSET Label}]

GraphType == nodes \in Seq(NodeType) /\ dependents \in Seq(SUBSET [node : Nat, optional : BOOLEAN])

\* A factory runs only in an open graph, on a node whose checks still stand.
PendingResolved ==
    pending # <<>> =>
        /\ verdict = "open"
        /\ \E name \in Label, decl \in Seq(Declaration) :
              pending = <<Node(name, decl)>> /\ Checks(name, decl)

Wired == EdgesPointBack /\ DependentsMirror /\ NamesUnique /\ StrictestWins

GraphInv == GraphType /\ PendingResolved /\ Wired /\ SealedMeansWired
-----------------------------------------------------------------------------
\* The graph starts empty.
LEMMA InitGraphInv == GraphInit => GraphInv
BY SMTT(30) DEF GraphInit, GraphInv, GraphType, PendingResolved, Wired, EdgesPointBack, DependentsMirror, NamesUnique,
       StrictestWins, SealedMeansWired

\* resolve's node is one.
LEMMA NodeTyped ==
    ASSUME NEW name \in Label, NEW decl \in Seq(Declaration)
    PROVE  Node(name, decl) \in NodeType
<1> DEFINE L == {m \in Labels(decl) : byName(m) # {}}
           d == [l \in L |-> Edge(decl, l)]
<1>1. L \in SUBSET Label
  <2>1. \A k \in DOMAIN decl : decl[k] \in Declaration
    BY SMTT(30)
  <2> QED BY <2>1 DEF Labels, Declaration
<1>2. \A l \in L : Edge(decl, l) \in BOOLEAN
  BY DEF Edge
<1>3. d \in [L -> BOOLEAN]
  BY <1>2
<1>4. d \in UNION {[M -> BOOLEAN] : M \in SUBSET Label}
  BY <1>1, <1>3
<1>5. Node(name, decl) = [name |-> name, declared |-> decl, deps |-> d]
  BY DEF Node
<1> HIDE DEF d
<1> QED BY <1>4, <1>5, SMTT(30) DEF NodeType

\* attach appends the node, and its label is the only one that gains a position.
LEMMA Attached ==
    ASSUME GraphType, NEW n \in NodeType, attach(n)
    PROVE  /\ nodes' \in Seq(NodeType) /\ Len(nodes') = Len(nodes) + 1 /\ Len(nodes) \in Nat
           /\ DOMAIN nodes' = 1..Len(nodes) + 1 /\ DOMAIN nodes = 1..Len(nodes)
           /\ \A i \in 1..Len(nodes) : nodes'[i] = nodes[i]
           /\ nodes'[Len(nodes) + 1] = n
           /\ \A l : l # n.name => byName(l)' = byName(l)
           /\ byName(n.name)' = byName(n.name) \cup {Len(nodes) + 1}
<1>1. /\ nodes' \in Seq(NodeType) /\ Len(nodes') = Len(nodes) + 1 /\ Len(nodes) \in Nat
      /\ DOMAIN nodes' = 1..Len(nodes) + 1 /\ DOMAIN nodes = 1..Len(nodes)
      /\ \A i \in 1..Len(nodes) : nodes'[i] = nodes[i]
      /\ nodes'[Len(nodes) + 1] = n
  BY SMTT(30) DEF GraphType, attach
<1>2. \A l : byName(l)' = {i \in 1..Len(nodes) + 1 : nodes'[i].name = l}
  BY <1>1 DEF byName
<1>3. \A l : byName(l) = {i \in 1..Len(nodes) : nodes[i].name = l}
  BY <1>1 DEF byName
<1>4. 1..Len(nodes) + 1 = (1..Len(nodes)) \cup {Len(nodes) + 1}
  BY <1>1, SMTT(30)
<1>5. ASSUME NEW l, l # n.name PROVE byName(l)' = byName(l)
  BY <1>1, <1>2, <1>3, <1>4, <1>5
<1>6. byName(n.name)' = byName(n.name) \cup {Len(nodes) + 1}
  BY <1>1, <1>2, <1>3, <1>4
<1> QED BY <1>1, <1>5, <1>6

\* Attaching a node that passed the checks keeps the graph wired.
LEMMA AttachStep ==
    ASSUME GraphType, Wired, NEW name \in Label, NEW decl \in Seq(Declaration),
           Checks(name, decl), attach(Node(name, decl))
    PROVE  GraphType' /\ Wired'
<1> DEFINE n == Node(name, decl)
           N == Len(nodes)
<1>n. n \in NodeType
  BY NodeTyped
<1>f. /\ n.name = name /\ n.declared = decl
      /\ DOMAIN n.deps = {m \in Labels(decl) : byName(m) # {}}
      /\ \A l \in DOMAIN n.deps : n.deps[l] = Edge(decl, l)
  BY DEF Node
<1>c. byName(name) = {}
  BY DEF Checks
<1>d. \A k \in DOMAIN decl : decl[k].optional \/ byName(decl[k].label) # {}
  BY DEF Checks
<1>attach. attach(n)
  OBVIOUS
<1> HIDE DEF n
<1>a. /\ nodes' \in Seq(NodeType) /\ Len(nodes') = N + 1 /\ N \in Nat
      /\ DOMAIN nodes' = 1..N + 1 /\ DOMAIN nodes = 1..N
      /\ \A i \in 1..N : nodes'[i] = nodes[i]
      /\ nodes'[N + 1] = n
      /\ \A l : l # name => byName(l)' = byName(l)
      /\ byName(name)' = {N + 1}
  BY <1>n, <1>f, <1>c, <1>attach, Attached
<1>old. \A i \in 1..N : name \notin DOMAIN nodes[i].deps
  <2> SUFFICES ASSUME NEW i \in 1..N, name \in DOMAIN nodes[i].deps PROVE FALSE
    OBVIOUS
  <2>1. PICK j \in 1..(i - 1) : byName(name) = {j}
    BY <1>a DEF Wired, EdgesPointBack
  <2> QED BY <2>1, <1>c
<1>new. name \notin DOMAIN n.deps
  BY <1>f, <1>c
<1>1. EdgesPointBack'
  <2> SUFFICES ASSUME NEW i \in 1..N + 1, NEW l \in DOMAIN nodes'[i].deps
               PROVE  \E j \in 1..(i - 1) : byName(l)' = {j}
    BY <1>a DEF EdgesPointBack
  <2>1. CASE i \in 1..N
    <3>1. l \in DOMAIN nodes[i].deps /\ l # name
      BY <2>1, <1>a, <1>old
    <3> QED BY <2>1, <3>1, <1>a, SMTT(30) DEF Wired, EdgesPointBack
  <2>2. CASE i = N + 1
    <3>1. l # name /\ byName(l) # {}
      BY <2>2, <1>a, <1>f, <1>new
    <3>2. PICK j \in 1..N : nodes[j].name = l
      BY <3>1, <1>a DEF byName
    <3>3. byName(l) = {j}
      BY <3>2, <1>a DEF byName, Wired, NamesUnique
    <3> QED BY <2>2, <3>1, <3>3, <1>a, SMTT(30)
  <2> QED BY <2>1, <2>2, <1>a, SMTT(30)
<1>2. NamesUnique'
  <2>1. \A i \in 1..N : nodes[i].name # name
    BY <1>c, <1>a DEF byName
  <2> QED BY <2>1, <1>a, <1>f, SMTT(30) DEF NamesUnique, Wired
<1>3. StrictestWins'
  <2> SUFFICES ASSUME NEW i \in 1..N + 1, NEW k \in DOMAIN nodes'[i].declared,
                      ~nodes'[i].declared[k].optional
               PROVE  /\ nodes'[i].declared[k].label \in DOMAIN nodes'[i].deps
                      /\ ~nodes'[i].deps[nodes'[i].declared[k].label]
    BY <1>a DEF StrictestWins
  <2>1. CASE i \in 1..N
    BY <2>1, <1>a DEF StrictestWins, Wired
  <2>2. CASE i = N + 1
    <3>1. k \in DOMAIN decl /\ ~decl[k].optional /\ nodes'[i] = n
      BY <2>2, <1>a, <1>f
    <3>2. decl[k].label \in DOMAIN n.deps
      BY <3>1, <1>d, <1>f DEF Labels
    <3>3. ~Edge(decl, decl[k].label)
      BY <3>1 DEF Edge
    <3> QED BY <3>1, <3>2, <3>3, <1>f
  <2> QED BY <2>1, <2>2, <1>a, SMTT(30)
<1>4. /\ DOMAIN dependents' = 1..N + 1
      /\ \A j \in 1..N : dependents'[j] = IF nodes[j].name \in DOMAIN n.deps
              THEN dependents[j] \cup {[node |-> N + 1, optional |-> n.deps[nodes[j].name]]}
              ELSE dependents[j]
      /\ dependents'[N + 1] = {}
  <2>1. dependents' = [i \in 1..N + 1 |->
                         IF i > N THEN {}
                         ELSE IF nodes[i].name \in DOMAIN n.deps
                         THEN dependents[i] \cup {[node |-> N + 1, optional |-> n.deps[nodes[i].name]]}
                         ELSE dependents[i]]
    BY <1>attach DEF attach
  <2>2. \A j \in 1..N : j \in 1..N + 1 /\ ~(j > N)
    BY <1>a, SMTT(30)
  <2>3. N + 1 \in 1..N + 1 /\ N + 1 > N
    BY <1>a, SMTT(30)
  <2> HIDE DEF N
  <2> QED BY ONLY <2>1, <2>2, <2>3
<1>5. dependents' \in Seq(SUBSET [node : Nat, optional : BOOLEAN]) /\ Len(dependents') = N + 1
  <2>1. \A j \in 1..N : dependents[j] \in SUBSET [node : Nat, optional : BOOLEAN]
    BY SMTT(30) DEF GraphType, Wired, DependentsMirror
  <2>2. \A l \in DOMAIN n.deps : n.deps[l] \in BOOLEAN
    BY <1>f DEF Edge
  <2>3. ASSUME NEW j \in 1..N, nodes[j].name \in DOMAIN n.deps
        PROVE  [node |-> N + 1, optional |-> n.deps[nodes[j].name]] \in [node : Nat, optional : BOOLEAN]
    BY <2>2, <2>3, <1>a, SMTT(30)
  <2>4. ASSUME NEW j \in 1..N + 1 PROVE dependents'[j] \in SUBSET [node : Nat, optional : BOOLEAN]
    <3>1. CASE j \in 1..N
      <4>1. CASE nodes[j].name \in DOMAIN n.deps
        <5>1. dependents'[j] = dependents[j] \cup {[node |-> N + 1, optional |-> n.deps[nodes[j].name]]}
          BY <3>1, <4>1, <1>4
        <5>2. [node |-> N + 1, optional |-> n.deps[nodes[j].name]] \in [node : Nat, optional : BOOLEAN]
          BY <3>1, <4>1, <2>3
        <5>3. dependents[j] \in SUBSET [node : Nat, optional : BOOLEAN]
          BY <3>1, <2>1
        <5> QED BY ONLY <5>1, <5>2, <5>3
      <4>2. CASE nodes[j].name \notin DOMAIN n.deps
        BY <3>1, <4>2, <2>1, <1>4
      <4> QED BY <4>1, <4>2
    <3>2. CASE j = N + 1
      BY <3>2, <1>4
    <3> QED BY <3>1, <3>2, <1>a, SMTT(30)
  <2>5. dependents' = [j \in 1..N + 1 |-> dependents'[j]]
    BY <1>attach, <1>a DEF attach
  <2>6. dependents' \in [1..N + 1 -> SUBSET [node : Nat, optional : BOOLEAN]]
    BY <2>4, <2>5
  <2> QED BY <2>6, <1>a, SMTT(30)
<1>6. DependentsMirror'
  <2> SUFFICES ASSUME NEW j \in 1..N + 1
               PROVE  dependents'[j] =
                        {[node |-> i, optional |-> nodes'[i].deps[nodes'[j].name]] :
                            i \in {k \in 1..N + 1 : nodes'[j].name \in DOMAIN nodes'[k].deps}}
    BY <1>a, <1>5 DEF DependentsMirror
  <2>1. CASE j = N + 1
    <3>1. nodes'[j].name = name
      BY <2>1, <1>a, <1>f
    <3>2. \A k \in 1..N + 1 : name \notin DOMAIN nodes'[k].deps
      BY <1>old, <1>new, <1>a, SMTT(30)
    <3> QED BY <2>1, <3>1, <3>2, <1>4
  <2>2. CASE j \in 1..N
    <3> DEFINE m == nodes[j].name
               E(i) == [node |-> i, optional |-> nodes'[i].deps[m]]
               K == {k \in 1..N : m \in DOMAIN nodes[k].deps}
               P == {k \in 1..N + 1 : m \in DOMAIN nodes'[k].deps}
    <3>1. nodes'[j].name = m
      BY <2>2, <1>a
    <3>2. dependents[j] = {[node |-> i, optional |-> nodes[i].deps[m]] : i \in K}
      BY <2>2, <1>a DEF Wired, DependentsMirror
    <3>3. {[node |-> i, optional |-> nodes[i].deps[m]] : i \in K} = {E(i) : i \in K}
      BY <1>a
    <3>4. P = IF m \in DOMAIN n.deps THEN K \cup {N + 1} ELSE K
      BY <1>a, SMTT(30)
    <3>5. E(N + 1) = [node |-> N + 1, optional |-> n.deps[m]]
      BY <1>a
    <3>6. dependents'[j] = IF m \in DOMAIN n.deps THEN {E(i) : i \in K} \cup {E(N + 1)} ELSE {E(i) : i \in K}
      BY <2>2, <3>2, <3>3, <3>5, <1>4
    <3> HIDE DEF E, K
    <3>7. dependents'[j] = {E(i) : i \in P}
      BY <3>4, <3>6
    <3> QED BY <3>1, <3>7 DEF E
  <2> QED BY <2>1, <2>2, <1>a, SMTT(30)
<1> QED BY <1>a, <1>1, <1>2, <1>3, <1>5, <1>6 DEF GraphType, Wired

\* Every step keeps the invariant.
LEMMA GraphInvStep == ASSUME GraphInv, [GraphNext]_graphVars PROVE GraphInv'
<1>i. GraphType /\ PendingResolved /\ Wired /\ SealedMeansWired
  BY DEF GraphInv
<1>same. ASSUME UNCHANGED <<nodes, dependents>>
         PROVE  /\ GraphType' /\ Wired'
                /\ \A name, decl : Node(name, decl)' = Node(name, decl) /\ Checks(name, decl)' = Checks(name, decl)
  <2>1. \A l : byName(l)' = byName(l)
    BY <1>same DEF byName
  <2>2. GraphType' /\ Wired'
    BY <1>i, <1>same, <2>1, SMTT(30) DEF GraphType, Wired, EdgesPointBack, DependentsMirror, NamesUnique, StrictestWins
  <2>3. \A name, decl : Checks(name, decl)' = Checks(name, decl)
    BY <2>1 DEF Checks
  <2>4. \A name, decl : Node(name, decl)' = Node(name, decl)
    BY <2>1 DEF Node
  <2> QED BY <2>2, <2>3, <2>4
<1>open. ASSUME verdict' = "open", pending' = <<>> PROVE PendingResolved' /\ SealedMeansWired'
  BY <1>open DEF PendingResolved, SealedMeansWired
<1>1. CASE UNCHANGED graphVars
  <2>1. UNCHANGED <<nodes, dependents>> /\ pending' = pending /\ verdict' = verdict
    BY <1>1 DEF graphVars
  <2>2. PendingResolved'
    BY <2>1, <1>i, <1>same DEF PendingResolved
  <2>3. SealedMeansWired'
    BY <2>1, <1>i DEF SealedMeansWired, byName
  <2> QED BY <2>1, <2>2, <2>3, <1>same DEF GraphInv
<1>2. ASSUME NEW name \in Label, NEW decl \in DepList, RegisterService(name, decl) PROVE GraphInv'
  <2>1. decl \in Seq(Declaration)
    BY ListsAssumption
  <2>2. GraphType' /\ Wired'
    BY <1>2, <1>i, <2>1, AttachStep DEF RegisterService, Resolvable
  <2> QED BY <1>2, <2>2, <1>open DEF RegisterService, Resolvable, GraphInv
<1>3. ASSUME NEW name \in Label, NEW decl \in DepList, Build(name, decl) PROVE GraphInv'
  <2>1. decl \in Seq(Declaration)
    BY ListsAssumption
  <2>2. /\ UNCHANGED <<nodes, dependents>> /\ verdict' = "open" /\ Checks(name, decl)
        /\ pending' = <<Node(name, decl)>>
    BY <1>3 DEF Build, Resolvable
  <2>3. PendingResolved'
    BY <2>1, <2>2, <1>same DEF PendingResolved
  <2>4. SealedMeansWired'
    BY <2>2 DEF SealedMeansWired
  <2> QED BY <2>2, <2>3, <2>4, <1>same DEF GraphInv
<1>4. CASE BuildFails
  <2>1. UNCHANGED <<nodes, dependents>> /\ verdict' = "open" /\ pending' = <<>>
    BY <1>4, <1>i DEF BuildFails, PendingResolved
  <2> QED BY <2>1, <1>same, <1>open DEF GraphInv
<1>5. CASE BuildAttaches
  <2>1. verdict' = "open" /\ pending' = <<>>
    BY <1>5, <1>i DEF BuildAttaches, PendingResolved
  <2>2. PICK name \in Label, decl \in Seq(Declaration) :
          pending = <<Node(name, decl)>> /\ Checks(name, decl)
    BY <1>5, <1>i DEF BuildAttaches, PendingResolved
  <2>3. attach(Node(name, decl))
    BY <1>5, <2>2 DEF BuildAttaches
  <2> QED BY <2>1, <2>2, <2>3, <1>i, <1>open, AttachStep DEF GraphInv
<1>6. ASSUME NEW own \in OwnList, BuildJoins(own) PROVE GraphInv'
  <2>1. verdict' = "open" /\ pending' = <<>>
    BY <1>6, <1>i DEF BuildJoins, PendingResolved
  <2>2. PICK name \in Label, first \in Seq(Declaration) : pending = <<Node(name, first)>>
    BY <1>6, <1>i DEF BuildJoins, PendingResolved
  <2>3. pending[1].name = name /\ pending[1].declared = first
    BY <2>2 DEF Node
  <2> DEFINE decl == own \o first
  <2>4. decl \in Seq(Declaration)
    BY ListsAssumption, SMTT(30)
  <2>5. IF Checks(name, decl) THEN attach(Node(name, decl)) ELSE UNCHANGED <<nodes, dependents>>
    BY <1>6, <2>3 DEF BuildJoins
  <2> HIDE DEF decl
  <2>6. GraphType' /\ Wired'
    BY <2>4, <2>5, <1>i, <1>same, AttachStep
  <2> QED BY <2>1, <2>6, <1>open DEF GraphInv
<1>7. CASE Seal
  <2>1. UNCHANGED <<nodes, dependents>> /\ pending' = <<>>
    BY <1>7 DEF Seal
  <2>2. PendingResolved'
    BY <2>1 DEF PendingResolved
  <2>3. SealedMeansWired'
    <3> SUFFICES ASSUME verdict' = "sealed", NEW i \in DOMAIN nodes, NEW k \in DOMAIN nodes[i].declared,
                        byName(nodes[i].declared[k].label) # {}
                 PROVE  nodes[i].declared[k].label \in DOMAIN nodes[i].deps
      BY <2>1 DEF SealedMeansWired, byName
    <3>1. ~Late(i, k)
      BY <1>7 DEF Seal
    <3>2. CASE nodes[i].declared[k].optional
      BY <3>1, <3>2 DEF Late
    <3>3. CASE ~nodes[i].declared[k].optional
      BY <3>3, <1>i DEF Wired, StrictestWins
    <3> QED BY <3>2, <3>3
  <2> QED BY <2>1, <2>2, <2>3, <1>same DEF GraphInv
<1> QED BY <1>1, <1>2, <1>3, <1>4, <1>5, <1>6, <1>7 DEF GraphNext
-----------------------------------------------------------------------------
\* At every point of a registration, whatever factories try to register while they run, the graph is
\* acyclic, its two indexes agree, names are unique, an edge has the strictest kind declared, and
\* a sealed graph misses none (GraphSound).
THEOREM GraphSoundHolds == GraphSpec => []GraphSound
<1>1. GraphInv => GraphSound
  BY DEF GraphInv, Wired, GraphSound
<1> QED BY <1>1, InitGraphInv, GraphInvStep, PTL DEF GraphSpec
-----------------------------------------------------------------------------
(***************************************************************************)
(* The life cycle and the work: for any number of cycles and units of work *)
(* and every kind of service, a cycle that is over leaves nothing behind,  *)
(* a report without an error means the service is down, and a service none *)
(* of whose Stops gave up is terminated once and for good.                 *)
(*                                                                         *)
(* The argument is in two layers.  LifeInv is about the state word, the    *)
(* lifecycle caller and the run goroutines alone, and every step of the    *)
(* service is one of theirs or leaves them as they are; WorkInv adds what  *)
(* the units, the socket's file and its cleaners have to do with the       *)
(* cycles.                                                                 *)
(***************************************************************************)
\* The run goroutine of cycle k has not decided yet, or has still to store READY.
Up(k) == run[k] \in {"loop", "drain", "toReady"}

LifeTypes ==
    /\ state \in {"READY", "RUNNING", "STOPPING", "TERMINATING"}
    /\ cycle \in 0..MaxCycles
    /\ run \in [Cycle -> {"none", "loop", "drain", "toReady", "toClose", "done"}]
    /\ pc \in {"idle", "stop", "stopWait", "store", "cancel", "wait", "send"}
    /\ sends \in Nat

\* Only the current cycle is up, and it is not while the service is READY.
OneCycle ==
    /\ \A k \in Cycle : /\ k > cycle <=> run[k] = "none"
                        /\ Up(k) => k = cycle /\ state # "READY"
                        /\ run[k] = "toReady" => state # "RUNNING"
    /\ state \in {"RUNNING", "STOPPING"} => cycle > 0

\* What the caller loaded still stands when it acts on it.
Caller ==
    /\ pc = "store" => /\ prev \in {"READY", "RUNNING", "STOPPING"}
                       /\ prev # "STOPPING" => state = prev
                       /\ prev # "READY" => cycle > 0
    /\ pc \in {"stop", "stopWait", "cancel", "wait"} => cycle > 0
    /\ pc \in {"stop", "stopWait"} => state \in {"STOPPING", "READY"}
    /\ pc = "send" /\ ret.ok => \A k \in Cycle : ~Up(k)

\* Without an expired Stop only a Stop under way meets a run goroutine that has
\* loaded STOPPING, so nothing takes TERMINATING back and one report is sent.
Unexpired ==
    ~expired =>
        /\ \A k \in Cycle : run[k] = "toReady" => pc \in {"stop", "stopWait"}
        /\ state = "STOPPING" /\ pc \notin {"stop", "stopWait"} => \A k \in Cycle : ~Up(k)
        /\ pc \in {"cancel", "wait", "send"} => state = "TERMINATING"
        /\ sends > 0 => sends = 1 /\ state = "TERMINATING" /\ pc = "idle"

LifeInv == LifeTypes /\ OneCycle /\ Caller /\ Unexpired

CallerStep ==
    \/ StartIdle \/ StartFails \/ Start \/ StopIdle \/ Stop \/ TerminateIdle \/ Terminate
    \/ StoreTerminating \/ Cancel \/ StopReturns \/ StopExpires
    \/ (\E ok \in BOOLEAN : TerminateWaited(ok)) \/ Send \/ Collect
RunStep(k) == LeaveLoop(k) \/ LoadAfterRun(k) \/ StoreReady(k) \/ CloseStopped(k)

-----------------------------------------------------------------------------
LEMMA LifeInit == LifecycleInit => LifeInv
BY BoundAssumption, SMTT(30) DEF LifecycleInit, LifeInv, LifeTypes, OneCycle, Caller, Unexpired, Up, Cycle

\* The caller's steps other than Start leave the run goroutines where they are.
LEMMA CallerKeeps ==
    ASSUME LifeInv, CallerStep
    PROVE  LifeInv'
<1> USE DEF LifeInv, LifeTypes, OneCycle, Caller, Unexpired, Up, Return
<1>1. CASE StartIdle
      BY <1>1 DEF StartIdle
<1>2. CASE StartFails
      BY <1>2 DEF StartFails
<1>3. CASE Start
      BY <1>3, BoundAssumption, SMTT(30) DEF Start, Cycle
<1>4. CASE StopIdle
      BY <1>4 DEF StopIdle
<1>5. CASE Stop
      BY <1>5 DEF Stop
<1>6. CASE TerminateIdle
      BY <1>6 DEF TerminateIdle
<1>7. CASE Terminate
      BY <1>7 DEF Terminate
<1>8. CASE StoreTerminating
      BY <1>8 DEF StoreTerminating, AfterStore
<1>9. CASE Cancel
      BY <1>9 DEF Cancel
<1>10. CASE StopReturns
      BY <1>10, BoundAssumption DEF StopReturns, Cycle
<1>11. CASE StopExpires
      BY <1>11 DEF StopExpires
<1>12. ASSUME NEW ok \in BOOLEAN, TerminateWaited(ok) PROVE LifeInv'
      BY <1>12, BoundAssumption DEF TerminateWaited, Cycle
<1>13. CASE Send
      BY <1>13, SMTT(30) DEF Send
<1>14. CASE Collect
      BY <1>14 DEF Collect
<1> QED BY <1>1, <1>2, <1>3, <1>4, <1>5, <1>6, <1>7, <1>8, <1>9, <1>10, <1>11, <1>12, <1>13, <1>14
        DEF CallerStep

LEMMA RunKeeps ==
    ASSUME LifeInv, NEW k \in Cycle, RunStep(k)
    PROVE  LifeInv'
<1> USE DEF LifeInv, LifeTypes, OneCycle, Caller, Unexpired, Up
<1>1. CASE LeaveLoop(k)
      BY <1>1 DEF LeaveLoop
<1>2. CASE LoadAfterRun(k)
      BY <1>2 DEF LoadAfterRun
<1>3. CASE StoreReady(k)
      BY <1>3 DEF StoreReady
<1>4. CASE CloseStopped(k)
      BY <1>4 DEF CloseStopped
<1> QED BY <1>1, <1>2, <1>3, <1>4 DEF RunStep

\* Every step of the service is one of the lifecycle's, or leaves it as it is.
LEMMA WorkIsLife ==
    ASSUME [WorkNext]_allVars
    PROVE  CallerStep \/ (\E k \in Cycle : RunStep(k)) \/ UNCHANGED lifecycleVars
BY DEF WorkNext, LifeStep, StartsWork, StartRefused, LifeGoesOn, CancelsWork, RunWork, LeavesWork,
       WaitsWork, RootCancel, Clean, CloseListener, RemoveFile, WorkStep, StartJob, register,
       OpenStream, Accept, RunCommand, CommandReturns, EndWork, unworked, allVars,
       CallerStep, RunStep

LEMMA LifeKept ==
    ASSUME LifeInv, [WorkNext]_allVars
    PROVE  LifeInv'
<1>1. CASE UNCHANGED lifecycleVars
      BY <1>1 DEF lifecycleVars, LifeInv, LifeTypes, OneCycle, Caller, Unexpired, Up
<1> QED BY <1>1, WorkIsLife, CallerKeeps, RunKeeps

\* What a step of the lifecycle may do: report, and leave TERMINATING.
LEMMA LifeActs ==
    ASSUME LifeInv, [WorkNext]_allVars
    PROVE  /\ sends' # sends /\ ret.ok => \A k \in Cycle : ~Active(k)
           /\ ~expired => /\ state = "TERMINATING" => state' = "TERMINATING"
                          /\ sends' <= 1
<1> USE DEF LifeInv, LifeTypes, OneCycle, Caller, Unexpired, Up, Active
<1>1. CASE UNCHANGED lifecycleVars
      BY <1>1, SMTT(30) DEF lifecycleVars
<1>2. CASE CallerStep
  <2>1. CASE Send
        BY <2>1, SMTT(30) DEF Send
  <2>2. CASE Start \/ Stop
    <3>1. sends' = sends /\ state # "TERMINATING"
          BY <2>2 DEF Start, Stop
    <3> QED BY <3>1, SMTT(30)
  <2>3. CASE ~(Send \/ Start \/ Stop)
    <3>1. sends' = sends /\ state' \in {state, "TERMINATING"}
          BY <1>2, <2>3 DEF CallerStep, StartIdle, StartFails, StopIdle, TerminateIdle, Terminate,
             StoreTerminating, Cancel, StopReturns, StopExpires, TerminateWaited, Collect
    <3> QED BY <3>1, SMTT(30)
  <2> QED BY <2>1, <2>2, <2>3
<1>3. ASSUME NEW k \in Cycle, RunStep(k)
      PROVE  /\ sends' # sends /\ ret.ok => \A c \in Cycle : ~Active(c)
             /\ ~expired => /\ state = "TERMINATING" => state' = "TERMINATING"
                            /\ sends' <= 1
      BY <1>3, SMTT(30) DEF RunStep, LeaveLoop, LoadAfterRun, StoreReady, CloseStopped
<1> QED BY <1>1, <1>2, <1>3, WorkIsLife

-----------------------------------------------------------------------------
WorkTypes ==
    /\ cancelled \subseteq Cycle
    /\ work \in [Unit -> {"none", "entering", "on", "busy"}]
    /\ of \in [Unit -> 0..MaxCycles]
    /\ cleaner \in [Cycle -> {"none", "waiting", "closed", "done"}]
    /\ file \in 0..MaxCycles

\* A unit is of a cycle that was opened.  The loop of a scheduler or an SSE service
\* is left only when its context is over, which while a stream registers it is not
\* under the mutex; so a stream that is counted is counted before the wait.
Units ==
    /\ \A u \in Unit : /\ work[u] # "none" => of[u] \in Cycle /\ of[u] <= cycle
                       /\ work[u] = "entering" => kind = "sse" /\ of[u] \notin cancelled
                       /\ work[u] = "busy" => kind = "uds"
    /\ kind \in {"jobsched", "sse"} =>
         \A k \in Cycle : k <= cycle /\ ~CycleOver(k) => run[k] = "loop"
    /\ WorkEndsFirst

\* The file is that of a cycle whose cleaner still waits, and then its loop runs.
Socket ==
    /\ file # 0 => kind = "uds" /\ cleaner[file] = "waiting"
    /\ \A k \in Cycle : cleaner[k] = "waiting" => kind = "uds" /\ run[k] = "loop"

WorkInv == LifeInv /\ WorkTypes /\ Units /\ Socket

LEMMA WorkInitInv == WorkInit => WorkInv
<1> SUFFICES ASSUME WorkInit PROVE WorkInv
    OBVIOUS
<1>1. LifeInv /\ WorkTypes
      BY LifeInit, BoundAssumption, SMTT(30) DEF WorkInit, LifecycleInit, WorkTypes
<1>2. Units /\ Socket
      BY SMTT(30) DEF WorkInit, LifecycleInit, Units, Socket, WorkEndsFirst, Cycle
<1> QED BY <1>1, <1>2 DEF WorkInv

\* A unit's step changes the unit and nothing else.
LEMMA UnitKeeps ==
    ASSUME WorkInv, NEW u \in Unit, WorkStep(u)
    PROVE  WorkTypes' /\ Units' /\ Socket'
<1> USE BoundAssumption
    DEF WorkInv, LifeInv, LifeTypes, WorkTypes, Units, Socket, WorkEndsFirst, Active, CycleOver, Cycle,
        To, unworked, lifecycleVars
<1>1. CASE StartJob(u)
      BY <1>1, SMTT(30) DEF StartJob, Looping
<1>2. CASE register(u)
      BY <1>2, SMTT(30) DEF register, MuFree
<1>3. CASE OpenStream(u)
      BY <1>3 DEF OpenStream
<1>4. CASE Accept(u)
      BY <1>4, SMTT(30) DEF Accept, Looping
<1>5. CASE RunCommand(u)
      BY <1>5 DEF RunCommand
<1>6. CASE CommandReturns(u)
      BY <1>6 DEF CommandReturns
<1>7. CASE EndWork(u)
      BY <1>7, SMTT(30) DEF EndWork
<1> QED BY <1>1, <1>2, <1>3, <1>4, <1>5, <1>6, <1>7 DEF WorkStep

LEMMA CyclesKeep ==
    ASSUME WorkInv, LifeStep \/ RootCancel \/ \E k \in Cycle : RunWork(k) \/ Clean(k)
    PROVE  WorkTypes' /\ Units' /\ Socket'
<1> USE DEF WorkInv, LifeInv, LifeTypes, OneCycle, WorkTypes, Units, Socket, WorkEndsFirst, Active,
            CycleOver, Up, workVars
<1>1. CASE StartsWork
      BY <1>1, BoundAssumption, SMTT(30) DEF StartsWork, Start, Cycle
<1>2. CASE CancelsWork
      BY <1>2, BoundAssumption, SMTT(30) DEF CancelsWork, Cancel, MuFree, Caller, Cycle
<1>3. CASE UNCHANGED <<cycle, cancelled, run, workVars>>
      BY <1>3
<1>4. CASE LifeStep
      BY <1>1, <1>2, <1>3, <1>4
      DEF LifeStep, StartRefused, LifeGoesOn, StartIdle, StartFails, StopIdle, Stop, TerminateIdle,
          Terminate, StoreTerminating, StopReturns, StopExpires, TerminateWaited, Send, Collect
<1>5. CASE RootCancel
      BY <1>5 DEF RootCancel, lifecycleVars
<1>6. ASSUME NEW k \in Cycle, RunWork(k)
      PROVE  WorkTypes' /\ Units' /\ Socket'
  <2>1. CASE LeavesWork(k)
        BY <1>6, <2>1, SMTT(30) DEF LeavesWork, LeaveLoop
  <2>2. CASE WaitsWork(k)
        BY <1>6, <2>2 DEF WaitsWork, LoadAfterRun
  <2>3. CASE (StoreReady(k) \/ CloseStopped(k)) /\ UNCHANGED workVars
        BY <1>6, <2>3, SMTT(30) DEF StoreReady, CloseStopped
  <2> QED BY <1>6, <2>1, <2>2, <2>3 DEF RunWork
<1>7. ASSUME NEW k \in Cycle, Clean(k)
      PROVE  WorkTypes' /\ Units' /\ Socket'
  <2>1. CASE CloseListener(k)
        BY <2>1, BoundAssumption, SMTT(30) DEF CloseListener, lifecycleVars
  <2>2. CASE RemoveFile(k)
        BY <2>2, BoundAssumption, SMTT(30) DEF RemoveFile, lifecycleVars
  <2> QED BY <1>7, <2>1, <2>2 DEF Clean
<1> QED BY <1>4, <1>5, <1>6, <1>7

LEMMA WorkKept ==
    ASSUME WorkInv, [WorkNext]_allVars
    PROVE  WorkInv'
<1>1. LifeInv'
      BY LifeKept DEF WorkInv
<1>2. CASE UNCHANGED allVars
      BY <1>1, <1>2 DEF allVars, lifecycleVars, workVars, WorkInv, WorkTypes, Units, Socket, WorkEndsFirst,
                        Active, CycleOver
<1>3. CASE WorkNext
      BY <1>1, <1>3, UnitKeeps, CyclesKeep DEF WorkNext, WorkInv
<1> QED BY <1>2, <1>3

-----------------------------------------------------------------------------
\* The run goroutines of the scheduler and the SSE service wait for their units, and
\* the control socket's loop ends after its file is gone: a cycle that is over
\* leaves nothing behind, for any number of cycles and units of work.
THEOREM CycleLeavesNothingHolds == WorkSpec => []CycleLeavesNothing
<1>1. WorkInv => CycleLeavesNothing
  <2> SUFFICES ASSUME WorkInv PROVE ReadyMeansFree
      BY DEF WorkInv, Units, CycleLeavesNothing
  <2>1. ASSUME file # 0, state = "READY" PROVE FALSE
    <3>1. file \in Cycle
          BY <2>1, BoundAssumption, SMTT(30) DEF WorkInv, WorkTypes, Cycle
    <3>2. Up(file)
          BY <2>1, <3>1 DEF WorkInv, Socket, Up
    <3> QED BY <2>1, <3>1, <3>2 DEF WorkInv, LifeInv, OneCycle
  <2> QED BY <2>1 DEF ReadyMeansFree
<1> QED BY WorkInitInv, WorkKept, <1>1, PTL DEF WorkSpec

\* Terminate, in every state of the run goroutine and however its wait ends: when the
\* terminated channel is sent a value and the error is nil, no cycle is at work.
THEOREM ReportMeansDownHolds == WorkSpec => ReportMeansDown
<1>1. LifeInv /\ [WorkNext]_allVars =>
        [sends' # sends /\ ret.ok => \A k \in Cycle : ~Active(k)]_lifecycleVars
      BY LifeActs
<1>2. WorkInit => LifeInv
      BY LifeInit DEF WorkInit
<1> QED BY <1>1, <1>2, LifeKept, PTL DEF WorkSpec, ReportMeansDown

\* transitionAfterRun's load and store and Terminate's never cross unless a Stop gave
\* up waiting: TERMINATING stays, and the channel's one slot is used once.
THEOREM TerminatedOnceHolds == WorkSpec => TerminatedOnce
<1>1. LifeInv /\ [WorkNext]_allVars =>
        [~expired => /\ state = "TERMINATING" => state' = "TERMINATING"
                     /\ sends' <= 1]_lifecycleVars
      BY LifeActs
<1>2. WorkInit => LifeInv
      BY LifeInit DEF WorkInit
<1> QED BY <1>1, <1>2, LifeKept, PTL DEF WorkSpec, TerminatedOnce
-----------------------------------------------------------------------------
(***************************************************************************)
(* The job scheduler: for any number of instances, jobs, registrations and *)
(* faults, a planned minute of a OncePerApp job is run at most once, as    *)
(* long as a mark lives longer than a minute, the disagreement of two      *)
(* clocks and the lateness of a walk together.                             *)
(*                                                                         *)
(* The argument is about time.  A claim of a planned minute is made within *)
(* MaxLag of a tick inside that minute, by a clock at most MaxSkew ahead   *)
(* of the real one; so all claims of one minute fall in a stretch of U +   *)
(* MaxSkew + MaxLag, and the mark of the first outlives it.                *)
(***************************************************************************)
Walking(i) == step[i] \notin {"select", "exited"}

Types ==
    /\ clock \in Nat
    /\ skew \in [Instance -> 0..MaxSkew]
    /\ due \in [Instance -> Nat] /\ now \in [Instance -> Nat]
    /\ step \in [Instance -> {"exited", "select", "perInstance", "oneTimePerApp",
                              "claimOneTime", "claimCron"}]
    /\ todo = [i \in Instance |-> todo[i]]

\* A walk is of a tick that was due at most MaxLag ago, and only a walk claims.
OnTime ==
    \A i \in Instance :
        /\ todo[i] # <<>> => Walking(i)
        /\ step[i] = "select" => Local(i) <= due[i] + MaxLag
        /\ Walking(i) => /\ now[i] <= due[i] /\ now[i] <= Local(i)
                         /\ Local(i) <= now[i] + MaxLag

\* No claim of minute m is made after this.
Closed(m) == m * U + U + MaxLag

\* A mark was put when its minute had begun on some clock.
Lasting ==
    \A x \in marks : /\ x.until \in Nat /\ x.key[2] \in Nat
                     /\ x.key[2] * U + MarkLifetime <= x.until + MaxSkew

\* What was run was run once, and is marked or past.
Ran ==
    \A key \in DOMAIN fired : /\ fired[key] = 1 /\ key[2] \in Nat
                              /\ Marked(key) \/ Closed(key[2]) <= clock

Inv == Types /\ OnTime /\ Lasting /\ Ran

-----------------------------------------------------------------------------
LEMMA Constants ==
    /\ U \in Nat \ {0} /\ MarkLifetime \in Nat /\ Margin \in Nat
    /\ MaxSkew \in Nat /\ MaxLag \in Nat /\ Epoch \in Nat
BY JobAssumption

\* The minute of an instant begins at or before it and ends after it.
LEMMA MinuteBounds ==
    ASSUME NEW t \in Nat
    PROVE  /\ Minute(t) \in Nat
           /\ Minute(t) * U <= t /\ t < Minute(t) * U + U
BY Constants, SMTT(30) DEF Minute

LEMMA InitInv == Init => Inv
<1> SUFFICES ASSUME Init PROVE Inv
    OBVIOUS
<1>1. Types
      BY Constants DEF Init, Types
<1>2. OnTime /\ Lasting
      BY DEF Init, OnTime, Lasting, Walking
<1>3. DOMAIN fired = {}
      BY DEF Init
<1> QED BY <1>1, <1>2, <1>3 DEF Inv, Ran

\* A step that neither moves the time nor claims.
LEMMA OtherStep ==
    ASSUME Inv, NEW i \in Instance, UNCHANGED <<clock, skew, marks, fired>>,
           \A j \in Instance \ {i} : /\ due'[j] = due[j] /\ now'[j] = now[j]
                                     /\ step'[j] = step[j] /\ todo'[j] = todo[j],
           Types',
           todo'[i] # <<>> => Walking(i)',
           step'[i] = "select" => Local(i) <= due'[i] + MaxLag,
           Walking(i)' => /\ now'[i] <= due'[i] /\ now'[i] <= Local(i)
                          /\ Local(i) <= now'[i] + MaxLag
    PROVE  Inv'
<1>1. OnTime'
      BY DEF Inv, OnTime, Walking, Local
<1>2. Lasting' /\ Ran'
      BY DEF Inv, Lasting, Ran, Marked
<1> QED BY <1>1, <1>2 DEF Inv

\* Registrations, and what happens to the state and the tasks.
LEMMA QuietStep ==
    ASSUME Inv, UNCHANGED <<clock, skew, due, now, step, todo, marks, fired>>
    PROVE  Inv'
BY DEF Inv, Types, OnTime, Walking, Local, Lasting, Ran, Marked

\* Whole periods are a length of time.
LEMMA Periods == ASSUME NEW u \in Nat, NEW n \in Nat PROVE u * (1 + n) \in Nat
BY SMTT(30)

LEMMA LoopStep ==
    ASSUME Inv, NEW i \in Instance,
           \/ StartSched(i) \/ Exit(i) \/ Crash(i) \/ Tick(i) \/ WalkPerInstance(i)
           \/ TakeOneTimeJobsPerApp(i) \/ TakeCronJobsPerApp(i) \/ WalkDone(i)
    PROVE  Inv'
<1> DEFINE L == clock + skew[i]
<1>0. /\ Types /\ L \in Nat /\ Local(i) = L /\ due[i] \in Nat /\ now[i] \in Nat
      /\ U \in Nat \ {0} /\ MaxLag \in Nat
      BY Constants, SMTT(30) DEF Inv, Types, Local
<1>1. /\ todo[i] # <<>> => Walking(i)
      /\ step[i] = "select" => L <= due[i] + MaxLag
      /\ Walking(i) => now[i] <= due[i] /\ now[i] <= L /\ L <= now[i] + MaxLag
      BY <1>0 DEF Inv, OnTime
<1>2. UNCHANGED <<clock, skew, marks, fired>>
      BY DEF StartSched, Exit, Crash, Tick, WalkPerInstance, TakeOneTimeJobsPerApp, TakeCronJobsPerApp,
             WalkDone, boxes
<1> HIDE DEF L
<1>3. CASE StartSched(i)
  <2>1. /\ due' = [due EXCEPT ![i] = L + U] /\ step' = [step EXCEPT ![i] = "select"]
        /\ UNCHANGED <<now, todo>> /\ step[i] = "exited"
        BY <1>0, <1>3 DEF StartSched
  <2>2. Types'
        BY <1>0, <1>2, <2>1, SMTT(30) DEF Types
  <2>3. /\ step'[i] = "select" /\ due'[i] = L + U /\ todo'[i] = <<>>
        /\ \A j \in Instance \ {i} : due'[j] = due[j] /\ step'[j] = step[j]
        BY <1>0, <1>1, <2>1 DEF Types, Walking
  <2>4. L <= due'[i] + MaxLag
        BY <1>0, <2>3, SMTT(30)
  <2> QED BY <1>0, <1>2, <2>1, <2>2, <2>3, <2>4, OtherStep DEF Walking
<1>4. CASE Exit(i)
  <2>1. step' = [step EXCEPT ![i] = "exited"] /\ UNCHANGED <<due, now, todo>> /\ step[i] = "select"
        BY <1>4 DEF Exit
  <2>2. Types'
        BY <1>0, <1>2, <2>1 DEF Types
  <2>3. /\ step'[i] = "exited" /\ todo'[i] = <<>>
        /\ \A j \in Instance \ {i} : step'[j] = step[j]
        BY <1>0, <1>1, <2>1 DEF Types, Walking
  <2> QED BY <1>2, <2>1, <2>2, <2>3, OtherStep DEF Walking
<1>5. CASE Crash(i)
  <2>1. /\ step' = [step EXCEPT ![i] = "exited"] /\ todo' = [todo EXCEPT ![i] = <<>>]
        /\ UNCHANGED <<due, now>>
        BY <1>5 DEF Crash
  <2>2. Types'
        BY <1>0, <1>2, <2>1 DEF Types
  <2>3. /\ step'[i] = "exited" /\ todo'[i] = <<>>
        /\ \A j \in Instance \ {i} : step'[j] = step[j] /\ todo'[j] = todo[j]
        BY <1>0, <2>1 DEF Types
  <2> QED BY <1>2, <2>1, <2>2, <2>3, OtherStep DEF Walking
<1>6. CASE Tick(i)
  <2> DEFINE n == (L - due[i]) \div U
             d == due[i] + U * (1 + n)
  <2>1. /\ step[i] = "select" /\ due[i] <= L /\ now' = [now EXCEPT ![i] = due[i]]
        /\ due' = [due EXCEPT ![i] = d] /\ step' = [step EXCEPT ![i] = "perInstance"]
        /\ UNCHANGED todo
        BY <1>0, <1>6 DEF Tick
  <2>2. n \in Nat
        BY <1>0, <2>1, SMTT(30)
  <2> HIDE DEF n
  <2>3. U * (1 + n) \in Nat
        BY <1>0, <2>2, Periods
  <2>4. d \in Nat /\ due[i] <= d
        BY <1>0, <2>3, SMTT(30)
  <2> HIDE DEF d
  <2>5. Types'
        BY <1>0, <1>2, <2>1, <2>4 DEF Types
  <2>6. /\ step'[i] = "perInstance" /\ now'[i] = due[i] /\ due'[i] = d
        /\ \A j \in Instance \ {i} : due'[j] = due[j] /\ now'[j] = now[j] /\ step'[j] = step[j]
        BY <1>0, <2>1 DEF Types
  <2>7. now'[i] <= due'[i] /\ now'[i] <= L /\ L <= now'[i] + MaxLag
        BY <1>1, <2>1, <2>4, <2>6
  <2> QED BY <1>0, <1>2, <2>1, <2>5, <2>6, <2>7, OtherStep DEF Walking
<1>7. CASE WalkPerInstance(i) \/ TakeOneTimeJobsPerApp(i) \/ TakeCronJobsPerApp(i)
  <2>1. PICK c \in {"oneTimePerApp", "claimOneTime", "claimCron"} :
           step' = [step EXCEPT ![i] = c]
        BY <1>7 DEF WalkPerInstance, TakeOneTimeJobsPerApp, TakeCronJobsPerApp
  <2>2. PICK t : todo' = [todo EXCEPT ![i] = t]
    <3>1. CASE WalkPerInstance(i)
      <4>1. todo' = todo
            BY <3>1 DEF WalkPerInstance
      <4>2. todo' = [todo EXCEPT ![i] = todo[i]]
            BY <1>0, <4>1 DEF Types
      <4> QED BY <4>2
    <3>2. CASE TakeOneTimeJobsPerApp(i)
          BY <3>2 DEF TakeOneTimeJobsPerApp
    <3>3. CASE TakeCronJobsPerApp(i)
          BY <3>3 DEF TakeCronJobsPerApp
    <3> QED BY <1>7, <3>1, <3>2, <3>3
  <2>3. UNCHANGED <<due, now>> /\ Walking(i)
        BY <1>7 DEF WalkPerInstance, TakeOneTimeJobsPerApp, TakeCronJobsPerApp, Walking
  <2>4. Types'
        BY <1>0, <1>2, <2>1, <2>2, <2>3 DEF Types
  <2>5. /\ step'[i] = c
        /\ \A j \in Instance \ {i} : step'[j] = step[j] /\ todo'[j] = todo[j]
        BY <1>0, <2>1, <2>2 DEF Types
  <2> QED BY <1>0, <1>1, <1>2, <2>3, <2>4, <2>5, OtherStep DEF Walking
<1>8. CASE WalkDone(i)
  <2>1. /\ step' = [step EXCEPT ![i] = "select"] /\ UNCHANGED <<due, now, todo>>
        /\ todo[i] = <<>> /\ Walking(i)
        BY <1>8 DEF WalkDone, Walking
  <2>2. Types'
        BY <1>0, <1>2, <2>1 DEF Types
  <2>3. step'[i] = "select" /\ \A j \in Instance \ {i} : step'[j] = step[j]
        BY <1>0, <2>1 DEF Types
  <2>4. L <= due[i] + MaxLag
        BY <1>0, <1>1, <2>1, SMTT(30)
  <2> QED BY <1>0, <1>2, <2>1, <2>2, <2>3, <2>4, OtherStep DEF Walking
<1> QED BY <1>3, <1>4, <1>5, <1>6, <1>7, <1>8

-----------------------------------------------------------------------------
\* What a claim starts from: the walk is inside the stretch its minute is open
\* for, so the mark it may put is Lasting and its minute is not Closed.
LEMMA ClaimInTime ==
    ASSUME Inv, NEW i \in Instance, todo[i] # <<>>
    PROVE  /\ Minute(now[i]) \in Nat
           /\ Minute(now[i]) * U + MarkLifetime <= clock + MarkLifetime + MaxSkew
           /\ ~(Closed(Minute(now[i])) <= clock)
<1> DEFINE m == Minute(now[i])
           b == m * U
<1>1. /\ clock \in Nat /\ skew[i] \in Nat /\ skew[i] <= MaxSkew /\ now[i] \in Nat
      /\ U \in Nat /\ MaxLag \in Nat /\ MaxSkew \in Nat /\ MarkLifetime \in Nat
      BY Constants, SMTT(30) DEF Inv, Types
<1>2. now[i] <= clock + skew[i] /\ clock + skew[i] <= now[i] + MaxLag
      BY DEF Inv, OnTime, Local
<1>3. m \in Nat /\ b <= now[i] /\ now[i] < b + U
      BY <1>1, MinuteBounds
<1>4. b \in Nat
      BY <1>1, <1>3, SMTT(30)
<1>5. Closed(m) = b + U + MaxLag
      BY DEF Closed
<1> HIDE DEF b
<1>6. b + MarkLifetime <= clock + MarkLifetime + MaxSkew
      BY <1>1, <1>2, <1>3, <1>4, SMTT(30)
<1>7. ~(b + U + MaxLag <= clock)
      BY <1>1, <1>2, <1>3, <1>4, SMTT(30)
<1> QED BY <1>3, <1>5, <1>6, <1>7 DEF b

\* Claims keep what the walks and the marks promise; what was run is argued below.
LEMMA MarkStep ==
    ASSUME Inv, NEW i \in Instance, todo[i] # <<>>, PutMark(i) \/ UNCHANGED marks,
           todo' = [todo EXCEPT ![i] = Tail(@)],
           UNCHANGED <<clock, skew, due, now, step>>
    PROVE  Types' /\ OnTime' /\ Lasting' /\ marks \subseteq marks'
<1>1. Types'
      BY DEF Inv, Types
<1>2. Walking(i) /\ \A j \in Instance \ {i} : todo'[j] = todo[j]
      BY DEF Inv, OnTime, Types
<1>3. OnTime'
      BY <1>2 DEF Inv, OnTime, Walking, Local
<1> DEFINE x == [key |-> Planned(i), until |-> clock + MarkLifetime]
<1>4. marks \subseteq marks' /\ marks' \subseteq marks \cup {x}
      BY DEF PutMark
<1>5. x.until = clock + MarkLifetime /\ x.key[2] = Minute(now[i]) /\ x.until \in Nat
      BY Constants, SMTT(30) DEF Planned, Inv, Types
<1>6. /\ x.until \in Nat /\ x.key[2] \in Nat
      /\ x.key[2] * U + MarkLifetime <= x.until + MaxSkew
      BY <1>5, ClaimInTime
<1> HIDE DEF x
<1>7. Lasting'
      BY <1>4, <1>6 DEF Inv, Lasting
<1> QED BY <1>1, <1>3, <1>4, <1>7

LEMMA ClaimStep ==
    ASSUME Inv, NEW i \in Instance, Claim(i) \/ ClaimFails(i) \/ ClaimCancelled(i)
    PROVE  Inv'
<1>1. /\ todo[i] # <<>>
      /\ PutMark(i) \/ UNCHANGED marks
      /\ todo' = [todo EXCEPT ![i] = Tail(@)] /\ UNCHANGED <<clock, skew, due, now, step>>
      BY DEF Claim, ClaimFails, ClaimCancelled
<1>2. Types' /\ OnTime' /\ Lasting' /\ marks \subseteq marks'
      BY <1>1, MarkStep
<1>3. \A k : Marked(k) => Marked(k)'
      BY <1>2 DEF Marked
<1>4. CASE UNCHANGED fired
      BY <1>1, <1>2, <1>3, <1>4 DEF Inv, Ran, Closed
<1>5. CASE fired' # fired
  <2>0. PICK key : key = Planned(i)
        OBVIOUS
  <2>1. /\ ~Marked(key) /\ PutMark(i)
        /\ fired' = [x \in DOMAIN fired \cup {key} |->
                       (IF x \in DOMAIN fired THEN fired[x] ELSE 0)
                         + IF x = key THEN 1 ELSE 0]
        BY <1>5, <2>0 DEF Claim, ClaimFails, ClaimCancelled
  <2>2. key[2] = Minute(now[i]) /\ key[2] \in Nat /\ ~(Closed(key[2]) <= clock)
        BY <1>1, <2>0, ClaimInTime DEF Planned
  <2>3. key \notin DOMAIN fired
        BY <2>1, <2>2 DEF Inv, Ran
  <2>4. /\ DOMAIN fired' = DOMAIN fired \cup {key} /\ fired'[key] = 1
        /\ \A k \in DOMAIN fired : fired'[k] = 1
        BY <2>1, <2>3, SMTT(30) DEF Inv, Ran
  <2>5. Marked(key)'
    <3> DEFINE x == [key |-> key, until |-> clock + MarkLifetime]
    <3>1. x \in marks' /\ x.key = key
          BY <2>0, <2>1 DEF PutMark
    <3> QED BY <3>1 DEF Marked
  <2>6. \A k \in DOMAIN fired : k[2] \in Nat /\ (Marked(k) \/ Closed(k[2]) <= clock)
        BY <2>2 DEF Inv, Ran
  <2>7. Ran'
        BY <1>1, <1>3, <2>2, <2>4, <2>5, <2>6 DEF Ran, Closed
  <2> QED BY <1>2, <2>7 DEF Inv
<1> QED BY <1>4, <1>5

\* Time takes a mark away only when its minute is closed.
LEMMA AdvanceStep ==
    ASSUME MarkLifetime >= U + MaxSkew + MaxLag, Inv, Advance
    PROVE  Inv'
<1>1. /\ clock' = clock + 1 /\ marks' = {x \in marks : x.until > clock + 1}
      /\ UNCHANGED <<skew, due, now, step, todo, fired>>
      BY DEF Advance, walk
<1>2. /\ clock \in Nat /\ U \in Nat /\ MaxLag \in Nat /\ MaxSkew \in Nat /\ MarkLifetime \in Nat
      BY Constants DEF Inv, Types
<1>3. Types'
      BY <1>1, SMTT(30) DEF Inv, Types
<1>4. OnTime'
  <2> SUFFICES ASSUME NEW i \in Instance
               PROVE  /\ todo[i] # <<>> => Walking(i)
                      /\ step[i] = "select" => Local(i)' <= due[i] + MaxLag
                      /\ Walking(i) => /\ now[i] <= due[i] /\ now[i] <= Local(i)'
                                       /\ Local(i)' <= now[i] + MaxLag
      BY <1>1 DEF OnTime, Walking
  <2>1. /\ step[i] = "select" => Local(i) < due[i] + MaxLag
        /\ Walking(i) => Local(i) < now[i] + MaxLag
        BY DEF Advance, Walking
  <2>2. /\ todo[i] # <<>> => Walking(i)
        /\ Walking(i) => now[i] <= due[i] /\ now[i] <= Local(i)
        BY DEF Inv, OnTime
  <2>3. /\ Local(i)' = Local(i) + 1 /\ Local(i) \in Nat /\ due[i] \in Nat /\ now[i] \in Nat
        BY <1>1, <1>2, SMTT(30) DEF Inv, Types, Local
  <2> QED BY <1>2, <2>1, <2>2, <2>3, SMTT(30)
<1>5. Lasting'
      BY <1>1 DEF Inv, Lasting
<1>6. Ran'
  <2> SUFFICES ASSUME NEW k \in DOMAIN fired
               PROVE  fired[k] = 1 /\ k[2] \in Nat /\ (Marked(k)' \/ Closed(k[2]) <= clock + 1)
      BY <1>1 DEF Ran, Closed
  <2>1. fired[k] = 1 /\ k[2] \in Nat /\ (Marked(k) \/ Closed(k[2]) <= clock)
        BY DEF Inv, Ran
  <2> DEFINE b == k[2] * U
  <2>2. b \in Nat /\ Closed(k[2]) = b + U + MaxLag
        BY <1>2, <2>1, SMTT(30) DEF Closed
  <2> HIDE DEF b
  <2>3. CASE Closed(k[2]) <= clock
        BY <1>2, <2>1, <2>2, <2>3, SMTT(30)
  <2>4. CASE Marked(k)
    <3>1. PICK x \in marks : x.key = k
          BY <2>4 DEF Marked
    <3>2. x.until \in Nat /\ b + MarkLifetime <= x.until + MaxSkew
          BY <3>1 DEF Inv, Lasting, b
    <3>3. CASE x.until > clock + 1
          BY <1>1, <2>1, <3>1, <3>3 DEF Marked
    <3>4. CASE ~(x.until > clock + 1)
          BY <1>2, <2>1, <2>2, <3>2, <3>4, SMTT(30)
    <3> QED BY <3>3, <3>4
  <2> QED BY <2>1, <2>3, <2>4
<1> QED BY <1>3, <1>4, <1>5, <1>6 DEF Inv

LEMMA NextStep ==
    ASSUME MarkLifetime >= U + MaxSkew + MaxLag, Inv, [Next]_vars
    PROVE  Inv'
<1>1. CASE UNCHANGED vars
      BY <1>1, QuietStep DEF vars
<1>2. CASE Advance
      BY <1>2, AdvanceStep
<1>3. ASSUME NEW i \in Instance,
             \/ StartSched(i) \/ Exit(i) \/ Crash(i) \/ Tick(i) \/ WalkPerInstance(i)
             \/ TakeOneTimeJobsPerApp(i) \/ TakeCronJobsPerApp(i) \/ WalkDone(i)
      PROVE  Inv'
      BY <1>3, LoopStep
<1>4. ASSUME NEW i \in Instance, Claim(i) \/ ClaimFails(i) \/ ClaimCancelled(i)
      PROVE  Inv'
      BY <1>4, ClaimStep
<1>5. ASSUME NEW i \in Instance, StopSched(i) \/ Finish(i)
      PROVE  Inv'
      BY <1>5, QuietStep DEF StopSched, Finish, walk
<1>6. ASSUME NEW i \in Instance, NEW job \in Job,
             \/ AddCronJob(i, job) \/ DeleteCronJob(i, job.id) \/ DeleteOneTimeJob(i, job.id)
             \/ \E exec \in Exec : AddOneTimeJob(i, job, exec)
      PROVE  Inv'
      BY <1>6, QuietStep DEF AddCronJob, DeleteCronJob, DeleteOneTimeJob, AddOneTimeJob, walk
<1> QED BY <1>1, <1>2, <1>3, <1>4, <1>5, <1>6 DEF Next

\* KVDBLedger.Claim: whatever the instances, their jobs and the faults, no planned
\* minute of a OncePerApp job is run twice by the app, if markLifetime is at least a
\* minute plus the disagreement of two clocks plus the lateness of a walk.
THEOREM AtMostOncePerAppHolds ==
    ASSUME MarkLifetime >= U + MaxSkew + MaxLag
    PROVE  Spec => []AtMostOncePerApp
<1>1. Inv /\ [Next]_vars => Inv'
      BY NextStep
<1>2. Inv => AtMostOncePerApp
      BY SMTT(30) DEF Inv, Ran, AtMostOncePerApp
<1> QED BY InitInv, <1>1, <1>2, PTL DEF Spec
=============================================================================
