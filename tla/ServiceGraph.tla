---------------------------- MODULE ServiceGraph ----------------------------
(***************************************************************************)
(* gw/framework's registry of services (core_graph.go, and the two          *)
(* registration paths of core.go).  A registration names its service and    *)
(* declares dependencies by label, each Requires or MayUse (optional).      *)
(* RegisterServiceFunc resolves the declarations, runs the app's factory,   *)
(* which may itself try to register, and attaches the node only when the    *)
(* factory succeeds.  StartServices seals the graph.                        *)
(***************************************************************************)
EXTENDS Naturals, Sequences

CONSTANTS
    Label,     \* service names
    DepList,   \* the lists of declarations a registration may make
    OwnList    \* the lists a built service may report itself (ServiceDeps)

Declaration == [label : Label, optional : BOOLEAN]

ASSUME ListsAssumption ==
    DepList \subseteq Seq(Declaration) /\ OwnList \subseteq Seq(Declaration)

VARIABLES
    nodes,       \* the registered nodes, in registration order
    dependents,  \* dependents[i]: the reverse edges of node i
    pending,     \* the node resolved for the running factory, or none: <<>>
    verdict      \* "open" until sealed, then seal's answer

graphVars == <<nodes, dependents, pending, verdict>>

GraphInit ==
    /\ nodes = <<>>
    /\ dependents = <<>>
    /\ pending = <<>>
    /\ verdict = "open"

-----------------------------------------------------------------------------
\* byName: the positions a label is registered at (one, or none).
byName(label) == {i \in DOMAIN nodes : nodes[i].name = label}

Labels(decl) == {decl[k].label : k \in DOMAIN decl}

\* What resolve asks of the name and of each declaration.
Checks(name, decl) ==
    /\ byName(name) = {}
    /\ \A k \in DOMAIN decl :
         /\ decl[k].label # name
         /\ decl[k].optional \/ byName(decl[k].label) # {}

\* resolve succeeds: not sealed, no factory running, and the checks pass.
Resolvable(name, decl) == verdict = "open" /\ pending = <<>> /\ Checks(name, decl)

\* Declarations of one label collapse to an edge of the strictest kind.
Edge(decl, label) ==
    \A k \in DOMAIN decl : decl[k].label = label => decl[k].optional

\* The node resolve builds: deps maps each registered label to its edge's kind.
Node(name, decl) ==
    [name |-> name, declared |-> decl,
     deps |-> [l \in {m \in Labels(decl) : byName(m) # {}} |-> Edge(decl, l)]]

\* attach: the reverse edge on each dependency, then the slot.
attach(n) ==
    /\ nodes' = Append(nodes, n)
    /\ dependents' =
         [i \in 1..Len(nodes) + 1 |->
            IF i > Len(nodes) THEN {}
            ELSE IF nodes[i].name \in DOMAIN n.deps
            THEN dependents[i] \cup {[node |-> Len(nodes) + 1,
                                      optional |-> n.deps[nodes[i].name]]}
            ELSE dependents[i]]

\* RegisterService; what resolve refuses leaves the graph as it was.
RegisterService(name, decl) ==
    /\ Resolvable(name, decl)
    /\ attach(Node(name, decl))
    /\ UNCHANGED <<pending, verdict>>

\* RegisterServiceFunc up to the factory.
Build(name, decl) ==
    /\ Resolvable(name, decl)
    /\ pending' = <<Node(name, decl)>>
    /\ UNCHANGED <<nodes, dependents, verdict>>

\* The factory failed, panicked, or built a service of another name.
BuildFails ==
    /\ pending # <<>>
    /\ pending' = <<>>
    /\ UNCHANGED <<nodes, dependents, verdict>>

\* The factory built a service that declares nothing itself.
BuildAttaches ==
    /\ pending # <<>>
    /\ attach(pending[1])
    /\ pending' = <<>>
    /\ UNCHANGED verdict

\* The factory built a service with dependencies of its own: they are joined
\* to the declared ones and the whole is resolved again (the pending mark is
\* down by then); a refusal registers nothing.
BuildJoins(own) ==
    /\ pending # <<>>
    /\ pending' = <<>>
    /\ LET name == pending[1].name
           decl == own \o pending[1].declared
       IN  IF Checks(name, decl)
           THEN attach(Node(name, decl))
           ELSE UNCHANGED <<nodes, dependents>>
    /\ UNCHANGED verdict

\* Mutant of Late: registered later is taken for never registered.
LateIgnored(i, k) == FALSE

\* seal's one error: an optional dependency that registered after node i.
Late(i, k) ==
    LET d == nodes[i].declared[k]
    IN  d.optional /\ d.label \notin DOMAIN nodes[i].deps /\ byName(d.label) # {}

Seal ==
    /\ verdict = "open" /\ pending = <<>>
    /\ verdict' = IF \E i \in DOMAIN nodes : \E k \in DOMAIN nodes[i].declared : Late(i, k)
                  THEN "refused" ELSE "sealed"
    /\ UNCHANGED <<nodes, dependents, pending>>

GraphNext ==
    \/ \E name \in Label, decl \in DepList : RegisterService(name, decl) \/ Build(name, decl)
    \/ BuildFails \/ BuildAttaches
    \/ \E own \in OwnList : BuildJoins(own)
    \/ Seal

GraphSpec == GraphInit /\ [][GraphNext]_graphVars

-----------------------------------------------------------------------------
(* Properties *)

\* Every edge names one registered service, and an earlier one: the graph is
\* acyclic by construction (resolve), so no cycle check is needed anywhere.
EdgesPointBack ==
    \A i \in DOMAIN nodes : \A l \in DOMAIN nodes[i].deps :
        \E j \in 1..(i - 1) : byName(l) = {j}

\* The reverse index is exactly the edges, each with the kind its dependent
\* declared (attach): the teardown levels are computed from it alone.
DependentsMirror ==
    /\ Len(dependents) = Len(nodes)
    /\ \A j \in DOMAIN nodes :
         dependents[j] = {[node |-> i, optional |-> nodes[i].deps[nodes[j].name]] :
                            i \in {k \in DOMAIN nodes : nodes[j].name \in DOMAIN nodes[k].deps}}

\* Names stay unique although RegisterServiceFunc checks the name before the
\* factory runs and records it after (resolve refuses while a factory runs).
NamesUnique == \A i, j \in DOMAIN nodes : nodes[i].name = nodes[j].name => i = j

\* A Requires anywhere among a service's declarations makes the edge strict,
\* wherever it was declared and in whatever order (resolve).
StrictestWins ==
    \A i \in DOMAIN nodes : \A k \in DOMAIN nodes[i].declared :
        ~nodes[i].declared[k].optional =>
            /\ nodes[i].declared[k].label \in DOMAIN nodes[i].deps
            /\ ~nodes[i].deps[nodes[i].declared[k].label]

\* A graph that sealed misses no edge: whatever a service declared and the app
\* registered is wired, whichever was registered first (seal).
SealedMeansWired ==
    verdict = "sealed" =>
        \A i \in DOMAIN nodes : \A k \in DOMAIN nodes[i].declared :
            byName(nodes[i].declared[k].label) # {} =>
                nodes[i].declared[k].label \in DOMAIN nodes[i].deps

\* The graph is sound at every point of the registration, whatever factories
\* register while they run: acyclic, its two indexes in agreement, names unique,
\* every edge of the strictest kind declared, and none missing once sealed.
GraphSound ==
    EdgesPointBack /\ DependentsMirror /\ NamesUnique /\ StrictestWins /\ SealedMeansWired
=============================================================================
