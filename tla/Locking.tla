------------------------------ MODULE Locking ------------------------------
(***************************************************************************)
(* gw/locking: ManagerKVDBLedger, the lock manager of an app that runs as  *)
(* several instances.  Every instance keeps an internal ledger (a map under *)
(* a mutex); all of them share one external ledger, a row per standing      *)
(* grant in a KVDB.  An ask reserves the name internally, TAKEs the row     *)
(* under a fresh proof, runs the caller's function, RETIREs the row by      *)
(* presenting the proof and clears the internal ledger.                     *)
(*                                                                          *)
(* The trip to the KVDB is a message exchange.  A command that was sent may *)
(* be executed at any later time, any number of times (the client library   *)
(* resends one whose answer did not come, and a copy may sit in a dead      *)
(* connection), or never; its answer may be lost; the caller may give up    *)
(* waiting at any time and sees an error.  An instance may die at any       *)
(* point and come back with a new boot id.                                  *)
(***************************************************************************)
EXTENDS Naturals, Sequences

CONSTANTS
    Instance,   \* processes of the fleet
    Caller,     \* goroutines that ask a manager for names
    Home,       \* Home[c]: the instance caller c runs on
    Name,       \* lock names
    Asks,       \* Asks[c]: the lists of names caller c may ask for
    NoProof,    \* "no row", "not held"
    NoCaller,   \* "nobody", in the abstract specification
    MaxAsks,    \* bound: asks per caller
    MaxBoot     \* bound: MaxBoot[i] boots of instance i

ASSUME HomeAssumption == Home \in [Caller -> Instance]
ASSUME AsksAssumption == Asks \in [Caller -> SUBSET Seq(Name)]
ASSUME BoundAssumption == MaxAsks \in Nat /\ MaxBoot \in [Instance -> Nat]

\* newProof: id:seq.  The boot id is random and unique across the fleet, here
\* the instance with the number of its boot.
Proof == [inst : Instance, boot : Nat, seq : Nat]

ASSUME NoProofAssumption == NoProof \notin Proof

MaybeProof == Proof \cup {NoProof}

Message == [op : {"take", "retire"}, name : Name, proof : Proof, from : Caller]

VARIABLES
    held,    \* held[i][n]: instance i's internal ledger, the proof beside name n
    row,     \* row[n]: the external ledger's row of name n
    boot,    \* boot[i]: with i, the id of instance i's manager
    seq,     \* seq[i]: proofs made by that manager
    pc,      \* pc[c]: where caller c is inside AcquireDoReleaseAll
    ask,     \* ask[c]: the names of the current ask
    proofs,  \* proofs[c]: the proofs of the names taken so far, in order
    pend,    \* pend[c]: the proof of the name being taken
    reply,   \* reply[c]: the KVDB's answer that reached c's connection
    sent,    \* commands sent to the KVDB and never known to be gone
    asked    \* asked[c]: asks made so far, for the bound

vars == <<held, row, boot, seq, pc, ask, proofs, pend, reply, sent, asked>>

Init ==
    /\ held = [i \in Instance |-> [n \in Name |-> NoProof]]
    /\ row = [n \in Name |-> NoProof]
    /\ boot = [i \in Instance |-> 1]
    /\ seq = [i \in Instance |-> 0]
    /\ pc = [c \in Caller |-> "idle"]
    /\ ask = [c \in Caller |-> <<>>]
    /\ proofs = [c \in Caller |-> <<>>]
    /\ pend = [c \in Caller |-> NoProof]
    /\ reply = [c \in Caller |-> "none"]
    /\ sent = {}
    /\ asked = [c \in Caller |-> 0]

-----------------------------------------------------------------------------
\* The name the loop of AcquireDoReleaseAll is at, and the last one taken.
NextName(c) == ask[c][Len(proofs[c]) + 1]
LastName(c) == ask[c][Len(proofs[c])]
LastProof(c) == proofs[c][Len(proofs[c])]

\* The internal ledger of c's instance.
Ledger(c) == held[Home[c]]

\* Mutant of AfterTaking: the loop ends one name early.
AfterTakingShort(ns, k) == IF k + 1 >= Len(ns) THEN "run" ELSE "acquire"

\* Where the loop goes once k names of the list ns are taken.
AfterTaking(ns, k) == IF k = Len(ns) THEN "run" ELSE "acquire"

\* AcquireDoReleaseAll is called (a ctx already ended returns with no effect).
Ask(c, ns) ==
    /\ pc[c] = "idle" /\ asked[c] < MaxAsks
    /\ ask' = [ask EXCEPT ![c] = ns]
    /\ pc' = [pc EXCEPT ![c] = AfterTaking(ns, 0)]
    /\ asked' = [asked EXCEPT ![c] = @ + 1]
    /\ UNCHANGED <<held, row, boot, seq, proofs, pend, reply, sent>>

\* newProof of instance i's manager.
NewProof(i) == [inst |-> i, boot |-> boot[i], seq |-> seq[i] + 1]

\* acquire refused by the internal ledger: no trip, and what was taken is
\* given back.  The proof made for it is spent.
AcquireRefused(c) ==
    /\ pc[c] = "acquire"
    /\ Ledger(c)[NextName(c)] # NoProof
    /\ seq' = [seq EXCEPT ![Home[c]] = @ + 1]
    /\ pc' = [pc EXCEPT ![c] = "giveBack"]
    /\ UNCHANGED <<held, row, boot, ask, proofs, pend, reply, sent, asked>>

\* acquire up to the trip: reserve the name under a fresh proof, send TAKE.
Acquire(c) ==
    /\ pc[c] = "acquire"
    /\ Ledger(c)[NextName(c)] = NoProof
    /\ seq' = [seq EXCEPT ![Home[c]] = @ + 1]
    /\ held' = [held EXCEPT ![Home[c]][NextName(c)] = NewProof(Home[c])]
    /\ pend' = [pend EXCEPT ![c] = NewProof(Home[c])]
    /\ sent' = sent \cup {[op |-> "take", name |-> NextName(c),
                           proof |-> NewProof(Home[c]), from |-> c]}
    /\ pc' = [pc EXCEPT ![c] = "take"]
    /\ UNCHANGED <<row, boot, ask, proofs, reply, asked>>

\* acquire after the trip, the name won.
TakeWon(c) ==
    /\ pc[c] = "take" /\ reply[c] = "yes"
    /\ proofs' = [proofs EXCEPT ![c] = Append(@, pend[c])]
    /\ pend' = [pend EXCEPT ![c] = NoProof]
    /\ reply' = [reply EXCEPT ![c] = "none"]
    /\ pc' = [pc EXCEPT ![c] = AfterTaking(ask[c], Len(proofs[c]) + 1)]
    /\ UNCHANGED <<held, row, boot, seq, ask, sent, asked>>

\* Mutant of DropReservation: the internal ledger keeps the name.
DropReservationNot(c) ==
    /\ pend' = [pend EXCEPT ![c] = NoProof]
    /\ reply' = [reply EXCEPT ![c] = "none"]
    /\ pc' = [pc EXCEPT ![c] = "giveBack"]
    /\ UNCHANGED <<held, row, boot, seq, ask, proofs, sent, asked>>

\* acquire after the trip, the name not won: the reservation is dropped, and
\* what was taken before is given back.
DropReservation(c) ==
    /\ held' = [held EXCEPT ![Home[c]][NextName(c)] = NoProof]
    /\ pend' = [pend EXCEPT ![c] = NoProof]
    /\ reply' = [reply EXCEPT ![c] = "none"]
    /\ pc' = [pc EXCEPT ![c] = "giveBack"]
    /\ UNCHANGED <<row, boot, seq, ask, proofs, sent, asked>>

TakeRefused(c) == pc[c] = "take" /\ reply[c] = "no" /\ DropReservation(c)

\* The trip failed: no answer in time, or the caller's ctx ended.
TakeFailed(c) == pc[c] = "take" /\ reply[c] = "none" /\ DropReservation(c)

\* Mutant of FnReturn: the names are struck from the internal ledger at once, and
\* the external one is not told.
FnReturnForgets(c) ==
    /\ pc[c] = "run"
    /\ held' = [held EXCEPT ![Home[c]] =
                  [n \in Name |-> IF \E k \in DOMAIN proofs[c] : ask[c][k] = n
                                  THEN NoProof ELSE @[n]]]
    /\ proofs' = [proofs EXCEPT ![c] = <<>>]
    /\ pc' = [pc EXCEPT ![c] = "giveBack"]
    /\ UNCHANGED <<row, boot, seq, ask, pend, reply, sent, asked>>

\* The caller's function returns, by any path.
FnReturn(c) ==
    /\ pc[c] = "run"
    /\ pc' = [pc EXCEPT ![c] = "giveBack"]
    /\ UNCHANGED <<held, row, boot, seq, ask, proofs, pend, reply, sent, asked>>

\* giveBack of the last name still taken, up to the trip.
Retire(c) ==
    /\ pc[c] = "giveBack" /\ proofs[c] # <<>>
    /\ sent' = sent \cup {[op |-> "retire", name |-> LastName(c),
                           proof |-> LastProof(c), from |-> c]}
    /\ pc' = [pc EXCEPT ![c] = "retire"]
    /\ UNCHANGED <<held, row, boot, seq, ask, proofs, pend, reply, asked>>

\* Mutant of Release: it waits for an answer.
ReleaseAnswered(c) ==
    /\ pc[c] = "retire" /\ reply[c] # "none"
    /\ held' = [held EXCEPT ![Home[c]][LastName(c)] = NoProof]
    /\ proofs' = [proofs EXCEPT ![c] = SubSeq(@, 1, Len(@) - 1)]
    /\ reply' = [reply EXCEPT ![c] = "none"]
    /\ pc' = [pc EXCEPT ![c] = "giveBack"]
    /\ UNCHANGED <<row, boot, seq, ask, pend, sent, asked>>

\* giveBack after the trip: the internal ledger is cleared whatever the
\* external ledger answered, an error included.
Release(c) ==
    /\ pc[c] = "retire"
    /\ held' = [held EXCEPT ![Home[c]][LastName(c)] = NoProof]
    /\ proofs' = [proofs EXCEPT ![c] = SubSeq(@, 1, Len(@) - 1)]
    /\ reply' = [reply EXCEPT ![c] = "none"]
    /\ pc' = [pc EXCEPT ![c] = "giveBack"]
    /\ UNCHANGED <<row, boot, seq, ask, pend, sent, asked>>

\* Nothing left to give back: AcquireDoReleaseAll returns.
Return(c) ==
    /\ pc[c] = "giveBack" /\ proofs[c] = <<>>
    /\ pc' = [pc EXCEPT ![c] = "idle"]
    /\ ask' = [ask EXCEPT ![c] = <<>>]
    /\ UNCHANGED <<held, row, boot, seq, proofs, pend, reply, sent, asked>>

-----------------------------------------------------------------------------
\* m is the command its sender is waiting on.
Awaited(m) ==
    LET c == m.from
    IN  /\ reply[c] = "none"
        /\ \/ /\ pc[c] = "take" /\ m.op = "take"
              /\ m.proof = pend[c] /\ m.name = NextName(c)
           \/ /\ pc[c] = "retire" /\ m.op = "retire"
              /\ m.proof = LastProof(c) /\ m.name = LastName(c)

\* The answer reaches a sender that still waits for it, or is lost.
Answer(m, a) ==
    \/ UNCHANGED reply
    \/ Awaited(m) /\ reply' = [reply EXCEPT ![m.from] = a]

\* Mutant of ExecTake: a name that is taken is granted again.
ExecTakeGranting(m) ==
    /\ m.op = "take"
    /\ row' = [row EXCEPT ![m.name] = IF @ = NoProof THEN m.proof ELSE @]
    /\ Answer(m, "yes")
    /\ UNCHANGED <<held, boot, seq, pc, ask, proofs, pend, sent, asked>>

\* SetValuePersistentIfNotExists, in one act of the KVDB.
ExecTake(m) ==
    /\ m.op = "take"
    /\ \/ /\ row[m.name] = NoProof
          /\ row' = [row EXCEPT ![m.name] = m.proof]
          /\ Answer(m, "yes")
       \/ /\ row[m.name] # NoProof
          /\ Answer(m, "no")
          /\ UNCHANGED row
    /\ UNCHANGED <<held, boot, seq, pc, ask, proofs, pend, sent, asked>>

\* Mutant of ExecRetire: the row is deleted whatever proof it holds.
ExecRetireAny(m) ==
    /\ m.op = "retire"
    /\ row' = [row EXCEPT ![m.name] = NoProof]
    /\ Answer(m, "yes")
    /\ UNCHANGED <<held, boot, seq, pc, ask, proofs, pend, sent, asked>>

\* DeleteValueIfEquals, in one act of the KVDB.
ExecRetire(m) ==
    /\ m.op = "retire"
    /\ \/ /\ row[m.name] = m.proof
          /\ row' = [row EXCEPT ![m.name] = NoProof]
          /\ Answer(m, "yes")
       \/ /\ row[m.name] # m.proof
          /\ Answer(m, "no")
          /\ UNCHANGED row
    /\ UNCHANGED <<held, boot, seq, pc, ask, proofs, pend, sent, asked>>

\* Instance i dies and boots again: its internal ledger and its callers' work
\* are gone, what they sent is not.
Crash(i) ==
    /\ boot[i] < MaxBoot[i]
    /\ boot' = [boot EXCEPT ![i] = @ + 1]
    /\ seq' = [seq EXCEPT ![i] = 0]
    /\ held' = [held EXCEPT ![i] = [n \in Name |-> NoProof]]
    /\ pc' = [c \in Caller |-> IF Home[c] = i THEN "idle" ELSE pc[c]]
    /\ ask' = [c \in Caller |-> IF Home[c] = i THEN <<>> ELSE ask[c]]
    /\ proofs' = [c \in Caller |-> IF Home[c] = i THEN <<>> ELSE proofs[c]]
    /\ pend' = [c \in Caller |-> IF Home[c] = i THEN NoProof ELSE pend[c]]
    /\ reply' = [c \in Caller |-> IF Home[c] = i THEN "none" ELSE reply[c]]
    /\ UNCHANGED <<row, sent, asked>>

\* CleanupNames / Cleanup, run as documented: when nothing is meant to hold
\* the names, that is when no internal ledger has them.
CleanupNames(ns) ==
    /\ \A i \in Instance, n \in ns : held[i][n] = NoProof
    /\ row' = [n \in Name |-> IF n \in ns THEN NoProof ELSE row[n]]
    /\ UNCHANGED <<held, boot, seq, pc, ask, proofs, pend, reply, sent, asked>>

CallerStep(c) ==
    \/ AcquireRefused(c) \/ Acquire(c)
    \/ TakeWon(c) \/ TakeRefused(c) \/ TakeFailed(c)
    \/ FnReturn(c) \/ Retire(c) \/ Release(c) \/ Return(c)

Next ==
    \/ \E c \in Caller : \E ns \in Asks[c] : Ask(c, ns)
    \/ \E c \in Caller : CallerStep(c)
    \/ \E m \in sent : ExecTake(m) \/ ExecRetire(m)
    \/ \E i \in Instance : Crash(i)
    \/ \E ns \in SUBSET Name : CleanupNames(ns)

Spec == Init /\ [][Next]_vars

\* Every caller's goroutine is scheduled, its function returns, and a trip is
\* bounded by the KVDB client's own timeouts.
FairSpec == Spec /\ \A c \in Caller : WF_vars(CallerStep(c))

-----------------------------------------------------------------------------
(* Properties *)

TypeOK ==
    /\ held \in [Instance -> [Name -> MaybeProof]]
    /\ row \in [Name -> MaybeProof]
    /\ boot \in [Instance -> Nat]
    /\ seq \in [Instance -> Nat]
    /\ pc \in [Caller -> {"idle", "acquire", "take", "run", "giveBack", "retire"}]
    /\ ask \in [Caller -> Seq(Name)]
    /\ proofs \in [Caller -> Seq(Proof)]
    /\ pend \in [Caller -> MaybeProof]
    /\ reply \in [Caller -> {"none", "yes", "no"}]
    /\ sent \subseteq Message
    /\ asked \in [Caller -> Nat]

\* How many of the names c asked for are taken and not being given back.
Kept(c) == IF pc[c] = "retire" THEN Len(proofs[c]) - 1 ELSE Len(proofs[c])

\* Caller c holds name n: from the answer that won it until c sends its RETIRE.
Holds(c, n) == \E k \in 1..Kept(c) : ask[c][k] = n

\* At most one caller of the whole fleet holds a name, whatever commands and
\* answers were lost, delayed or repeated and whichever instances died: the
\* exclusion AcquireDoRelease[All] promises (managerkvdbledger.go acquire and
\* giveBack over kvdbledger.go take and retire).
MutualExclusion ==
    \A c, d \in Caller, n \in Name : Holds(c, n) /\ Holds(d, n) => c = d

\* fn runs only while every name it asked for is held, and each stands in the
\* external ledger under this caller's own proof (AcquireDoReleaseAll).
RunsFullyBacked ==
    \A c \in Caller : pc[c] = "run" =>
        /\ Len(proofs[c]) = Len(ask[c])
        /\ \A k \in 1..Len(ask[c]) : row[ask[c][k]] = proofs[c][k]

\* An instance's internal ledger never keeps a name nobody on it is asking for
\* or holding: every failing path of acquire and giveBack clears it, so a
\* KVDB that errs cannot lock a name out of its own instance for ever.
NoLeakedReservation ==
    \A i \in Instance, n \in Name : held[i][n] # NoProof =>
        \E c \in Caller :
            /\ Home[c] = i
            /\ \/ Holds(c, n)
               \/ pc[c] = "take" /\ NextName(c) = n
               \/ pc[c] = "retire" /\ LastName(c) = n

\* While a caller holds a name, its own instance's internal ledger has it: a
\* neighbour that asks, is refused or fails never clears or reuses the entry,
\* so it is refused without a trip (acquire, giveBack).
LedgerCoversHolders ==
    \A c \in Caller, n \in Name : Holds(c, n) => held[Home[c]][n] # NoProof

\* The internal ledgers hold what is held and what is being asked for, no less and no more.
LedgersAgree == NoLeakedReservation /\ LedgerCoversHolders

\* While a caller holds a name, nobody else's command removes or replaces its
\* row: a retire presents a proof and cannot hit another grant, however late
\* it is executed (giveBack, retire).
GrantStands ==
    [][\A c \in Caller, n \in Name :
         Holds(c, n) => row'[n] = row[n]]_vars

\* An ask never waits for another: names are refused at once, so callers that
\* ask for the same names in opposite orders, lost answers and dead instances
\* cannot keep an ask from returning (AcquireDoReleaseAll).
EveryAskReturns == \A c \in Caller : pc[c] # "idle" ~> pc[c] = "idle"

\* acquire says "A refusal by either leaves nothing behind"
\* (managerkvdbledger.go:103-104): an ask told its name is taken has no row of
\* its own standing.
RefusalLeavesNothing ==
    \A c \in Caller : (pc[c] = "take" /\ reply[c] = "no")
                          => row[NextName(c)] # pend[c]

\* The refinement mapping: who holds each name.
Owner ==
    [n \in Name |-> IF \E c \in Caller : Holds(c, n)
                    THEN CHOOSE c \in Caller : Holds(c, n)
                    ELSE NoCaller]

NL == INSTANCE NamedLocks WITH owner <- Owner

\* Every behaviour of the ledgers is one of the abstract exclusion: taken only
\* when free, given back by its owner, one name at a time, lost only with its
\* instance.
Exclusion == NL!Spec
=============================================================================
