--------------------------- MODULE LockingProofs ---------------------------
(***************************************************************************)
(* Proofs about module Locking, for every fleet, every set of callers and  *)
(* names, every list of names asked for and every number of crashes: mutual *)
(* exclusion, that fn runs fully backed, that a grant is never removed by   *)
(* another, and that Locking implements NamedLocks.                         *)
(***************************************************************************)
EXTENDS Locking, TLAPS

\* The prover of every step that names no other.
USE ZenonT(30)

\* Proof p was made before now: newProof cannot return it again.
Old(p) ==
    /\ p.boot <= boot[p.inst]
    /\ p.boot = boot[p.inst] => p.seq <= seq[p.inst]

\* Where a caller is decides how many names it has and what it waits for.
Shape ==
    \A c \in Caller :
        /\ Len(proofs[c]) <= Len(ask[c])
        /\ pc[c] \in {"acquire", "take"} => Len(proofs[c]) < Len(ask[c])
        /\ pc[c] = "run" => Len(proofs[c]) = Len(ask[c])
        /\ pc[c] = "retire" => proofs[c] # <<>>
        /\ pc[c] = "idle" => proofs[c] = <<>>
        /\ pc[c] = "take" <=> pend[c] # NoProof
        /\ reply[c] # "none" => pc[c] \in {"take", "retire"}

\* The grants of caller c, the one being taken included: grant k is for name
\* ask[c][k] and carries proof Grant(c, k).
Count(c) == IF pc[c] = "take" THEN Len(proofs[c]) + 1 ELSE Len(proofs[c])
Grant(c, k) == IF k <= Len(proofs[c]) THEN proofs[c][k] ELSE pend[c]

\* Those c has sent no RETIRE for, and those known to stand.
Live(c) == IF pc[c] = "retire" THEN Count(c) - 1 ELSE Count(c)
Standing(c) == IF pc[c] = "take" /\ reply[c] # "yes" THEN Count(c) - 1 ELSE Live(c)

\* Every proof in use or in a command was made before now.
Fresh ==
    /\ \A m \in sent : Old(m.proof)
    /\ \A c \in Caller : \A k \in 1..Count(c) : Old(Grant(c, k))

\* No two grants, standing or being taken, share a proof.
Unique ==
    \A c, d \in Caller : \A k \in 1..Count(c), l \in 1..Count(d) :
        Grant(c, k) = Grant(d, l) => c = d /\ k = l

\* A name taken or being taken is in the internal ledger with its proof.
Ledgered ==
    \A c \in Caller : \A k \in 1..Count(c) :
        held[Home[c]][ask[c][k]] = Grant(c, k)

\* No retire was ever sent for a grant that is kept or being taken.
NotRetired ==
    \A m \in sent : m.op = "retire" =>
        \A c \in Caller : \A k \in 1..Live(c) : m.proof # Grant(c, k)

\* A kept grant, and one whose "yes" is on the way, stands in the external
\* ledger.
Backed ==
    \A c \in Caller : \A k \in 1..Standing(c) : row[ask[c][k]] = Grant(c, k)

\* The inductive invariant.
Inv == TypeOK /\ Shape /\ Fresh /\ Unique /\ Ledgered /\ NotRetired /\ Backed

-----------------------------------------------------------------------------
LEMMA InitInv == Init => Inv
<1> SUFFICES ASSUME Init PROVE Inv
  OBVIOUS
<1>1. TypeOK /\ Shape
  BY SMTT(30) DEF Init, TypeOK, Shape, MaybeProof
<1>2. \A c \in Caller : Count(c) = 0 /\ Live(c) = 0 /\ Standing(c) = 0
  BY DEF Init, Count, Live, Standing
<1> QED
  BY <1>1, <1>2, SMTT(30) DEF Init, Inv, Fresh, Unique, Ledgered, NotRetired, Backed

\* Type correctness of each kind of step.
LEMMA TypeStep == TypeOK /\ Shape /\ [Next]_vars => TypeOK'
<1> SUFFICES ASSUME TypeOK, Shape, [Next]_vars PROVE TypeOK'
  OBVIOUS
<1> USE HomeAssumption
<1>1. ASSUME NEW c \in Caller, NEW ns \in Asks[c], Ask(c, ns) PROVE TypeOK'
  <2>1. ns \in Seq(Name)
    BY AsksAssumption
  <2> QED BY <1>1, <2>1, SMTT(30) DEF TypeOK, Ask, AfterTaking
<1>2. ASSUME NEW c \in Caller, Acquire(c) PROVE TypeOK'
  <2>1. Home[c] \in Instance /\ NewProof(Home[c]) \in Proof /\ NextName(c) \in Name
    BY <1>2, SMTT(30) DEF TypeOK, Proof, Shape, NextName, NewProof, Acquire
  <2>2. held' \in [Instance -> [Name -> MaybeProof]] /\ pend' \in [Caller -> MaybeProof]
    BY <1>2, <2>1 DEF TypeOK, Acquire, MaybeProof
  <2>3. sent' \subseteq Message
    BY <1>2, <2>1, SMTT(30) DEF TypeOK, Acquire, Message
  <2> QED BY <1>2, <2>1, <2>2, <2>3, SMTT(30) DEF TypeOK, Acquire
<1>14. ASSUME NEW c \in Caller, AcquireRefused(c) PROVE TypeOK'
  BY <1>14, SMTT(30) DEF TypeOK, AcquireRefused
<1>3. ASSUME NEW c \in Caller, TakeWon(c) PROVE TypeOK'
  <2>1. pend[c] \in Proof
    BY <1>3 DEF TypeOK, Shape, MaybeProof, TakeWon
  <2> QED BY <1>3, <2>1, SMTT(30) DEF TypeOK, TakeWon, AfterTaking, MaybeProof
<1>4. ASSUME NEW c \in Caller, DropReservation(c), pc[c] = "take" PROVE TypeOK'
  <2>1. NextName(c) \in Name
    BY <1>4, SMTT(30) DEF TypeOK, Shape, NextName
  <2> QED BY <1>4, <2>1 DEF TypeOK, DropReservation, MaybeProof
<1>5. ASSUME NEW c \in Caller, FnReturn(c) PROVE TypeOK'
  BY <1>5 DEF TypeOK, FnReturn
<1>6. ASSUME NEW c \in Caller, Retire(c) PROVE TypeOK'
  <2>1. LastName(c) \in Name /\ LastProof(c) \in Proof
    BY <1>6, SMTT(30) DEF TypeOK, Shape, LastName, LastProof, Retire
  <2> QED BY <1>6, <2>1, SMTT(30) DEF TypeOK, Retire, Message
<1>7. ASSUME NEW c \in Caller, Release(c) PROVE TypeOK'
  <2>1. LastName(c) \in Name
    BY <1>7, SMTT(30) DEF TypeOK, Shape, LastName, Release
  <2>2. SubSeq(proofs[c], 1, Len(proofs[c]) - 1) \in Seq(Proof)
    BY <1>7, SMTT(30) DEF TypeOK, Shape, Release
  <2> QED BY <1>7, <2>1, <2>2 DEF TypeOK, Release, MaybeProof
<1>8. ASSUME NEW c \in Caller, Return(c) PROVE TypeOK'
  <2>1. <<>> \in Seq(Name)
    BY SMTT(30)
  <2> QED BY <1>8, <2>1 DEF TypeOK, Return
<1>9. ASSUME NEW m \in sent, ExecTake(m) PROVE TypeOK'
  BY <1>9 DEF TypeOK, ExecTake, Answer, Message, MaybeProof
<1>10. ASSUME NEW m \in sent, ExecRetire(m) PROVE TypeOK'
  BY <1>10 DEF TypeOK, ExecRetire, Answer, Message, MaybeProof
<1>11. ASSUME NEW i \in Instance, Crash(i) PROVE TypeOK'
  BY <1>11, SMTT(30) DEF TypeOK, Crash, MaybeProof
<1>12. ASSUME NEW ns \in SUBSET Name, CleanupNames(ns) PROVE TypeOK'
  BY <1>12 DEF TypeOK, CleanupNames, MaybeProof
<1>13. CASE UNCHANGED vars
  BY <1>13 DEF TypeOK, vars
<1> QED
  BY <1>1, <1>2, <1>3, <1>4, <1>5, <1>6, <1>7, <1>8, <1>9, <1>10, <1>11, <1>12,
     <1>13, <1>14 DEF Next, CallerStep, TakeRefused, TakeFailed

-----------------------------------------------------------------------------
LEMMA GrantType ==
    ASSUME TypeOK, Shape, NEW c \in Caller
    PROVE  /\ Count(c) \in Nat /\ Live(c) \in Nat /\ Standing(c) \in Nat
           /\ Standing(c) <= Live(c) /\ Live(c) <= Count(c)
           /\ Count(c) <= Len(ask[c])
           /\ Kept(c) \in Nat /\ Kept(c) <= Standing(c)
           /\ \A k \in 1..Count(c) : Grant(c, k) \in Proof /\ ask[c][k] \in Name
<1>1. proofs[c] \in Seq(Proof) /\ ask[c] \in Seq(Name) /\ Len(proofs[c]) \in Nat
      /\ Len(ask[c]) \in Nat
  BY SMTT(30) DEF TypeOK
<1>2. pc[c] = "retire" => Len(proofs[c]) > 0
  BY <1>1, SMTT(30) DEF Shape
<1>3. pc[c] = "take" => pend[c] \in Proof
  BY DEF Shape, TypeOK, MaybeProof
<1>4. Count(c) <= Len(ask[c])
  BY <1>1, SMTT(30) DEF Shape, Count
<1>5. ASSUME NEW k \in 1..Count(c) PROVE Grant(c, k) \in Proof /\ ask[c][k] \in Name
  BY <1>1, <1>3, <1>4, SMTT(30) DEF Grant, Count
<1> QED
  BY <1>1, <1>2, <1>4, <1>5, SMTT(30) DEF Count, Live, Standing, Kept

\* A step that moves a caller without touching its grants, the ledgers or the
\* commands.
Quiet ==
    /\ UNCHANGED <<held, row, boot, sent>>
    /\ \A i \in Instance : seq'[i] >= seq[i]
    /\ \A d \in Caller :
        /\ Count(d)' = Count(d) /\ Live(d)' = Live(d) /\ Standing(d)' = Standing(d)
        /\ \A k \in 1..Count(d) : Grant(d, k)' = Grant(d, k) /\ ask'[d][k] = ask[d][k]

LEMMA QuietStep ==
    ASSUME Inv, TypeOK', Quiet
    PROVE  Fresh' /\ Unique' /\ Ledgered' /\ NotRetired' /\ Backed'
<1>1. \A d \in Caller : /\ Count(d) \in Nat /\ Live(d) \in Nat /\ Standing(d) \in Nat
                        /\ Standing(d) <= Live(d) /\ Live(d) <= Count(d)
                        /\ \A k \in 1..Count(d) : Grant(d, k) \in Proof
  BY GrantType DEF Inv
<1>2. ASSUME NEW p \in Proof, Old(p) PROVE Old(p)'
  BY <1>2, SMTT(30) DEF Inv, TypeOK, Quiet, Old, Proof
<1>3. Fresh'
  <2>1. \A m \in sent : m.proof \in Proof /\ Old(m.proof)
    BY DEF Inv, TypeOK, Message, Fresh
  <2>2. \A m \in sent' : Old(m.proof)'
    BY <2>1, <1>2 DEF Quiet
  <2>3. ASSUME NEW d \in Caller, NEW k \in (1..Count(d))' PROVE Old(Grant(d, k))'
    <3>1. k \in 1..Count(d) /\ Grant(d, k) \in Proof /\ Grant(d, k)' = Grant(d, k)
      BY <1>1 DEF Quiet
    <3> QED BY <3>1, <1>2 DEF Inv, Fresh
  <2> QED BY <2>2, <2>3 DEF Fresh
<1>4. Unique'
  BY <1>1, SMTT(30) DEF Inv, Unique, Quiet
<1>5. Ledgered'
  BY <1>1, SMTT(30) DEF Inv, Ledgered, Quiet
<1>6. NotRetired'
  BY <1>1, SMTT(30) DEF Inv, NotRetired, Quiet
<1>7. Backed'
  BY <1>1, SMTT(30) DEF Inv, Backed, Quiet
<1> QED BY <1>3, <1>4, <1>5, <1>6, <1>7

LEMMA InvStep == Inv /\ [Next]_vars => Inv'
<1> SUFFICES ASSUME Inv, [Next]_vars PROVE Inv'
  OBVIOUS
<1> USE HomeAssumption, NoProofAssumption
<1>Type. TypeOK /\ Shape
  BY DEF Inv
<1>TypeNext. TypeOK'
  BY <1>Type, TypeStep
<1>Len. \A d \in Caller : Len(proofs[d]) \in Nat /\ Len(ask[d]) \in Nat
  BY <1>Type, SMTT(30) DEF TypeOK
<1>Grants. \A d \in Caller :
          /\ Count(d) \in Nat /\ Live(d) \in Nat /\ Standing(d) \in Nat
          /\ Standing(d) <= Live(d) /\ Live(d) <= Count(d)
          /\ \A k \in 1..Count(d) : Grant(d, k) \in Proof /\ ask[d][k] \in Name
  BY <1>Type, GrantType
<1>1. ASSUME NEW c \in Caller, NEW ns \in Asks[c], Ask(c, ns) PROVE Inv'
  <2>0. ns \in Seq(Name)
    BY AsksAssumption
  <2>1. Len(ns) \in Nat /\ proofs[c] = <<>> /\ Len(proofs[c]) = 0
    BY <1>1, <2>0, SMTT(30) DEF Inv, Shape, Ask
  <2>2. Shape'
    BY <1>Type, <1>Len, <1>1, <2>0, <2>1, SMTT(30) DEF TypeOK, Shape, Ask, AfterTaking
  <2>3. Quiet
    BY <1>Type, <1>Len, <1>1, <2>1, SMTT(30) DEF TypeOK, Quiet, Ask, AfterTaking, Count, Live, Standing, Grant
  <2> QED BY <1>TypeNext, <2>2, <2>3, QuietStep DEF Inv
<1>2. ASSUME NEW c \in Caller, AcquireRefused(c) PROVE Inv'
  <2>2. Shape'
    BY <1>Type, <1>Len, <1>2 DEF TypeOK, Shape, AcquireRefused
  <2>3. Quiet
    BY <1>Type, <1>Len, <1>2, SMTT(30) DEF TypeOK, Quiet, AcquireRefused, Count, Live, Standing, Grant
  <2> QED BY <1>TypeNext, <2>2, <2>3, QuietStep DEF Inv
<1>3. ASSUME NEW c \in Caller, Acquire(c) PROVE Inv'
  <2>0. NewProof(Home[c]) \in Proof
    BY <1>Type, SMTT(30) DEF TypeOK, NewProof, Proof
  <2> PICK p \in Proof : p = NewProof(Home[c])
    BY <2>0
  <2> DEFINE n == NextName(c)
  <2>1. /\ Home[c] \in Instance /\ n \in Name
        /\ reply[c] = "none" /\ pc[c] = "acquire" /\ pc[c] # "take"
        /\ n = ask[c][Count(c) + 1] /\ Count(c) = Len(proofs[c])
    <3>1. pc[c] = "acquire" /\ pc[c] # "take" /\ Home[c] \in Instance
      BY <1>3 DEF Acquire
    <3>2. reply[c] = "none" /\ Len(proofs[c]) < Len(ask[c])
      BY <1>Type, <3>1 DEF Shape
    <3>3. Count(c) = Len(proofs[c]) /\ n = ask[c][Count(c) + 1]
      BY <3>1 DEF Count, NextName
    <3>4. n \in Name
      BY <1>Type, <1>Len, <3>2, <3>3, SMTT(30) DEF TypeOK
    <3> QED BY <3>1, <3>2, <3>3, <3>4
  <2>2. Shape'
    BY <1>Type, <1>Len, <1>3, <2>1 DEF TypeOK, Shape, Acquire
  <2>3. /\ \A d \in Caller \ {c} : /\ Count(d)' = Count(d) /\ Live(d)' = Live(d)
                                   /\ Standing(d)' = Standing(d)
                                   /\ \A k \in 1..Count(d) : Grant(d, k)' = Grant(d, k)
        /\ Count(c)' = Count(c) + 1 /\ Live(c)' = Count(c) + 1 /\ Standing(c)' = Count(c)
        /\ \A k \in 1..Count(c) : Grant(c, k)' = Grant(c, k)
        /\ \A k : k = Count(c) + 1 => Grant(c, k)' = p
    BY <1>Type, <1>Len, <1>3, <2>1, SMTT(30) DEF TypeOK, Acquire, Count, Live, Standing, Grant
  <2>31. \A d \in Caller : \A k \in 1..(Count(d)') :
            \/ k \in 1..Count(d) /\ Grant(d, k)' = Grant(d, k)
            \/ d = c /\ k = Count(c) + 1 /\ Grant(d, k)' = p
    BY <1>Grants, <2>3, SMTT(30)
  <2>4. ~Old(p) /\ Old(p)'
    BY <1>Type, <1>3, <2>1, SMTT(30) DEF TypeOK, Old, NewProof, Acquire, Proof
  <2>5. ASSUME NEW q \in Proof, Old(q) PROVE Old(q)' /\ q # p
    BY <1>Type, <1>3, <2>4, <2>5, SMTT(30) DEF TypeOK, Old, Acquire, Proof
  <2>6. \A m \in sent : m.proof \in Proof /\ Old(m.proof) /\ m.proof # p
    BY <1>Type, <2>5 DEF Inv, TypeOK, Message, Fresh
  <2>7. \A d \in Caller : \A k \in 1..Count(d) : Old(Grant(d, k)) /\ Grant(d, k) # p
    BY <1>Grants, <2>5 DEF Inv, Fresh
  <2> HIDE DEF n
  <2>8. Fresh'
    <3>1. \A m \in sent' : m.proof \in Proof /\ Old(m.proof)'
      BY <1>3, <2>4, <2>5, <2>6, SMTT(30) DEF Acquire
    <3>2. \A d \in Caller : \A k \in 1..Count(d) : Old(Grant(d, k))'
      BY <1>Grants, <2>3, <2>5, <2>7
    <3> QED BY <1>Grants, <2>3, <2>4, <3>1, <3>2, SMTT(30) DEF Fresh
  <2>9. Unique'
    BY <2>31, <2>7, SMTT(30) DEF Inv, Unique
  <2>10. Ledgered'
    <3>1. \A d \in Caller : \A k \in 1..Count(d) : held'[Home[d]][ask[d][k]] = Grant(d, k)
      <4> SUFFICES ASSUME NEW d \in Caller, NEW k \in 1..Count(d)
                   PROVE  held'[Home[d]][ask[d][k]] = Grant(d, k)
        OBVIOUS
      <4>1. /\ held[Home[d]][ask[d][k]] = Grant(d, k) /\ Grant(d, k) # NoProof
            /\ ask[d][k] \in Name /\ Home[d] \in Instance
        BY <1>Grants DEF Inv, Ledgered
      <4>2. held[Home[c]][n] = NoProof
        BY <1>3 DEF Acquire, Ledger, n
      <4>3. ~(Home[d] = Home[c] /\ ask[d][k] = n)
        BY <4>1, <4>2
      <4>4. held' = [held EXCEPT ![Home[c]][n] = NewProof(Home[c])]
        BY <1>3 DEF Acquire, n
      <4>5. held \in [Instance -> [Name -> MaybeProof]]
        BY <1>Type DEF TypeOK
      <4> QED BY <2>1, <4>1, <4>3, <4>4, <4>5
    <3>2. held'[Home[c]][n] = p
      BY <1>Type, <1>3, <2>1 DEF TypeOK, Acquire, n
    <3> QED BY <1>3, <2>1, <2>31, <3>1, <3>2 DEF Ledgered, Acquire
  <2>11. NotRetired'
    <3>1. \A m \in sent' : m.op = "retire" => m \in sent
      BY <1>3, SMTT(30) DEF Acquire
    <3>2. \A d \in Caller : \A k \in 1..(Live(d)') :
            \/ k \in 1..Live(d) /\ Grant(d, k)' = Grant(d, k)
            \/ Grant(d, k)' = p
      <4>1. Live(c) = Count(c)
        BY <2>1 DEF Live
      <4> QED BY <1>Grants, <2>3, <4>1, SMTT(30)
    <3> QED BY <2>6, <3>1, <3>2 DEF Inv, NotRetired
  <2>12. Backed'
    <3>1. Standing(c) = Count(c)
      BY <1>Type, <2>1 DEF Standing, Live
    <3>2. \A d \in Caller : \A k \in 1..(Standing(d)') :
            k \in 1..Standing(d) /\ Grant(d, k)' = Grant(d, k)
      BY <1>Grants, <2>3, <3>1, SMTT(30)
    <3> QED BY <1>3, <3>2 DEF Inv, Backed, Acquire
  <2> QED BY <1>TypeNext, <2>2, <2>8, <2>9, <2>10, <2>11, <2>12 DEF Inv
<1>4. ASSUME NEW c \in Caller, TakeWon(c) PROVE Inv'
  <2>1. pend[c] \in Proof /\ proofs[c] \in Seq(Proof) /\ Len(proofs[c]) < Len(ask[c])
    BY <1>Type, <1>4 DEF TypeOK, Shape, MaybeProof, TakeWon
  <2>2. Shape'
    BY <1>Type, <1>Len, <1>4, <2>1, SMTT(30) DEF TypeOK, Shape, TakeWon, AfterTaking
  <2>3. Quiet
    BY <1>Type, <1>Len, <1>4, <2>1, SMTT(30) DEF TypeOK, Quiet, TakeWon, AfterTaking, Count, Live, Standing, Grant
  <2> QED BY <1>TypeNext, <2>2, <2>3, QuietStep DEF Inv
<1>5. ASSUME NEW c \in Caller, pc[c] = "take", DropReservation(c) PROVE Inv'
  <2> DEFINE n == NextName(c)
  <2>1. /\ Home[c] \in Instance /\ n \in Name /\ Count(c) = Len(proofs[c]) + 1
        /\ n = ask[c][Count(c)] /\ Count(c) > 0
    BY <1>Type, <1>Len, <1>5, SMTT(30) DEF TypeOK, Shape, NextName, Count
  <2>2. Shape'
    BY <1>Type, <1>Len, <1>5 DEF TypeOK, Shape, DropReservation
  <2>3. /\ \A d \in Caller \ {c} : /\ Count(d)' = Count(d) /\ Live(d)' = Live(d)
                                   /\ Standing(d)' = Standing(d)
        /\ Count(c)' = Count(c) - 1 /\ Live(c)' = Count(c) - 1
        /\ Standing(c)' = Count(c) - 1 /\ Live(c) = Count(c) /\ Standing(c) >= Count(c) - 1
    BY <1>Type, <1>Len, <1>5, <2>1, SMTT(30) DEF TypeOK, DropReservation, Count, Live, Standing
  <2>31. \A d \in Caller : \A k \in 1..(Count(d)') : Grant(d, k)' = Grant(d, k)
    BY <1>Type, <1>Len, <1>5, <2>1, <2>3, SMTT(30) DEF TypeOK, DropReservation, Count, Grant
  <2> HIDE DEF n
  <2>4. Fresh'
    BY <1>5, <1>Grants, <2>3, <2>31, SMTT(30) DEF Inv, Fresh, Old, DropReservation
  <2>5. Unique'
    BY <1>5, <1>Grants, <2>3, <2>31, SMTT(30) DEF Inv, Unique
  <2>6. Ledgered'
    <3>1. ASSUME NEW d \in Caller, NEW k \in 1..(Count(d)')
          PROVE  held'[Home[d]][ask[d][k]] = held[Home[d]][ask[d][k]]
      <4>1. k \in 1..Count(d) /\ ask[d][k] \in Name /\ Home[d] \in Instance
        BY <1>Grants, <2>3, <3>1, SMTT(30)
      <4>2. ~(Home[d] = Home[c] /\ ask[d][k] = n)
        <5> SUFFICES ASSUME Home[d] = Home[c], ask[d][k] = n PROVE FALSE
          OBVIOUS
        <5>1. Grant(d, k) = Grant(c, Count(c))
          BY <1>Grants, <2>1, <4>1, SMTT(30) DEF Inv, Ledgered
        <5>2. d = c /\ k = Count(c)
          BY <1>Grants, <2>1, <4>1, <5>1, SMTT(30) DEF Inv, Unique
        <5> QED BY <1>Grants, <2>3, <5>2, SMTT(30)
      <4> QED BY <1>Type, <1>5, <2>1, <4>1, <4>2 DEF TypeOK, DropReservation, n
    <3> QED BY <1>5, <1>Grants, <2>3, <2>31, <3>1, SMTT(30) DEF Inv, Ledgered, DropReservation
  <2>7. NotRetired'
    BY <1>5, <1>Grants, <2>3, <2>31, SMTT(30) DEF Inv, NotRetired, DropReservation
  <2>8. Backed'
    BY <1>5, <1>Grants, <2>3, <2>31, SMTT(30) DEF Inv, Backed, DropReservation
  <2> QED BY <1>TypeNext, <2>2, <2>4, <2>5, <2>6, <2>7, <2>8 DEF Inv
<1>6. ASSUME NEW c \in Caller, FnReturn(c) PROVE Inv'
  <2>2. Shape'
    BY <1>Type, <1>Len, <1>6 DEF TypeOK, Shape, FnReturn
  <2>3. Quiet
    BY <1>Type, <1>Len, <1>6, SMTT(30) DEF TypeOK, Quiet, FnReturn, Count, Live, Standing, Grant
  <2> QED BY <1>TypeNext, <2>2, <2>3, QuietStep DEF Inv
<1>7. ASSUME NEW c \in Caller, Retire(c) PROVE Inv'
  <2>1. /\ Len(proofs[c]) > 0 /\ Count(c) = Len(proofs[c])
        /\ LastProof(c) = Grant(c, Count(c)) /\ reply[c] = "none"
    <3>1. proofs[c] \in Seq(Proof) /\ proofs[c] # <<>> /\ pc[c] = "giveBack"
      BY <1>Type, <1>7 DEF TypeOK, Retire
    <3>2. Len(proofs[c]) > 0
      BY <3>1, SMTT(30)
    <3>3. Count(c) = Len(proofs[c])
      BY <3>1 DEF Count
    <3>4. Grant(c, Count(c)) = LastProof(c)
      BY <1>Len, <3>3, SMTT(30) DEF Grant, LastProof
    <3>5. reply[c] = "none"
      BY <1>Type, <3>1 DEF Shape
    <3> QED BY <3>2, <3>3, <3>4, <3>5
  <2>2. Shape'
    BY <1>Type, <1>Len, <1>7 DEF TypeOK, Shape, Retire
  <2>3. /\ \A d \in Caller : Count(d)' = Count(d) /\ \A k : Grant(d, k)' = Grant(d, k)
        /\ \A d \in Caller \ {c} : Live(d)' = Live(d) /\ Standing(d)' = Standing(d)
        /\ Live(c)' = Count(c) - 1 /\ Live(c) = Count(c)
        /\ Standing(c)' = Count(c) - 1 /\ Standing(c) = Count(c)
    BY <1>Type, <1>Len, <1>7, <2>1 DEF TypeOK, Retire, Count, Grant, Live, Standing
  <2>21. \A m \in sent' : m \in sent \/ m.proof = Grant(c, Count(c))
    <3>1. sent' = sent \cup {[op |-> "retire", name |-> LastName(c),
                              proof |-> LastProof(c), from |-> c]}
      BY <1>7 DEF Retire
    <3> QED BY <2>1, <3>1, SMTT(30)
  <2>4. Fresh'
    <3>2. Old(Grant(c, Count(c)))
      BY <1>Grants, <2>1, SMTT(30) DEF Inv, Fresh
    <3>3. \A q : Old(q)' <=> Old(q)
      BY <1>7 DEF Old, Retire
    <3> QED BY <2>3, <2>21, <3>2, <3>3 DEF Inv, Fresh
  <2>5. Unique' /\ Ledgered'
    <3>1. ask' = ask /\ held' = held
      BY <1>7 DEF Retire
    <3>2. Unique'
      BY <2>3, SMTT(30) DEF Inv, Unique
    <3>3. Ledgered'
      BY <2>3, <3>1, SMTT(30) DEF Inv, Ledgered
    <3> QED BY <3>2, <3>3
  <2>6. NotRetired'
    <3>2. \A d \in Caller : \A k \in 1..(Live(d)') : k \in 1..Live(d)
      BY <1>Grants, <2>3, SMTT(30)
    <3>3. \A d \in Caller : \A k \in 1..(Live(d)') : Grant(d, k) # Grant(c, Count(c))
      <4> SUFFICES ASSUME NEW d \in Caller, NEW k \in 1..(Live(d)'),
                          Grant(d, k) = Grant(c, Count(c))
                   PROVE  FALSE
        OBVIOUS
      <4>1. k \in 1..Count(d) /\ Count(c) \in 1..Count(c)
        BY <1>Grants, <2>1, <3>2, SMTT(30)
      <4>2. d = c /\ k = Count(c)
        BY <4>1 DEF Inv, Unique
      <4> QED BY <1>Grants, <2>3, <4>2, SMTT(30)
    <3> QED BY <2>3, <2>21, <3>2, <3>3, SMTT(30) DEF Inv, NotRetired
  <2>7. Backed'
    <3>1. \A d \in Caller : \A k \in 1..(Standing(d)') : k \in 1..Standing(d)
      BY <1>Grants, <2>3, SMTT(30)
    <3> QED BY <1>7, <2>3, <3>1 DEF Inv, Backed, Retire
  <2> QED BY <1>TypeNext, <2>2, <2>4, <2>5, <2>6, <2>7 DEF Inv
<1>8. ASSUME NEW c \in Caller, Release(c) PROVE Inv'
  <2> DEFINE n == LastName(c)
  <2>1. /\ Len(proofs[c]) > 0 /\ Count(c) = Len(proofs[c]) /\ proofs[c] \in Seq(Proof)
        /\ Home[c] \in Instance /\ n \in Name /\ n = ask[c][Count(c)]
    BY <1>Type, <1>Len, <1>8, SMTT(30) DEF TypeOK, Shape, Release, Count, LastName
  <2>11. /\ Len(proofs'[c]) = Len(proofs[c]) - 1
         /\ \A k \in 1..(Len(proofs[c]) - 1) : proofs'[c][k] = proofs[c][k]
         /\ \A d \in Caller \ {c} : proofs'[d] = proofs[d]
    BY <1>Type, <1>Len, <1>8, <2>1, SMTT(30) DEF TypeOK, Release
  <2>2. Shape'
    BY <1>Type, <1>Len, <1>8, <2>1, <2>11, SMTT(30) DEF TypeOK, Shape, Release
  <2>3. /\ \A d \in Caller \ {c} : /\ Count(d)' = Count(d) /\ Live(d)' = Live(d)
                                   /\ Standing(d)' = Standing(d)
        /\ Count(c)' = Count(c) - 1
        /\ Live(c)' = Count(c) - 1 /\ Live(c) = Count(c) - 1
        /\ Standing(c)' = Count(c) - 1 /\ Standing(c) = Count(c) - 1
    BY <1>Type, <1>Len, <1>8, <2>1, <2>11 DEF TypeOK, Release, Count, Live, Standing
  <2>31. \A d \in Caller : \A k \in 1..(Count(d)') :
            k \in 1..Count(d) /\ Grant(d, k)' = Grant(d, k)
    <3> SUFFICES ASSUME NEW d \in Caller, NEW k \in 1..(Count(d)')
                 PROVE  k \in 1..Count(d) /\ Grant(d, k)' = Grant(d, k)
      OBVIOUS
    <3>1. k \in 1..Count(d)
      BY <1>Grants, <2>3, SMTT(30)
    <3>2. CASE d = c
      BY <1>Len, <2>1, <2>11, <2>3, <3>1, <3>2, SMTT(30) DEF Grant
    <3>3. CASE d # c
      <4>1. proofs'[d] = proofs[d] /\ pend' = pend
        BY <1>8, <2>11, <3>3 DEF Release
      <4> QED BY <3>1, <4>1 DEF Grant
    <3> QED BY <3>1, <3>2, <3>3
  <2> HIDE DEF n
  <2>4. Fresh'
    BY <1>8, <2>31 DEF Inv, Fresh, Old, Release
  <2>5. Unique'
    BY <2>31, SMTT(30) DEF Inv, Unique
  <2>6. Ledgered'
    <3>1. ASSUME NEW d \in Caller, NEW k \in 1..(Count(d)')
          PROVE  held'[Home[d]][ask[d][k]] = held[Home[d]][ask[d][k]]
      <4>1. k \in 1..Count(d) /\ ask[d][k] \in Name /\ Home[d] \in Instance
        BY <1>Grants, <2>31
      <4>2. ~(Home[d] = Home[c] /\ ask[d][k] = n)
        <5> SUFFICES ASSUME Home[d] = Home[c], ask[d][k] = n PROVE FALSE
          OBVIOUS
        <5>1. Grant(d, k) = Grant(c, Count(c))
          BY <1>Grants, <2>1, <4>1, SMTT(30) DEF Inv, Ledgered
        <5>2. d = c /\ k = Count(c)
          BY <1>Grants, <2>1, <4>1, <5>1, SMTT(30) DEF Inv, Unique
        <5> QED BY <1>Grants, <2>3, <5>2, SMTT(30)
      <4> QED BY <1>Type, <1>8, <2>1, <4>1, <4>2 DEF TypeOK, Release, n
    <3> QED BY <1>8, <2>31, <3>1, SMTT(30) DEF Inv, Ledgered, Release
  <2>7. NotRetired' /\ Backed'
    <3>1. \A d \in Caller : (Live(d)' = Live(d)) /\ (Standing(d)' = Standing(d))
      BY <2>3
    <3>2. \A d \in Caller : /\ \A k \in 1..Live(d) : Grant(d, k)' = Grant(d, k)
                            /\ \A k \in 1..Standing(d) : Grant(d, k)' = Grant(d, k)
      BY <1>Grants, <2>3, <2>31, SMTT(30)
    <3> QED BY <1>8, <3>1, <3>2, SMTT(30) DEF Inv, NotRetired, Backed, Release
  <2> QED BY <1>TypeNext, <2>2, <2>4, <2>5, <2>6, <2>7 DEF Inv
<1>9. ASSUME NEW c \in Caller, Return(c) PROVE Inv'
  <2>1. Len(proofs[c]) = 0
    BY <1>9, SMTT(30) DEF Return
  <2>2. Shape'
    BY <1>Type, <1>Len, <1>9, <2>1, SMTT(30) DEF TypeOK, Shape, Return
  <2>3. Quiet
    BY <1>Type, <1>Len, <1>9, <2>1, SMTT(30) DEF TypeOK, Quiet, Return, Count, Live, Standing, Grant
  <2> QED BY <1>TypeNext, <2>2, <2>3, QuietStep DEF Inv
<1>10. ASSUME NEW m \in sent, ExecTake(m) PROVE Inv'
  <2> DEFINE c == m.from
  <2>1. m.proof \in Proof /\ m.name \in Name /\ c \in Caller
    BY <1>Type DEF TypeOK, Message
  <2>2. Shape'
    BY <1>Type, <1>10, <2>1 DEF TypeOK, Shape, ExecTake, Answer, Awaited
  <2>3. \A d \in Caller : /\ Count(d)' = Count(d) /\ Live(d)' = Live(d)
                          /\ \A k : Grant(d, k)' = Grant(d, k)
    BY <1>10 DEF ExecTake, Count, Live, Grant
  <2>4. Fresh' /\ Unique' /\ Ledgered' /\ NotRetired'
    <3>0. UNCHANGED <<boot, seq, held, ask, sent>>
      BY <1>10 DEF ExecTake
    <3>1. Fresh'
      BY <2>3, <3>0 DEF Inv, Fresh, Old
    <3>2. Unique'
      BY <2>3, <3>0, SMTT(30) DEF Inv, Unique
    <3>3. Ledgered'
      BY <2>3, <3>0 DEF Inv, Ledgered
    <3>4. NotRetired'
      BY <2>3, <3>0, SMTT(30) DEF Inv, NotRetired
    <3> QED BY <3>1, <3>2, <3>3, <3>4
  <2>5. ASSUME NEW d \in Caller, NEW k \in 1..Standing(d)
        PROVE  row'[ask[d][k]] = Grant(d, k)
    <3>1. row[ask[d][k]] = Grant(d, k) /\ Grant(d, k) \in Proof /\ ask[d][k] \in Name
      BY <1>Grants, SMTT(30) DEF Inv, Backed
    <3> QED BY <1>Type, <1>10, <2>1, <3>1 DEF TypeOK, ExecTake
  <2>6. \A d \in Caller : \/ Standing(d)' = Standing(d)
                          \/ /\ Standing(d)' = Count(d) /\ Standing(d) = Count(d) - 1
                             /\ row'[ask[d][Count(d)]] = Grant(d, Count(d))
    <3> SUFFICES ASSUME NEW d \in Caller, reply'[d] # reply[d]
                 PROVE  /\ Standing(d)' = Count(d) /\ Standing(d) = Count(d) - 1
                        /\ row'[ask[d][Count(d)]] = Grant(d, Count(d))
                        \/ Standing(d)' = Standing(d)
      BY <1>10, <2>3 DEF ExecTake, Standing, Count, Live
    <3>1. d = c /\ Awaited(m) /\ (reply'[d] = "yes" \/ reply'[d] = "no")
      BY <1>Type, <1>10, <2>1 DEF TypeOK, ExecTake, Answer
    <3>2. /\ pc[d] = "take" /\ pc'[d] = "take" /\ reply[d] = "none" /\ m.proof = pend[d]
          /\ m.name = NextName(d)
      BY <1>10, <3>1 DEF ExecTake, Awaited
    <3>3. /\ Count(d) = Len(proofs[d]) + 1 /\ ask[d][Count(d)] = m.name
          /\ Grant(d, Count(d)) = m.proof
      BY <1>Len, <3>2, SMTT(30) DEF Count, Grant, NextName
    <3>4. CASE reply'[d] = "yes"
      <4>1. row' = [row EXCEPT ![m.name] = m.proof]
        BY <1>Type, <1>10, <2>1, <3>1, <3>2, <3>4 DEF TypeOK, ExecTake, Answer
      <4>2. row'[m.name] = m.proof
        BY <1>Type, <2>1, <4>1 DEF TypeOK
      <4> QED BY <2>3, <3>2, <3>3, <3>4, <4>2 DEF Standing, Live
    <3>5. CASE reply'[d] = "no"
      BY <2>3, <3>2, <3>5 DEF Standing
    <3> QED BY <3>1, <3>4, <3>5
  <2>7. Backed'
    <3>1. ask' = ask
      BY <1>10 DEF ExecTake
    <3> SUFFICES ASSUME NEW d \in Caller, NEW k \in 1..(Standing(d)')
                 PROVE  row'[ask[d][k]] = Grant(d, k)
      BY <2>3, <3>1 DEF Backed
    <3> QED BY <1>Grants, <2>5, <2>6, SMTT(30)
  <2> QED BY <1>TypeNext, <2>2, <2>4, <2>7 DEF Inv
<1>11. ASSUME NEW m \in sent, ExecRetire(m) PROVE Inv'
  <2>1. m.proof \in Proof /\ m.name \in Name /\ m.from \in Caller /\ m.op = "retire"
    BY <1>Type, <1>11 DEF TypeOK, Message, ExecRetire
  <2>2. Shape'
    BY <1>Type, <1>11, <2>1 DEF TypeOK, Shape, ExecRetire, Answer, Awaited
  <2>3. \A d \in Caller : /\ Count(d)' = Count(d) /\ Live(d)' = Live(d)
                          /\ \A k : Grant(d, k)' = Grant(d, k)
    BY <1>11 DEF ExecRetire, Count, Live, Grant
  <2>4. Fresh' /\ Unique' /\ Ledgered' /\ NotRetired'
    <3>0. UNCHANGED <<boot, seq, held, ask, sent>>
      BY <1>11 DEF ExecRetire
    <3>1. Fresh'
      BY <2>3, <3>0 DEF Inv, Fresh, Old
    <3>2. Unique'
      BY <2>3, <3>0, SMTT(30) DEF Inv, Unique
    <3>3. Ledgered'
      BY <2>3, <3>0 DEF Inv, Ledgered
    <3>4. NotRetired'
      BY <2>3, <3>0, SMTT(30) DEF Inv, NotRetired
    <3> QED BY <3>1, <3>2, <3>3, <3>4
  <2>5. ASSUME NEW d \in Caller, NEW k \in 1..Standing(d)
        PROVE  row'[ask[d][k]] = Grant(d, k)
    <3>1. /\ row[ask[d][k]] = Grant(d, k) /\ ask[d][k] \in Name
          /\ k \in 1..Live(d)
      BY <1>Grants, SMTT(30) DEF Inv, Backed
    <3>2. m.proof # Grant(d, k)
      BY <2>1, <3>1 DEF Inv, NotRetired
    <3> QED BY <1>Type, <1>11, <2>1, <3>1, <3>2 DEF TypeOK, ExecRetire
  <2>6. \A d \in Caller : Standing(d)' = Standing(d)
    <3>1. \A d \in Caller : pc[d] = "take" => reply'[d] = reply[d]
      BY <1>Type, <1>11, <2>1 DEF TypeOK, ExecRetire, Answer, Awaited
    <3> QED BY <1>11, <2>3, <3>1 DEF ExecRetire, Standing
  <2>7. Backed'
    <3>1. ask' = ask
      BY <1>11 DEF ExecRetire
    <3> SUFFICES ASSUME NEW d \in Caller, NEW k \in 1..Standing(d)
                 PROVE  row'[ask[d][k]] = Grant(d, k)
      BY <2>3, <2>6, <3>1 DEF Backed
    <3> QED BY <2>5
  <2> QED BY <1>TypeNext, <2>2, <2>4, <2>7 DEF Inv
<1>12. ASSUME NEW i \in Instance, Crash(i) PROVE Inv'
  <2>1. Shape'
    BY <1>Type, <1>Len, <1>12, SMTT(30) DEF TypeOK, Shape, Crash
  <2>2. \A d \in Caller :
          IF Home[d] = i THEN Count(d)' = 0 /\ Live(d)' = 0 /\ Standing(d)' = 0
          ELSE /\ Count(d)' = Count(d) /\ Live(d)' = Live(d)
               /\ Standing(d)' = Standing(d) /\ ask'[d] = ask[d]
               /\ held'[Home[d]] = held[Home[d]]
               /\ \A k : Grant(d, k)' = Grant(d, k)
    BY <1>Type, <1>12 DEF TypeOK, Crash, Count, Live, Standing, Grant
  <2>3. ASSUME NEW q \in Proof, Old(q) PROVE Old(q)'
    BY <1>Type, <1>12, <2>3, SMTT(30) DEF TypeOK, Old, Crash, Proof
  <2>4. Fresh'
    <3>1. \A m \in sent' : Old(m.proof)'
      BY <1>Type, <1>12, <2>3 DEF Inv, Fresh, TypeOK, Message, Crash
    <3>2. ASSUME NEW d \in Caller, NEW k \in 1..(Count(d)') PROVE Old(Grant(d, k))'
      <4>1. Home[d] # i /\ k \in 1..Count(d) /\ Grant(d, k)' = Grant(d, k)
        BY <2>2, SMTT(30)
      <4> QED BY <1>Grants, <2>3, <4>1 DEF Inv, Fresh
    <3> QED BY <3>1, <3>2 DEF Fresh
  <2>5. Unique' /\ Ledgered'
    BY <2>2, SMTT(30) DEF Inv, Unique, Ledgered
  <2>6. NotRetired' /\ Backed'
    <3>1. sent' = sent /\ row' = row
      BY <1>12 DEF Crash
    <3>2. NotRetired'
      BY <2>2, <3>1, SMTT(30) DEF Inv, NotRetired
    <3>3. Backed'
      BY <2>2, <3>1, SMTT(30) DEF Inv, Backed
    <3> QED BY <3>2, <3>3
  <2> QED BY <1>TypeNext, <2>1, <2>4, <2>5, <2>6 DEF Inv
<1>13. ASSUME NEW ns \in SUBSET Name, CleanupNames(ns) PROVE Inv'
  <2>1. Shape'
    BY <1>Type, <1>13 DEF Shape, CleanupNames
  <2>2. \A d \in Caller : /\ Count(d)' = Count(d) /\ Live(d)' = Live(d)
                          /\ Standing(d)' = Standing(d)
                          /\ \A k : Grant(d, k)' = Grant(d, k)
    BY <1>13 DEF CleanupNames, Count, Live, Standing, Grant
  <2>3. Fresh' /\ Unique' /\ Ledgered' /\ NotRetired'
    <3>0. UNCHANGED <<boot, seq, held, ask, sent>>
      BY <1>13 DEF CleanupNames
    <3>1. Fresh'
      BY <2>2, <3>0 DEF Inv, Fresh, Old
    <3>2. Unique'
      BY <2>2, <3>0, SMTT(30) DEF Inv, Unique
    <3>3. Ledgered'
      BY <2>2, <3>0 DEF Inv, Ledgered
    <3>4. NotRetired'
      BY <2>2, <3>0, SMTT(30) DEF Inv, NotRetired
    <3> QED BY <3>1, <3>2, <3>3, <3>4
  <2>4. \A d \in Caller : \A k \in 1..Standing(d) : ask[d][k] \in Name \ ns
    <3> SUFFICES ASSUME NEW d \in Caller, NEW k \in 1..Standing(d), ask[d][k] \in ns
                 PROVE  FALSE
      BY <1>Grants, SMTT(30)
    <3>1. held[Home[d]][ask[d][k]] = Grant(d, k) /\ Grant(d, k) \in Proof
      BY <1>Grants, SMTT(30) DEF Inv, Ledgered
    <3> QED BY <1>13, <3>1 DEF CleanupNames
  <2>5. Backed'
    <3>1. ask' = ask /\ \A n \in Name \ ns : row'[n] = row[n]
      BY <1>13 DEF CleanupNames
    <3>2. ASSUME NEW d \in Caller, NEW k \in 1..Standing(d)
          PROVE  row'[ask[d][k]] = Grant(d, k)
      <4>1. row[ask[d][k]] = Grant(d, k)
        BY DEF Inv, Backed
      <4> QED BY <2>4, <3>1, <4>1
    <3>3. ASSUME NEW d \in Caller, NEW k \in 1..(Standing(d)')
          PROVE  row'[ask'[d][k]] = Grant(d, k)'
      BY <2>2, <3>1, <3>2, SMTT(30)
    <3> QED BY <3>3 DEF Backed
  <2> QED BY <1>TypeNext, <2>1, <2>3, <2>5 DEF Inv
<1>14. CASE UNCHANGED vars
  <2>2. Shape'
    BY <1>Type, <1>14 DEF Shape, vars
  <2>3. Quiet
    <3>1. UNCHANGED <<held, row, boot, seq, pc, ask, proofs, pend, reply, sent>>
      BY <1>14 DEF vars
    <3>2. \A i \in Instance : seq'[i] >= seq[i]
      BY <1>Type, <3>1, SMTT(30) DEF TypeOK
    <3> QED BY <3>1, <3>2 DEF Quiet, Count, Live, Standing, Grant
  <2> QED BY <1>TypeNext, <2>2, <2>3, QuietStep DEF Inv
<1> QED
  BY <1>1, <1>2, <1>3, <1>4, <1>5, <1>6, <1>7, <1>8, <1>9, <1>10, <1>11, <1>12,
     <1>13, <1>14 DEF Next, CallerStep, TakeRefused, TakeFailed

THEOREM Invariance == Spec => []Inv
BY InitInv, InvStep, PTL DEF Spec

-----------------------------------------------------------------------------
\* Type correctness.
THEOREM TypeCorrect == Spec => []TypeOK
<1>1. Inv => TypeOK
  BY DEF Inv
<1> QED BY <1>1, Invariance, PTL

LEMMA ExclusionFromInv == Inv => MutualExclusion
<1> SUFFICES ASSUME Inv, NEW c \in Caller, NEW d \in Caller, NEW n \in Name,
                    Holds(c, n), Holds(d, n)
             PROVE  c = d
  BY DEF MutualExclusion
<1>1. PICK k \in 1..Kept(c) : ask[c][k] = n
  BY DEF Holds
<1>2. PICK l \in 1..Kept(d) : ask[d][l] = n
  BY DEF Holds
<1>3. k \in 1..Standing(c) /\ l \in 1..Standing(d)
  BY GrantType, SMTT(30) DEF Inv
<1>4. k \in 1..Count(c) /\ l \in 1..Count(d)
  BY <1>3, GrantType, SMTT(30) DEF Inv
<1>5. Grant(c, k) = Grant(d, l)
  BY <1>1, <1>2, <1>3 DEF Inv, Backed
<1> QED BY <1>4, <1>5 DEF Inv, Unique

\* A name has at most one holder in the whole fleet, for every fleet and every
\* history of crashes, lost answers and late or repeated commands.
THEOREM MutualExclusionHolds == Spec => []MutualExclusion
BY ExclusionFromInv, Invariance, PTL

\* fn runs only on grants that stand under its own proofs.
THEOREM RunsFullyBackedHolds == Spec => []RunsFullyBacked
<1>1. ASSUME Inv PROVE RunsFullyBacked
  <2> SUFFICES ASSUME NEW c \in Caller, pc[c] = "run"
               PROVE  /\ Len(proofs[c]) = Len(ask[c])
                      /\ \A k \in 1..Len(ask[c]) : row[ask[c][k]] = proofs[c][k]
    BY DEF RunsFullyBacked
  <2>1. Len(proofs[c]) = Len(ask[c]) /\ Len(proofs[c]) \in Nat
    BY <1>1, SMTT(30) DEF Inv, Shape, TypeOK
  <2>2. Standing(c) = Len(proofs[c])
    BY DEF Standing, Live, Count
  <2>3. \A k \in 1..Len(ask[c]) : Grant(c, k) = proofs[c][k]
    BY <2>1, SMTT(30) DEF Grant
  <2> QED BY <1>1, <2>1, <2>2, <2>3 DEF Inv, Backed
<1> QED BY <1>1, Invariance, PTL

\* A held name's row: who holds what, in terms of Standing grants.
LEMMA HolderGrant ==
    ASSUME Inv, NEW c \in Caller, NEW n \in Name, Holds(c, n)
    PROVE  \E k \in 1..Live(c) :
              /\ k \in 1..Count(c) /\ ask[c][k] = n /\ row[n] = Grant(c, k)
              /\ held[Home[c]][n] = Grant(c, k) /\ Grant(c, k) \in Proof
<1>1. PICK k \in 1..Kept(c) : ask[c][k] = n
  BY DEF Holds
<1>2. k \in 1..Standing(c) /\ k \in 1..Live(c) /\ k \in 1..Count(c)
  <2>1. /\ Kept(c) \in Nat /\ Standing(c) \in Nat /\ Live(c) \in Nat /\ Count(c) \in Nat
        /\ Kept(c) <= Standing(c) /\ Standing(c) <= Live(c) /\ Live(c) <= Count(c)
    BY GrantType DEF Inv
  <2> QED BY <2>1, SMTT(30)
<1> QED BY <1>1, <1>2, GrantType DEF Inv, Backed, Ledgered

\* No step of anybody touches the row of a held name.
THEOREM GrantStandsHolds == Spec => GrantStands
<1>1. ASSUME Inv, [Next]_vars, NEW c \in Caller, NEW n \in Name, Holds(c, n)
      PROVE  row'[n] = row[n]
  <2>1. PICK k \in 1..Live(c) : /\ row[n] = Grant(c, k) /\ Grant(c, k) \in Proof
                               /\ held[Home[c]][n] = Grant(c, k)
    BY <1>1, HolderGrant
  <2>2. row \in [Name -> MaybeProof] /\ sent \subseteq Message
    BY <1>1 DEF Inv, TypeOK
  <2>3. ASSUME NEW m \in sent, ExecTake(m) PROVE row'[n] = row[n]
    BY <2>1, <2>2, <2>3, NoProofAssumption DEF ExecTake
  <2>4. ASSUME NEW m \in sent, ExecRetire(m) PROVE row'[n] = row[n]
    <3>1. m.proof # row[n]
      BY <1>1, <2>1, <2>4 DEF Inv, NotRetired, ExecRetire
    <3> QED BY <2>2, <2>4, <3>1 DEF ExecRetire
  <2>5. ASSUME NEW ns \in SUBSET Name, CleanupNames(ns) PROVE row'[n] = row[n]
    BY <2>1, <2>5, HomeAssumption, NoProofAssumption DEF CleanupNames
  <2>6. CASE ~ \/ \E m \in sent : ExecTake(m) \/ ExecRetire(m)
               \/ \E ns \in SUBSET Name : CleanupNames(ns)
    BY <1>1, <2>6 DEF Next, CallerStep, vars, Ask, AcquireRefused, Acquire, TakeWon,
       TakeRefused, TakeFailed, DropReservation, FnReturn, Retire, Release, Return, Crash
  <2> QED BY <2>3, <2>4, <2>5, <2>6
<1>2. Inv /\ [Next]_vars =>
        [\A c \in Caller, n \in Name : Holds(c, n) => row'[n] = row[n]]_vars
  BY <1>1
<1> QED BY <1>2, Invariance, PTL DEF Spec, GrantStands

-----------------------------------------------------------------------------
\* A name in an internal ledger is one a caller of the instance has taken, is
\* taking, or is giving back.
Accounted ==
    \A i \in Instance, n \in Name : held[i][n] # NoProof =>
        \E c \in Caller : Home[c] = i /\ \E k \in 1..Count(c) : ask[c][k] = n

\* A step that reserves nothing, and drops no grant whose name stays reserved.
LEMMA AccountedKept ==
    ASSUME Accounted,
           \A i \in Instance, n \in Name : held'[i][n] # NoProof =>
              /\ held[i][n] # NoProof
              /\ \A c \in Caller : \A k \in 1..Count(c) :
                    Home[c] = i /\ ask[c][k] = n => k \in 1..Count(c)' /\ ask'[c][k] = n
    PROVE  Accounted'
<1> SUFFICES ASSUME NEW i \in Instance, NEW n \in Name, held'[i][n] # NoProof
             PROVE  \E c \in Caller : Home[c] = i /\ \E k \in 1..Count(c)' : ask'[c][k] = n
  BY DEF Accounted
<1>1. PICK c \in Caller : Home[c] = i /\ \E k \in 1..Count(c) : ask[c][k] = n
  BY DEF Accounted
<1>2. PICK k \in 1..Count(c) : ask[c][k] = n
  BY <1>1
<1>3. k \in 1..Count(c)' /\ ask'[c][k] = n
  BY <1>1, <1>2
<1> QED BY <1>1, <1>3

LEMMA AccountedStep == Inv /\ Accounted /\ [Next]_vars => Accounted'
<1> SUFFICES ASSUME Inv, Accounted, [Next]_vars PROVE Accounted'
  OBVIOUS
<1>0. /\ TypeOK /\ Shape
      /\ \A c \in Caller : /\ Count(c) \in Nat /\ Len(proofs[c]) \in Nat /\ Home[c] \in Instance
                           /\ pc[c] = "retire" => Len(proofs[c]) > 0
  <2>1. TypeOK /\ Shape
    BY DEF Inv
  <2>2. \A c \in Caller : Count(c) \in Nat /\ Home[c] \in Instance
    BY <2>1, GrantType, HomeAssumption
  <2>3. \A c \in Caller : proofs[c] \in Seq(Proof) /\ (pc[c] = "retire" => proofs[c] # <<>>)
    BY <2>1 DEF TypeOK, Shape
  <2>4. \A c \in Caller : Len(proofs[c]) \in Nat /\ (pc[c] = "retire" => Len(proofs[c]) > 0)
    BY <2>3, SMTT(30)
  <2> QED BY <2>1, <2>2, <2>4
<1>1. ASSUME NEW c \in Caller, NEW ns \in Asks[c], Ask(c, ns) PROVE Accounted'
  <2>0. held' = held /\ pc[c] = "idle"
    BY <1>1 DEF Ask
  <2>1. held' = held /\ Count(c) = 0
    <3>1. proofs[c] = <<>>
      BY <1>0, <2>0 DEF Shape
    <3>2. Len(proofs[c]) = 0
      BY <3>1, SMTT(30)
    <3> QED BY <2>0, <3>2 DEF Count
  <2>2. \A d \in Caller \ {c} : Count(d)' = Count(d) /\ ask'[d] = ask[d]
    BY <1>0, <1>1 DEF Ask, TypeOK, Count
  <2>3. ASSUME NEW d \in Caller, NEW k \in 1..Count(d)
        PROVE  k \in 1..Count(d)' /\ ask'[d][k] = ask[d][k]
    <3>1. CASE d = c
      BY <2>1, <2>3, <3>1, SMTT(30)
    <3>2. CASE d # c
      BY <2>2, <2>3, <3>2
    <3> QED BY <3>1, <3>2
  <2> QED BY <2>1, <2>3, AccountedKept
<1>2. ASSUME NEW c \in Caller, Acquire(c) PROVE Accounted'
  <2>1. /\ held' = [held EXCEPT ![Home[c]][NextName(c)] = NewProof(Home[c])]
        /\ UNCHANGED <<ask, proofs>> /\ Count(c) = Len(proofs[c])
        /\ Count(c)' = Len(proofs[c]) + 1
    BY <1>0, <1>2 DEF Acquire, TypeOK, Count
  <2>2. \A d \in Caller \ {c} : Count(d)' = Count(d)
    BY <1>0, <1>2 DEF Acquire, TypeOK, Count
  <2> SUFFICES ASSUME NEW i \in Instance, NEW n \in Name, held'[i][n] # NoProof
               PROVE  \E d \in Caller : Home[d] = i /\ \E k \in 1..Count(d)' : ask[d][k] = n
    BY <2>1, SMTT(30) DEF Accounted
  <2>3. CASE i = Home[c] /\ n = NextName(c)
    <3>1. Len(proofs[c]) + 1 \in 1..Count(c)' /\ ask[c][Len(proofs[c]) + 1] = n
      BY <1>0, <2>1, <2>3, SMTT(30) DEF NextName
    <3> QED BY <2>3, <3>1
  <2>4. CASE ~(i = Home[c] /\ n = NextName(c))
    <3>1. held[i][n] # NoProof
      BY <1>0, <2>1, <2>4 DEF TypeOK
    <3>2. PICK d \in Caller : Home[d] = i /\ \E k \in 1..Count(d) : ask[d][k] = n
      BY <3>1 DEF Accounted
    <3>3. \A k \in 1..Count(d) : k \in 1..Count(d)'
      BY <1>0, <2>1, <2>2, SMTT(30)
    <3> QED BY <3>2, <3>3
  <2> QED BY <2>3, <2>4
<1>3. ASSUME NEW c \in Caller, TakeWon(c) PROVE Accounted'
  <2>1. UNCHANGED <<held, ask>>
    BY <1>3 DEF TakeWon
  <2>2. Count(c)' = Count(c)
    <3>1. proofs'[c] = Append(proofs[c], pend[c]) /\ pc'[c] # "take" /\ pc[c] = "take"
          /\ proofs[c] \in Seq(Proof)
      BY <1>0, <1>3 DEF TakeWon, TypeOK, AfterTaking
    <3>2. Len(Append(proofs[c], pend[c])) = Len(proofs[c]) + 1
      <4>1. pend[c] \in Proof
        BY <1>0, <3>1 DEF TypeOK, Shape, MaybeProof
      <4> QED BY <3>1, <4>1, SMTT(30)
    <3> QED BY <3>1, <3>2 DEF Count
  <2>3. \A d \in Caller \ {c} : Count(d)' = Count(d)
    BY <1>0, <1>3 DEF TakeWon, TypeOK, Count
  <2> QED BY <2>1, <2>2, <2>3, AccountedKept
<1>4. ASSUME NEW c \in Caller, DropReservation(c), pc[c] = "take" PROVE Accounted'
  <2>1. /\ held' = [held EXCEPT ![Home[c]][NextName(c)] = NoProof]
        /\ UNCHANGED ask /\ Count(c) = Len(proofs[c]) + 1 /\ Count(c)' = Len(proofs[c])
    BY <1>0, <1>4 DEF DropReservation, TypeOK, Count
  <2>2. \A d \in Caller \ {c} : Count(d)' = Count(d)
    BY <1>0, <1>4 DEF DropReservation, TypeOK, Count
  <2>3. held'[Home[c]][NextName(c)] = NoProof \/ NextName(c) \notin Name
    BY <1>0, <2>1 DEF TypeOK
  <2>4. ASSUME NEW i \in Instance, NEW n \in Name, held'[i][n] # NoProof
        PROVE  held[i][n] # NoProof
    BY <1>0, <2>1, <2>4 DEF TypeOK
  <2>5. ASSUME NEW i \in Instance, NEW n \in Name, held'[i][n] # NoProof,
               NEW d \in Caller, NEW k \in 1..Count(d), Home[d] = i, ask[d][k] = n
        PROVE  k \in 1..Count(d)'
    <3>1. CASE d # c
      BY <2>2, <3>1
    <3>2. CASE d = c
      <4>1. k # Len(proofs[c]) + 1
        BY <2>3, <2>5, <3>2 DEF NextName
      <4> QED BY <1>0, <2>1, <3>2, <4>1, SMTT(30)
    <3> QED BY <3>1, <3>2
  <2> QED BY <2>1, <2>4, <2>5, AccountedKept
<1>5. ASSUME NEW c \in Caller, Release(c) PROVE Accounted'
  <2>1. /\ held' = [held EXCEPT ![Home[c]][LastName(c)] = NoProof]
        /\ UNCHANGED ask /\ Count(c) = Len(proofs[c])
    BY <1>0, <1>5 DEF Release, TypeOK, Count
  <2>2. Count(c)' = Len(proofs[c]) - 1
    <3>1. proofs'[c] = SubSeq(proofs[c], 1, Len(proofs[c]) - 1) /\ pc'[c] = "giveBack"
          /\ pc[c] = "retire" /\ proofs[c] \in Seq(Proof)
      BY <1>0, <1>5 DEF Release, TypeOK
    <3>2. Len(proofs'[c]) = Len(proofs[c]) - 1
      BY <1>0, <3>1, SMTT(30)
    <3> QED BY <3>1, <3>2 DEF Count
  <2>3. \A d \in Caller \ {c} : Count(d)' = Count(d)
    BY <1>0, <1>5 DEF Release, TypeOK, Count
  <2>4. held'[Home[c]][LastName(c)] = NoProof \/ LastName(c) \notin Name
    BY <1>0, <2>1 DEF TypeOK
  <2>5. ASSUME NEW i \in Instance, NEW n \in Name, held'[i][n] # NoProof
        PROVE  held[i][n] # NoProof
    BY <1>0, <2>1, <2>5 DEF TypeOK
  <2>6. ASSUME NEW i \in Instance, NEW n \in Name, held'[i][n] # NoProof,
               NEW d \in Caller, NEW k \in 1..Count(d), Home[d] = i, ask[d][k] = n
        PROVE  k \in 1..Count(d)'
    <3>1. CASE d # c
      BY <2>3, <3>1
    <3>2. CASE d = c
      <4>1. k # Len(proofs[c])
        BY <2>4, <2>6, <3>2 DEF LastName
      <4> QED BY <1>0, <2>1, <2>2, <3>2, <4>1, SMTT(30)
    <3> QED BY <3>1, <3>2
  <2> QED BY <2>1, <2>5, <2>6, AccountedKept
<1>6. ASSUME NEW c \in Caller, Return(c) PROVE Accounted'
  <2>1. held' = held /\ Count(c) = 0
    BY <1>0, <1>6 DEF Return, Count
  <2>2. \A d \in Caller \ {c} : Count(d)' = Count(d) /\ ask'[d] = ask[d]
    BY <1>0, <1>6 DEF Return, TypeOK, Count
  <2>3. ASSUME NEW d \in Caller, NEW k \in 1..Count(d)
        PROVE  k \in 1..Count(d)' /\ ask'[d][k] = ask[d][k]
    <3>1. CASE d = c
      BY <2>1, <2>3, <3>1, SMTT(30)
    <3>2. CASE d # c
      BY <2>2, <2>3, <3>2
    <3> QED BY <3>1, <3>2
  <2> QED BY <2>1, <2>3, AccountedKept
<1>7. ASSUME NEW i \in Instance, Crash(i) PROVE Accounted'
  <2>1. /\ held' = [held EXCEPT ![i] = [n \in Name |-> NoProof]]
        /\ \A d \in Caller : Home[d] # i => Count(d)' = Count(d) /\ ask'[d] = ask[d]
    BY <1>0, <1>7 DEF Crash, TypeOK, Count
  <2>2. ASSUME NEW j \in Instance, NEW n \in Name, held'[j][n] # NoProof
        PROVE  j # i /\ held[j][n] # NoProof
    BY <1>0, <2>1, <2>2 DEF TypeOK
  <2> QED BY <2>1, <2>2, AccountedKept
<1>8. ASSUME NEW c \in Caller, FnReturn(c) \/ Retire(c) \/ AcquireRefused(c) PROVE Accounted'
  <2>1. UNCHANGED <<held, ask>> /\ \A d \in Caller : Count(d)' = Count(d)
    BY <1>0, <1>8 DEF FnReturn, Retire, AcquireRefused, TypeOK, Count
  <2> QED BY <2>1, AccountedKept
<1>9. CASE UNCHANGED <<held, pc, ask, proofs>>
  <2>1. \A d \in Caller : Count(d)' = Count(d)
    BY <1>9 DEF Count
  <2> QED BY <1>9, <2>1, AccountedKept
<1> QED BY <1>1, <1>2, <1>3, <1>4, <1>5, <1>6, <1>7, <1>8, <1>9
        DEF Next, CallerStep, TakeRefused, TakeFailed, ExecTake, ExecRetire, CleanupNames, vars

\* The internal ledger of an instance holds exactly the names its callers hold,
\* are taking or are giving back, for every fleet and every history of failed
\* trips and crashes.
THEOREM LedgersAgreeHolds == Spec => []LedgersAgree
<1>1. Init => Accounted
  BY SMTT(30) DEF Init, Accounted
<1>2. ASSUME Inv, Accounted PROVE NoLeakedReservation
  <2> SUFFICES ASSUME NEW i \in Instance, NEW n \in Name, held[i][n] # NoProof
               PROVE  \E c \in Caller :
                        /\ Home[c] = i
                        /\ \/ Holds(c, n)
                           \/ pc[c] = "take" /\ NextName(c) = n
                           \/ pc[c] = "retire" /\ LastName(c) = n
    BY DEF NoLeakedReservation
  <2>1. PICK c \in Caller : Home[c] = i /\ \E k \in 1..Count(c) : ask[c][k] = n
    BY <1>2 DEF Accounted
  <2>2. PICK k \in 1..Count(c) : ask[c][k] = n
    BY <2>1
  <2>3. Len(proofs[c]) \in Nat
    BY <1>2, SMTT(30) DEF Inv, TypeOK
  <2>4. \/ k \in 1..Kept(c)
        \/ pc[c] = "take" /\ k = Len(proofs[c]) + 1
        \/ pc[c] = "retire" /\ k = Len(proofs[c])
    BY <2>3, SMTT(30) DEF Count, Kept
  <2>5. CASE k \in 1..Kept(c)
    BY <2>1, <2>2, <2>5 DEF Holds
  <2>6. CASE pc[c] = "take" /\ k = Len(proofs[c]) + 1
    BY <2>1, <2>2, <2>6 DEF NextName
  <2>7. CASE pc[c] = "retire" /\ k = Len(proofs[c])
    BY <2>1, <2>2, <2>7 DEF LastName
  <2> QED BY <2>4, <2>5, <2>6, <2>7
<1>3. ASSUME Inv PROVE LedgerCoversHolders
  BY <1>3, HolderGrant, NoProofAssumption, SMTT(30) DEF LedgerCoversHolders
<1> QED BY <1>1, <1>2, <1>3, AccountedStep, Invariance, PTL DEF Spec, LedgersAgree

-----------------------------------------------------------------------------
(* Locking implements NamedLocks. *)

OwnerIsHolder ==
    \A n \in Name :
        /\ \A c \in Caller : Holds(c, n) => Owner[n] = c
        /\ (\A c \in Caller : ~Holds(c, n)) => Owner[n] = NoCaller

LEMMA OwnerIs == MutualExclusion => OwnerIsHolder
<1> SUFFICES ASSUME MutualExclusion, NEW n \in Name
             PROVE  /\ \A c \in Caller : Holds(c, n) => Owner[n] = c
                    /\ (\A c \in Caller : ~Holds(c, n)) => Owner[n] = NoCaller
  BY DEF OwnerIsHolder
<1>1. ASSUME NEW c \in Caller, Holds(c, n) PROVE Owner[n] = c
  <2>1. \E d \in Caller : Holds(d, n)
    BY <1>1
  <2> DEFINE e == CHOOSE d \in Caller : Holds(d, n)
  <2>2. e \in Caller /\ Holds(e, n)
    BY <2>1
  <2>3. Owner[n] = e
    BY <2>1 DEF Owner
  <2> QED BY <1>1, <2>2, <2>3 DEF MutualExclusion
<1>2. ASSUME \A c \in Caller : ~Holds(c, n) PROVE Owner[n] = NoCaller
  BY <1>2 DEF Owner
<1> QED BY <1>1, <1>2

\* A step that changes no holder is a stuttering step of NamedLocks.
LEMMA SameHolders ==
    ASSUME OwnerIsHolder, OwnerIsHolder',
           \A c \in Caller, n \in Name : Holds(c, n)' <=> Holds(c, n)
    PROVE  Owner' = Owner
<1>1. ASSUME NEW n \in Name PROVE Owner'[n] = Owner[n]
  BY DEF OwnerIsHolder
<1> QED BY <1>1 DEF Owner

\* Only a crash changes a boot id.
LEMMA BootMoves ==
    ASSUME [Next]_vars, ~ \E i \in Instance : Crash(i) PROVE UNCHANGED boot
<1>1. ASSUME NEW c \in Caller, NEW ns \in Asks[c], Ask(c, ns) PROVE UNCHANGED boot
  BY <1>1 DEF Ask
<1>2. ASSUME NEW c \in Caller, CallerStep(c) PROVE UNCHANGED boot
  BY <1>2 DEF CallerStep, AcquireRefused, Acquire, TakeWon, TakeRefused, TakeFailed,
              DropReservation, FnReturn, Retire, Release, Return
<1>3. ASSUME NEW m \in sent, ExecTake(m) \/ ExecRetire(m) PROVE UNCHANGED boot
  BY <1>3 DEF ExecTake, ExecRetire
<1>4. ASSUME NEW ns \in SUBSET Name, CleanupNames(ns) PROVE UNCHANGED boot
  BY <1>4 DEF CleanupNames
<1>5. CASE UNCHANGED vars
  BY <1>5 DEF vars
<1> QED BY <1>1, <1>2, <1>3, <1>4, <1>5 DEF Next

LEMMA StepRefines ==
    ASSUME Inv, Inv', OwnerIsHolder, OwnerIsHolder', [Next]_vars
    PROVE  [NL!Next]_<<Owner, boot>>
<1> USE HomeAssumption, NoProofAssumption
<1>0. TypeOK /\ Shape
  BY DEF Inv
<1>Len. \A d \in Caller : Len(proofs[d]) \in Nat /\ Len(ask[d]) \in Nat
  BY <1>0, SMTT(30) DEF TypeOK
<1>1. ASSUME NEW c \in Caller, TakeWon(c) PROVE NL!Take(c, NextName(c)) /\ NextName(c) \in Name
  <2> PICK n : n = NextName(c)
    OBVIOUS
  <2>1. /\ n \in Name /\ row[n] = pend[c] /\ pend[c] \in Proof
        /\ Len(proofs[c]) < Len(ask[c]) /\ n = ask[c][Len(proofs[c]) + 1]
    <3>1. Standing(c) = Len(proofs[c]) + 1 /\ Grant(c, Standing(c)) = pend[c]
      BY <1>Len, <1>1, SMTT(30) DEF TakeWon, Standing, Live, Count, Grant
    <3>2. row[ask[c][Standing(c)]] = pend[c]
      <4>1. Standing(c) \in 1..Standing(c)
        BY <1>Len, <3>1, SMTT(30)
      <4> QED BY <3>1, <4>1 DEF Inv, Backed
    <3>3. Len(proofs[c]) < Len(ask[c]) /\ pend[c] \in Proof
      BY <1>0, <1>1 DEF TypeOK, Shape, MaybeProof, TakeWon
    <3>4. ask[c][Len(proofs[c]) + 1] \in Name
      BY <1>0, <1>Len, <3>3, SMTT(30) DEF TypeOK
    <3> QED BY <3>1, <3>2, <3>3, <3>4 DEF NextName
  <2>2. \A d \in Caller : ~Holds(d, n)
    <3> SUFFICES ASSUME NEW d \in Caller, Holds(d, n) PROVE FALSE
      OBVIOUS
    <3>1. PICK k \in 1..Kept(d) : ask[d][k] = n
      BY DEF Holds
    <3>2. k \in 1..Standing(d) /\ k \in 1..Count(d) /\ k <= Len(proofs[d])
      <4>1. /\ Kept(d) \in Nat /\ Standing(d) \in Nat /\ Live(d) \in Nat /\ Count(d) \in Nat
            /\ Kept(d) <= Standing(d) /\ Standing(d) <= Live(d) /\ Live(d) <= Count(d)
        BY <1>0, GrantType
      <4>2. Kept(d) <= Len(proofs[d])
        BY <1>Len, SMTT(30) DEF Kept
      <4> QED BY <1>Len, <4>1, <4>2, SMTT(30)
    <3>3. Grant(d, k) = pend[c]
      BY <2>1, <3>1, <3>2 DEF Inv, Backed
    <3>4. Count(c) = Len(proofs[c]) + 1 /\ Grant(c, Count(c)) = pend[c]
      BY <1>Len, <1>1, SMTT(30) DEF TakeWon, Count, Grant
    <3>5. d = c /\ k = Len(proofs[c]) + 1
      BY <1>Len, <3>2, <3>3, <3>4, SMTT(30) DEF Inv, Unique
    <3> QED BY <1>Len, <3>2, <3>5, SMTT(30)
  <2>3. \A d \in Caller, x \in Name : Holds(d, x)' <=> (Holds(d, x) \/ (d = c /\ x = n))
    <3>1. /\ Kept(c)' = Len(proofs[c]) + 1 /\ Kept(c) = Len(proofs[c])
          /\ \A d \in Caller \ {c} : Kept(d)' = Kept(d)
          /\ ask' = ask
      <4>1. ask' = ask /\ pc[c] = "take" /\ pc'[c] # "retire"
        <5>1. ask' = ask /\ pc[c] = "take"
              /\ pc' = [pc EXCEPT ![c] = AfterTaking(ask[c], Len(proofs[c]) + 1)]
          BY <1>1 DEF TakeWon
        <5>2. pc'[c] = AfterTaking(ask[c], Len(proofs[c]) + 1)
          BY <1>0, <5>1 DEF TypeOK
        <5> QED BY <5>1, <5>2, SMTT(30) DEF AfterTaking
      <4>2. Len(proofs'[c]) = Len(proofs[c]) + 1
        <5>1. proofs[c] \in Seq(Proof) /\ proofs'[c] = Append(proofs[c], pend[c])
          BY <1>0, <1>1 DEF TypeOK, TakeWon
        <5> QED BY <2>1, <5>1, SMTT(30)
      <4>3. \A d \in Caller \ {c} : proofs'[d] = proofs[d] /\ pc'[d] = pc[d]
        BY <1>0, <1>1 DEF TypeOK, TakeWon
      <4> QED BY <4>1, <4>2, <4>3 DEF Kept
    <3> QED BY <1>Len, <2>1, <3>1, SMTT(30) DEF Holds
  <2>4. Owner[n] = NoCaller /\ Owner'[n] = c
    BY <2>1, <2>2, <2>3 DEF OwnerIsHolder
  <2>5. ASSUME NEW x \in Name, x # n PROVE Owner'[x] = Owner[x]
    BY <2>3, <2>5 DEF OwnerIsHolder
  <2>6. Owner' = [Owner EXCEPT ![n] = c]
    <3>1. Owner = [x \in Name |-> Owner[x]] /\ Owner' = [x \in Name |-> Owner'[x]]
      BY DEF Owner
    <3> QED BY <2>1, <2>4, <2>5, <3>1
  <2>7. UNCHANGED boot
    BY <1>1 DEF TakeWon
  <2> QED BY <2>1, <2>4, <2>6, <2>7 DEF NL!Take
<1>2. ASSUME NEW c \in Caller, Retire(c) PROVE NL!GiveBack(c, LastName(c)) /\ LastName(c) \in Name
  <2> PICK n : n = LastName(c)
    OBVIOUS
  <2>1. /\ Len(proofs[c]) > 0 /\ Kept(c) = Len(proofs[c]) /\ Kept(c)' = Len(proofs[c]) - 1
        /\ \A d \in Caller \ {c} : Kept(d)' = Kept(d)
        /\ ask' = ask /\ n = ask[c][Len(proofs[c])] /\ Count(c) = Len(proofs[c])
    <3>1. proofs[c] \in Seq(Proof) /\ proofs[c] # <<>>
      BY <1>0, <1>2 DEF TypeOK, Retire
    <3>2. Len(proofs[c]) > 0
      BY <3>1, SMTT(30)
    <3> QED BY <1>0, <1>Len, <1>2, <3>2 DEF TypeOK, Retire, Kept, Count, LastName
  <2>2. n \in Name
    <3>1. Len(proofs[c]) <= Len(ask[c]) /\ ask[c] \in Seq(Name)
      BY <1>0 DEF TypeOK, Shape
    <3> QED BY <1>Len, <2>1, <3>1, SMTT(30)
  <2>3. Holds(c, n)
    <3>1. Len(proofs[c]) \in 1..Kept(c)
      BY <1>Len, <2>1, SMTT(30)
    <3> QED BY <2>1, <3>1 DEF Holds
  <2>4. ~Holds(c, n)'
    <3> SUFFICES ASSUME NEW k \in 1..(Len(proofs[c]) - 1), ask[c][k] = n PROVE FALSE
      BY <2>1 DEF Holds
    <3>1. k \in 1..Count(c) /\ Len(proofs[c]) \in 1..Count(c)
      BY <1>Len, <2>1, SMTT(30)
    <3>2. Grant(c, k) = Grant(c, Len(proofs[c]))
      <4>1. \A l \in 1..Count(c) : held[Home[c]][ask[c][l]] = Grant(c, l)
        BY DEF Inv, Ledgered
      <4>2. ask[c][k] = ask[c][Len(proofs[c])]
        BY <2>1
      <4> QED BY <3>1, <4>1, <4>2
    <3>3. k = Len(proofs[c])
      BY <3>1, <3>2 DEF Inv, Unique
    <3> QED BY <1>Len, <3>3, SMTT(30)
  <2>5. \A d \in Caller, x \in Name : (d # c \/ x # n) => (Holds(d, x)' <=> Holds(d, x))
    <3> SUFFICES ASSUME NEW d \in Caller, NEW x \in Name, d # c \/ x # n
                 PROVE  Holds(d, x)' <=> Holds(d, x)
      OBVIOUS
    <3>1. CASE d # c
      BY <2>1, <3>1 DEF Holds
    <3>2. CASE d = c /\ x # n
      <4>1. \A k \in 1..Kept(c) : k \in 1..(Kept(c)') \/ ask[c][k] = n
        BY <1>Len, <2>1, SMTT(30)
      <4>2. \A k \in 1..(Kept(c)') : k \in 1..Kept(c)
        BY <1>Len, <2>1, SMTT(30)
      <4> QED BY <2>1, <3>2, <4>1, <4>2 DEF Holds
    <3> QED BY <3>1, <3>2
  <2>6. \A d \in Caller : ~Holds(d, n)'
    <3> SUFFICES ASSUME NEW d \in Caller, d # c, Holds(d, n) PROVE FALSE
      BY <2>4, <2>5, <2>2
    <3> QED BY <2>2, <2>3 DEF OwnerIsHolder
  <2>7. Owner[n] = c /\ Owner'[n] = NoCaller
    BY <2>2, <2>3, <2>6 DEF OwnerIsHolder
  <2>8. ASSUME NEW x \in Name, x # n PROVE Owner'[x] = Owner[x]
    BY <2>5, <2>8 DEF OwnerIsHolder
  <2>9. Owner' = [Owner EXCEPT ![n] = NoCaller]
    BY <2>2, <2>7, <2>8 DEF Owner
  <2>10. UNCHANGED boot
    BY <1>2 DEF Retire
  <2> QED BY <2>2, <2>7, <2>9, <2>10 DEF NL!GiveBack
<1>3. ASSUME NEW i \in Instance, Crash(i) PROVE NL!Die(i)
  <2>1. \A d \in Caller : IF Home[d] = i THEN Kept(d)' = 0
                          ELSE Kept(d)' = Kept(d) /\ ask'[d] = ask[d]
    <3> SUFFICES ASSUME NEW d \in Caller
                 PROVE  IF Home[d] = i THEN Kept(d)' = 0
                        ELSE Kept(d)' = Kept(d) /\ ask'[d] = ask[d]
      OBVIOUS
    <3>1. IF Home[d] = i THEN pc'[d] = "idle" /\ proofs'[d] = <<>>
          ELSE pc'[d] = pc[d] /\ proofs'[d] = proofs[d] /\ ask'[d] = ask[d]
      BY <1>3 DEF Crash
    <3> QED BY <3>1 DEF Kept
  <2>2. \A d \in Caller, x \in Name : Holds(d, x)' <=> (Holds(d, x) /\ Home[d] # i)
    <3> SUFFICES ASSUME NEW d \in Caller, NEW x \in Name
                 PROVE  Holds(d, x)' <=> (Holds(d, x) /\ Home[d] # i)
      OBVIOUS
    <3>1. CASE Home[d] = i
      <4>1. 1..(Kept(d)') = {}
        BY <2>1, <3>1, SMTT(30)
      <4> QED BY <3>1, <4>1 DEF Holds
    <3>2. CASE Home[d] # i
      BY <2>1, <3>2 DEF Holds
    <3> QED BY <3>1, <3>2
  <2>3. ASSUME NEW x \in Name
        PROVE  Owner'[x] = IF Owner[x] \in {d \in Caller : Home[d] = i}
                           THEN NoCaller ELSE Owner[x]
    <3>1. CASE \E d \in Caller : Holds(d, x)
      BY <2>2, <3>1 DEF OwnerIsHolder
    <3>2. CASE \A d \in Caller : ~Holds(d, x)
      BY <2>2, <3>2 DEF OwnerIsHolder
    <3> QED BY <3>1, <3>2
  <2>4. boot' = [boot EXCEPT ![i] = @ + 1]
    BY <1>3 DEF Crash
  <2> QED BY <2>3, <2>4 DEF NL!Die, Owner
<1>4. CASE ~ \/ \E c \in Caller : TakeWon(c) \/ Retire(c)
             \/ \E i \in Instance : Crash(i)
  <2>1. \A d \in Caller : /\ Kept(d)' = Kept(d)
                          /\ \A k \in 1..Kept(d) : ask'[d][k] = ask[d][k]
    <3> SUFFICES ASSUME NEW d \in Caller
                 PROVE  /\ Kept(d)' = Kept(d)
                        /\ \A k \in 1..Kept(d) : ask'[d][k] = ask[d][k]
      OBVIOUS
    <3> DEFINE Same == Kept(d)' = Kept(d) /\ (Kept(d) # 0 => ask'[d] = ask[d])
    <3>1. ASSUME NEW c \in Caller, NEW ns \in Asks[c], Ask(c, ns) PROVE Same
      <4>1. pc[c] = "idle" /\ pc'[c] # "retire" /\ proofs' = proofs
        BY <1>0, <3>1 DEF TypeOK, Ask, AfterTaking
      <4>2. d # c => pc'[d] = pc[d] /\ ask'[d] = ask[d]
        <5>1. pc' = [pc EXCEPT ![c] = AfterTaking(ns, 0)] /\ ask' = [ask EXCEPT ![c] = ns]
          BY <3>1 DEF Ask
        <5>2. DOMAIN pc = Caller /\ DOMAIN ask = Caller
          BY <1>0 DEF TypeOK
        <5> QED BY <5>1, <5>2
      <4>3. Len(proofs[c]) = 0
        BY <1>0, <4>1, SMTT(30) DEF Shape
      <4> QED BY <4>1, <4>2, <4>3 DEF Kept
    <3>2. ASSUME NEW c \in Caller, AcquireRefused(c) \/ Acquire(c) \/ FnReturn(c)
          PROVE  Same
      BY <1>0, <3>2 DEF TypeOK, AcquireRefused, Acquire, FnReturn, Kept
    <3>3. ASSUME NEW c \in Caller, TakeRefused(c) \/ TakeFailed(c)
          PROVE  Same
      <4>1. pc[c] = "take" /\ pc' = [pc EXCEPT ![c] = "giveBack"] /\ UNCHANGED <<proofs, ask>>
        BY <3>3 DEF TakeRefused, TakeFailed, DropReservation
      <4>2. pc \in [Caller -> {"idle", "acquire", "take", "run", "giveBack", "retire"}]
        BY <1>0 DEF TypeOK
      <4> QED BY <4>1, <4>2 DEF Kept
    <3>4. ASSUME NEW c \in Caller, Release(c) PROVE Same
      <4>1. Len(proofs[c]) > 0 /\ proofs[c] \in Seq(Proof) /\ pc'[c] = "giveBack"
        BY <1>0, <3>4, SMTT(30) DEF TypeOK, Shape, Release
      <4>2. Len(proofs'[c]) = Len(proofs[c]) - 1
        <5>1. proofs'[c] = SubSeq(proofs[c], 1, Len(proofs[c]) - 1)
          BY <1>0, <3>4 DEF TypeOK, Release
        <5> QED BY <1>Len, <4>1, <5>1, SMTT(30)
      <4> QED BY <1>0, <1>Len, <3>4, <4>1, <4>2 DEF TypeOK, Release, Kept
    <3>5. ASSUME NEW c \in Caller, Return(c) PROVE Same
      BY <1>0, <1>Len, <3>5, SMTT(30) DEF TypeOK, Return, Kept
    <3>6. ASSUME NEW m \in sent, ExecTake(m) \/ ExecRetire(m)
          PROVE  Same
      BY <3>6 DEF ExecTake, ExecRetire, Kept
    <3>7. ASSUME NEW ns \in SUBSET Name, CleanupNames(ns)
          PROVE  Same
      BY <3>7 DEF CleanupNames, Kept
    <3>8. ASSUME UNCHANGED vars PROVE Same
      BY <3>8 DEF vars, Kept
    <3> HIDE DEF Same
    <3>9. Same
      <4>1. ASSUME NEW c \in Caller, CallerStep(c)
            PROVE  Same
        <5>1. ~TakeWon(c) /\ ~Retire(c)
          BY <1>4
        <5>2. CASE AcquireRefused(c) \/ Acquire(c) \/ FnReturn(c)
          BY <3>2, <5>2
        <5>3. CASE TakeRefused(c) \/ TakeFailed(c)
          BY <3>3, <5>3
        <5>4. CASE Release(c)
          BY <3>4, <5>4
        <5>5. CASE Return(c)
          BY <3>5, <5>5
        <5> QED BY <4>1, <5>1, <5>2, <5>3, <5>4, <5>5 DEF CallerStep
      <4>2. CASE \E c \in Caller : \E ns \in Asks[c] : Ask(c, ns)
        BY <3>1, <4>2
      <4>3. CASE \E m \in sent : ExecTake(m) \/ ExecRetire(m)
        BY <3>6, <4>3
      <4>4. CASE \E ns \in SUBSET Name : CleanupNames(ns)
        BY <3>7, <4>4
      <4>5. CASE \E c \in Caller : CallerStep(c)
        BY <4>1, <4>5
      <4>6. CASE \E i \in Instance : Crash(i)
        BY <1>4, <4>6
      <4>7. CASE Next
        BY <4>2, <4>3, <4>4, <4>5, <4>6, <4>7 DEF Next
      <4> QED BY <3>8, <4>7
    <3>10. Kept(d) \in Nat \/ 1..Kept(d) = {}
      BY <1>Len, SMTT(30) DEF Kept
    <3> QED BY <3>9, <3>10, SMTT(30) DEF Same
  <2>2. \A c \in Caller, n \in Name : Holds(c, n)' <=> Holds(c, n)
    BY <2>1 DEF Holds
  <2>3. Owner' = Owner
    BY <2>2, SameHolders
  <2>4. UNCHANGED boot
    BY <1>4, BootMoves
  <2> QED BY <2>3, <2>4
<1> QED
  BY <1>1, <1>2, <1>3, <1>4 DEF NL!Next

\* The ledgers implement the abstract exclusion: every behaviour of Locking,
\* seen through who holds what, is a behaviour of NamedLocks.
THEOREM Refinement == Spec => Exclusion
<1>1. Init => NL!Init
  <2> SUFFICES ASSUME Init PROVE NL!Init
    OBVIOUS
  <2>1. \A c \in Caller, n \in Name : ~Holds(c, n)
    BY SMTT(30) DEF Init, Holds, Kept
  <2> QED BY <2>1 DEF NL!Init, Owner, Init
<1>2. Inv => OwnerIsHolder
  BY ExclusionFromInv, OwnerIs
<1>3. Inv /\ Inv' /\ OwnerIsHolder /\ OwnerIsHolder' /\ [Next]_vars => [NL!Next]_<<Owner, boot>>
  BY StepRefines
<1> QED BY <1>1, <1>2, <1>3, Invariance, PTL DEF Spec, Exclusion, NL!Spec
=============================================================================
