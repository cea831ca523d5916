---------------------------- MODULE BearerProofs ----------------------------
(***************************************************************************)
(* Proofs about BearerSession, for any number of requests at once, sessions, *)
(* pairs and faults, and any cap: one refresh token is exchanged for at most *)
(* one pair, a session that ended stays ended, the cap list is within its    *)
(* cap and covers the sessions that stand, and the three stores agree.       *)
(*                                                                           *)
(* The argument is that a session's umbrella row only ever moves to a later  *)
(* pair, or ends.  A request generates its pair after it was presented the   *)
(* old one, so a pair is older than what it is exchanged for; a rotation     *)
(* that won leaves the row at its own pair, and no request that still holds  *)
(* the old one can match the row again.  The cap follows from who answers    *)
(* for a session: the list, the request that will push it, or the request    *)
(* that was told to end it.                                                  *)
(***************************************************************************)
EXTENDS BearerRowProofs, FiniteSetTheorems

\* The solver of every step that names no other.
USE ZenonT(30)

-----------------------------------------------------------------------------
\* The specification starts in the invariant.
LEMMA InitInv == Init => Inv
<1> SUFFICES ASSUME Init PROVE Inv
    OBVIOUS
<1>1. Shape
      BY DEF Init, Shape, IsJob, Idle, Request
<1>2. Types
      BY BoundAssumption, SMTT(30) DEF Init, Types, Session, Pair
<1>3. Pairs /\ Jobs
      BY SMTT(30) DEF Init, Pairs, Jobs, Holds, Idle, Request
<1>4. Won = {}
      BY DEF Init, Won, Idle, Request
<1> QED BY <1>1, <1>2, <1>3, <1>4 DEF Inv, MovedOn, OneShot

-----------------------------------------------------------------------------
\* What NeverRecreated says of one step.
NoneBack == \A s \in 1..born : umb[s] = 0 => umb'[s] = 0

\* Pairs given or about to be were generated.
LEMMA WonMade == Types /\ Jobs => Won \subseteq 1..made
BY DEF Types, Jobs, Won, Holds

\* A step that gives away no exchanged pair and moves no row keeps what was
\* exchanged unique and behind the rows.
LEMMA ExchangesKept ==
    ASSUME Inv, Types', SamePairs, RowsOnlyEnd,
           \A p \in Won' : p \in Won \/ from'[p] = 0
    PROVE  MovedOn' /\ OneShot'
<1>1. \A p \in Won : p \in 1..made /\ owner[p] \in 1..born
      BY WonMade DEF Inv, Pairs
<1>2. \A p \in Won : owner'[p] = owner[p] /\ from'[p] = from[p]
      BY <1>1 DEF SamePairs
<1>3. MovedOn'
  <2> SUFFICES ASSUME NEW p \in Won', from'[p] # 0
               PROVE  umb'[owner'[p]] = 0 \/ p <= umb'[owner'[p]]
      BY DEF MovedOn
  <2>1. p \in Won
        OBVIOUS
  <2>2. umb[owner[p]] = 0 \/ p <= umb[owner[p]]
        BY <2>1, <1>2 DEF Inv, MovedOn
  <2>3. umb'[owner[p]] \in {0, umb[owner[p]]}
        BY <2>1, <1>1 DEF RowsOnlyEnd
  <2> QED BY <2>1, <2>2, <2>3, <1>2
<1>4. OneShot'
  <2> SUFFICES ASSUME NEW p \in Won', NEW q \in Won',
                      from'[p] = from'[q], from'[p] # 0
               PROVE  p = q
      BY DEF OneShot
  <2>1. p \in Won /\ q \in Won
        OBVIOUS
  <2> QED BY <2>1, <1>2 DEF Inv, OneShot
<1> QED BY <1>3, <1>4

\* The requests that did not move hold what they held.
LEMMA JobsKept ==
    ASSUME Types, Jobs, SamePairs, made' \in Nat, NEW w \in Worker, NEW a, NEW s, NEW o, NEW n,
           Now(w, a, s, o, n), Holds(job[w])'
    PROVE  Jobs'
<1> SUFFICES ASSUME NEW v \in Worker, v # w
             PROVE  Holds(job[v])'
    BY DEF Jobs
<1>1. job'[v] = job[v] /\ Holds(job[v])
      BY DEF Now, Jobs
<1>2. \A p \in 1..made : p \in 1..made'
      BY SMTT(30) DEF SamePairs, Types
<1> QED BY <1>1, <1>2 DEF Holds, SamePairs

\* Which pairs are given or about to be after request w moved.
LEMMA WonNow ==
    ASSUME NEW w \in Worker, NEW a, NEW s, NEW o, NEW n, Now(w, a, s, o, n),
           NEW p \in Won'
    PROVE  p \in given' \/ p \in Won \/ (a = "retire" /\ p = n)
<1>1. CASE p \in given'
      BY <1>1
<1>2. CASE p \notin given'
  <2>1. PICK v \in Worker : job'[v].at = "retire" /\ p = job'[v].new
        BY <1>2 DEF Won
  <2> QED BY <2>1 DEF Now, Won
<1> QED BY <1>1, <1>2

\* A step of one request that neither moves a row nor wins a rotation.
LEMMA RequestStep ==
    ASSUME Inv, Types', Pairs', SamePairs, RowsOnlyEnd,
           NEW w \in Worker, NEW a, NEW s, NEW o, NEW n, Now(w, a, s, o, n),
           Holds(job[w])', a # "retire",
           \A p \in given' : p \in Won \/ from'[p] = 0
    PROVE  Inv' /\ NoneBack
<1>1. Shape'
      BY DEF Now
<1>2. Jobs'
      BY JobsKept DEF Inv, Types
<1>3. \A p \in Won' : p \in Won \/ from'[p] = 0
      BY WonNow
<1>4. MovedOn' /\ OneShot'
      BY <1>3, ExchangesKept
<1>5. NoneBack
      BY DEF RowsOnlyEnd, NoneBack
<1> QED BY <1>1, <1>2, <1>4, <1>5 DEF Inv

-----------------------------------------------------------------------------
\* A pair that a request has still to hand out, when it is no exchange or has won.
LEMMA Earned ==
    ASSUME Inv, NEW w \in Worker, job[w].at \in {"push", "evict", "retire"}
    PROVE  job[w].new \in 1..made /\ (job[w].new \in Won \/ from[job[w].new] = 0)
BY SMTT(30) DEF Inv, Jobs, Holds, Won

\* A step that generates nothing and moves no row.
LEMMA QuietStep ==
    ASSUME Inv, UNCHANGED <<born, made, owner, from>>, umb' \in [Session -> Nat], RowsOnlyEnd,
           NEW w \in Worker, NEW a, NEW s, NEW o, NEW n, Now(w, a, s, o, n),
           Holds(job[w])', a # "retire",
           \/ given' = given
           \/ given' = given \cup {job[w].new} /\ job[w].at \in {"push", "evict", "retire"}
    PROVE  Inv' /\ NoneBack
<1>1. Types'
      BY Earned DEF Inv, Types
<1>2. Pairs' /\ SamePairs
      BY SMTT(30) DEF Inv, Types, Pairs, SamePairs
<1>3. \A p \in given' : p \in Won \/ from'[p] = 0
      BY Earned, SMTT(30) DEF Won
<1> QED BY <1>1, <1>2, <1>3, RequestStep

\* A request that answered holds nothing.
LEMMA IdleHolds ==
    ASSUME NEW w \in Worker, Now(w, "idle", 0, 0, 0)
    PROVE  Holds(job[w])'
BY DEF Now, Holds

\* Writing the token rows, and starting a request.
LEMMA WriteRows ==
    ASSUME Inv, NEW w \in Worker, AccessRow(w) \/ RefreshRow(w)
    PROVE  Inv' /\ NoneBack
<1>0. Shape /\ Holds(job[w])
      BY DEF Inv, Jobs
<1>1. CASE AccessRow(w)
  <2>1. Now(w, "refreshRow", job[w].sid, job[w].old, job[w].new)
        BY <1>0, <1>1, Wrote DEF AccessRow
  <2>2. Holds(job[w])'
        BY <1>0, <1>1, <2>1 DEF AccessRow, Holds, Now
  <2>3. UNCHANGED <<born, made, owner, from, umb, given>>
        BY <1>1 DEF AccessRow
  <2> QED BY <2>1, <2>2, <2>3, RowsSame, QuietStep
<1>2. CASE RefreshRow(w)
  <2> DEFINE c == IF job[w].old = 0 THEN "push" ELSE "rotate"
  <2>1. Now(w, c, job[w].sid, job[w].old, job[w].new)
        BY <1>0, <1>2, Wrote DEF RefreshRow
  <2>2. Holds(job[w])'
        BY <1>0, <1>2, <2>1 DEF RefreshRow, Holds, Now
  <2>3. UNCHANGED <<born, made, owner, from, umb, given>> /\ c # "retire"
        BY <1>2 DEF RefreshRow
  <2> HIDE DEF c
  <2> QED BY <2>1, <2>2, <2>3, RowsSame, QuietStep
<1> QED BY <1>1, <1>2

LEMMA StartRequest ==
    ASSUME Inv, NEW w \in Worker, NEW p \in 1..made, ExtendSession(w, p) \/ Revoke(w, p)
    PROVE  Inv' /\ NoneBack
<1>0. Shape
      BY DEF Inv
<1>1. CASE ExtendSession(w, p)
  <2>1. Now(w, "fetch", owner[p], p, 0)
        BY <1>0, <1>1, Wrote DEF ExtendSession
  <2>2. Holds(job[w])'
        BY <1>1, <2>1 DEF ExtendSession, Holds, Now
  <2>3. UNCHANGED <<born, made, owner, from, umb, given>>
        BY <1>1 DEF ExtendSession
  <2> QED BY <2>1, <2>2, <2>3, RowsSame, QuietStep
<1>2. CASE Revoke(w, p)
  <2>1. Now(w, "owned", owner[p], 0, 0)
        BY <1>0, <1>2, Wrote DEF Revoke
  <2>2. Holds(job[w])'
        BY <1>2, <2>1 DEF Revoke, Holds, Now
  <2>3. UNCHANGED <<born, made, owner, from, umb, given>>
        BY <1>2 DEF Revoke
  <2> QED BY <2>1, <2>2, <2>3, RowsSame, QuietStep
<1> QED BY <1>1, <1>2

\* The push, sent once or twice, and the eviction.
LEMMA PushStep ==
    ASSUME Inv, NEW w \in Worker, NEW l, job[w].at = "push", PushOnto(w, l)
    PROVE  Inv' /\ NoneBack
<1>0. Shape /\ Holds(job[w])
      BY DEF Inv, Jobs
<1>1. UNCHANGED <<born, made, owner, from, umb>>
      BY DEF PushOnto
<1>2. CASE Evicted(Pushed(w, l)) = <<>>
  <2>1. given' = given \cup {job[w].new} /\ Now(w, "idle", 0, 0, 0)
        BY <1>0, <1>2, Wrote DEF PushOnto
  <2> QED BY <1>1, <2>1, IdleHolds, RowsSame, QuietStep
<1>3. CASE Evicted(Pushed(w, l)) # <<>>
  <2>1. given' = given /\ Now(w, "evict", job[w].sid, job[w].old, job[w].new)
        BY <1>0, <1>3, Wrote DEF PushOnto
  <2>2. Holds(job[w])'
        BY <1>0, <1>1, <2>1 DEF Holds, Now
  <2> QED BY <1>1, <2>1, <2>2, RowsSame, QuietStep
<1> QED BY <1>2, <1>3

LEMMA EvictStep ==
    ASSUME Inv, NEW w \in Worker, Evict(w)
    PROVE  Inv' /\ NoneBack
<1>1. Now(w, "idle", 0, 0, 0)
      BY Wrote DEF Inv, Evict
<1>2. umb' \in [Session -> Nat] /\ RowsOnlyEnd
  <2> DEFINE gone == Range(job[w].evicted)
  <2>1. umb' = [s \in Session |-> IF s \in gone THEN 0 ELSE umb[s]]
        BY DEF Evict
  <2> HIDE DEF gone
  <2> QED BY <2>1, Created DEF Inv, Types, RowsOnlyEnd
<1>3. /\ UNCHANGED <<born, made, owner, from>>
      /\ given' = given \cup {job[w].new} /\ job[w].at = "evict"
      BY DEF Evict
<1> QED BY <1>1, <1>2, <1>3, IdleHolds, QuietStep

\* The steps that end a request or move it on without a pair of its own.
LEMMA EndStep ==
    ASSUME Inv, NEW w \in Worker,
           Retire(w) \/ Undo(w) \/ Owned(w) \/ DestroySession(w) \/ Unlist(w)
           \/ Cut(w) \/ Ignored(w)
    PROVE  Inv' /\ NoneBack
<1>0. Shape /\ Holds(job[w])
      BY DEF Inv, Jobs
<1>1. UNCHANGED <<born, made, owner, from, umb>>
      BY DEF Retire, Undo, Owned, DestroySession, Unlist, Cut, Ignored
<1>2. \/ given' = given
      \/ given' = given \cup {job[w].new} /\ job[w].at \in {"push", "evict", "retire"}
      BY DEF Retire, Undo, Owned, DestroySession, Unlist, Cut, Ignored
<1>3. CASE Answer(w)
  <2>1. Now(w, "idle", 0, 0, 0)
        BY <1>0, <1>3, Wrote
  <2> QED BY <1>1, <1>2, <2>1, IdleHolds, RowsSame, QuietStep
<1>4. CASE GoTo(w, "destroy") \/ GoTo(w, "delete")
  <2>1. PICK c \in {"destroy", "delete"} : GoTo(w, c)
        BY <1>4
  <2>2. Now(w, c, job[w].sid, job[w].old, job[w].new)
        BY <1>0, <2>1, Wrote
  <2>3. Holds(job[w])'
        BY <2>2 DEF Holds, Now
  <2> QED BY <1>1, <1>2, <2>2, <2>3, RowsSame, QuietStep
<1>5. CASE job' = [job EXCEPT ![w].at = "unlist", ![w].old = umb[job[w].sid]]
  <2>1. Now(w, "unlist", job[w].sid, umb[job[w].sid], job[w].new)
        BY <1>0, <1>5, Wrote
  <2>2. Holds(job[w])'
        BY <2>1 DEF Holds, Now
  <2> QED BY <1>1, <1>2, <2>1, <2>2, RowsSame, QuietStep
<1> QED BY <1>3, <1>4, <1>5
        DEF Retire, Undo, Owned, DestroySession, Unlist, Cut, Ignored

LEMMA DeleteStep ==
    ASSUME Inv, NEW w \in Worker, DeleteRows(w)
    PROVE  Inv' /\ NoneBack
<1>1. Now(w, "idle", 0, 0, 0)
      BY Wrote DEF Inv, DeleteRows
<1>2. umb' \in [Session -> Nat] /\ RowsOnlyEnd
  <2>1. umb' = [umb EXCEPT ![job[w].sid] = 0]
        BY DEF DeleteRows
  <2> QED BY ONLY <2>1, Created, Inv, ZenonT(30) DEF Inv, Types, RowsOnlyEnd
<1>3. UNCHANGED <<born, made, owner, from, given>>
      BY DEF DeleteRows
<1> QED BY <1>1, <1>2, <1>3, IdleHolds, QuietStep

-----------------------------------------------------------------------------
\* A generated pair is the latest one, and every earlier pair is as it was.
LEMMA Generated ==
    ASSUME Types, Pairs, NEW s \in 1..born', NEW p \in Nat, Generate(s, p),
           born' \in Nat, born <= born', born' <= MaxSessions,
           p # 0 => p \in 1..made /\ owner[p] = s,
           umb' \in [Session -> Nat], given' = given
    PROVE  /\ Types' /\ Pairs' /\ SamePairs
           /\ made' = made + 1 /\ owner'[made + 1] = s /\ from'[made + 1] = p
<1>1. /\ made \in Nat /\ made + 1 \in Pair /\ made' = made + 1
      /\ \A q \in 1..made : q \in Pair /\ q # made + 1
      /\ made + 1 \notin 1..made /\ made' <= MaxPairs
      BY BoundAssumption, SMTT(30) DEF Types, Generate, Pair
<1>2. /\ owner' \in [Pair -> Nat] /\ from' \in [Pair -> Nat]
      /\ owner'[made + 1] = s /\ from'[made + 1] = p
      /\ \A q \in 1..made : owner'[q] = owner[q] /\ from'[q] = from[q]
      BY <1>1, SMTT(30) DEF Types, Generate
<1>3. Types'
      BY <1>1, <1>2, SMTT(30) DEF Types
<1>4. SamePairs
      BY <1>1, <1>2, SMTT(30) DEF SamePairs
<1>5. ASSUME NEW q \in 1..made'
      PROVE  /\ owner'[q] \in 1..born' /\ from'[q] < q
             /\ from'[q] # 0 => owner'[from'[q]] = owner'[q]
  <2>1. CASE q = made + 1
        BY <1>1, <1>2, <2>1, SMTT(30)
  <2>2. CASE q # made + 1
    <3>1. q \in 1..made
          BY <1>1, <2>2, SMTT(30)
    <3>2. owner[q] \in 1..born /\ from[q] < q /\ (from[q] # 0 => owner[from[q]] = owner[q])
          BY <3>1 DEF Pairs
    <3>3. from[q] \in Nat /\ born \in Nat
          BY <1>1, <3>1 DEF Types
    <3>4. from[q] # 0 => from[q] \in 1..made
          BY <1>1, <3>1, <3>2, <3>3, SMTT(30)
    <3> QED BY <1>2, <3>1, <3>2, <3>3, <3>4, SMTT(30)
  <2> QED BY <2>1, <2>2
<1>6. Pairs'
      BY <1>5 DEF Pairs
<1> QED BY <1>1, <1>2, <1>3, <1>4, <1>6

LEMMA CreateStep ==
    ASSUME Inv, NEW w \in Worker, CreateSession(w)
    PROVE  Inv' /\ NoneBack
<1>0. Shape /\ Types /\ Pairs
      BY DEF Inv
<1>1. /\ born \in Nat /\ born' = born + 1 /\ born + 1 <= MaxSessions
      /\ Generate(born + 1, 0) /\ given' = given
      /\ umb' = [umb EXCEPT ![born + 1] = made + 1] /\ made \in Nat
      BY <1>0, BoundAssumption, SMTT(30) DEF CreateSession, Types
<1>2. umb' \in [Session -> Nat]
  <2>1. umb \in [Session -> Nat] /\ made + 1 \in Nat
        BY <1>0, <1>1, SMTT(30) DEF Types
  <2> QED BY ONLY <1>1, <2>1, ZenonT(30)
<1>3. RowsOnlyEnd
      BY <1>0, <1>1, Created, SMTT(30) DEF Types, RowsOnlyEnd
<1>4. /\ Types' /\ Pairs' /\ SamePairs
      /\ made' = made + 1 /\ owner'[made + 1] = born + 1 /\ from'[made + 1] = 0
  <2> DEFINE s == born + 1
  <2>1. s \in 1..born' /\ born' \in Nat /\ born <= born' /\ born' <= MaxSessions
        BY <1>1, SMTT(30)
  <2> HIDE DEF s
  <2>2. Generate(s, 0)
        BY <1>1 DEF s
  <2> QED BY <1>0, <1>1, <1>2, <2>1, <2>2, Generated DEF s
<1>5. Now(w, "accessRow", born + 1, 0, made + 1)
      BY <1>0, Wrote DEF CreateSession
<1>6. Holds(job[w])'
      BY <1>1, <1>4, <1>5, SMTT(30) DEF Holds, Now
<1>7. \A p \in given' : p \in Won \/ from'[p] = 0
      BY <1>1 DEF Won
<1> QED BY <1>3, <1>4, <1>5, <1>6, <1>7, RequestStep

LEMMA FetchStep ==
    ASSUME Inv, NEW w \in Worker, FetchSession(w)
    PROVE  Inv' /\ NoneBack
<1>0. Shape /\ Types /\ Pairs /\ Holds(job[w])
      BY DEF Inv, Jobs
<1>1. UNCHANGED <<born, umb, given>> /\ job[w].at = "fetch"
      BY DEF FetchSession
<1>2. CASE Answer(w) /\ UNCHANGED <<made, owner, from>>
  <2>1. Now(w, "idle", 0, 0, 0)
        BY <1>0, <1>2, Wrote
  <2> QED BY <1>1, <1>2, <2>1, IdleHolds, RowsSame, QuietStep
<1>3. CASE GoTo(w, "destroy") /\ UNCHANGED <<made, owner, from>>
  <2>1. Now(w, "destroy", job[w].sid, job[w].old, job[w].new)
        BY <1>0, <1>3, Wrote
  <2>2. Holds(job[w])'
        BY <2>1 DEF Holds, Now
  <2> QED BY <1>1, <1>3, <2>1, <2>2, RowsSame, QuietStep
<1>4. CASE /\ Generate(job[w].sid, job[w].old)
           /\ job' = [job EXCEPT ![w].at = "accessRow", ![w].new = made + 1]
  <2> DEFINE s == job[w].sid
             p == job[w].old
  <2>1. p \in 1..made /\ owner[p] = s /\ s \in 1..born /\ born \in Nat /\ born <= MaxSessions
        BY <1>0, <1>1 DEF Holds, Pairs, Types
  <2>2. p \in Nat /\ p # 0 /\ s \in 1..born'
        BY <1>0, <1>1, <2>1, SMTT(30) DEF Types
  <2>3. umb' \in [Session -> Nat] /\ RowsOnlyEnd
        BY <1>1, RowsSame
  <2>4. Generate(s, p)
        BY <1>4
  <2>5. Now(w, "accessRow", s, p, made + 1)
        BY <1>0, <1>4, Wrote
  <2> HIDE DEF s, p
  <2>6. /\ Types' /\ Pairs' /\ SamePairs
        /\ made' = made + 1 /\ owner'[made + 1] = s /\ from'[made + 1] = p
        BY <1>0, <1>1, <2>1, <2>2, <2>3, <2>4, Generated, SMTT(30)
  <2>7. Holds(job[w])'
        BY <1>0, <2>5, <2>6, SMTT(30) DEF Holds, Now, Types
  <2>8. \A q \in given' : q \in Won \/ from'[q] = 0
        BY <1>1 DEF Won
  <2> QED BY <2>3, <2>5, <2>6, <2>7, <2>8, RequestStep
<1> QED BY <1>2, <1>3, <1>4 DEF FetchSession

-----------------------------------------------------------------------------
\* The rotation that wins moves the row from the presented pair to the later one
\* generated for it: nobody had won with that presented pair before.
LEMMA RotateWins ==
    ASSUME Inv, NEW w \in Worker, job[w].at = "rotate", Matches(w),
           umb' = [umb EXCEPT ![job[w].sid] = job[w].new],
           UNCHANGED <<born, made, owner, from, given>>,
           NEW c \in {"retire", "undo"}, GoTo(w, c)
    PROVE  Inv' /\ NoneBack
<1> DEFINE s == job[w].sid
           o == job[w].old
           n == job[w].new
<1>0. Shape /\ Types /\ Pairs /\ Jobs /\ MovedOn /\ OneShot
      BY DEF Inv
<1>1. n \in 1..made /\ from[n] = o /\ owner[n] = s /\ o # 0
      BY <1>0 DEF Jobs, Holds
<1>2. umb[s] = o /\ s \in 1..born /\ s \in Session
      BY <1>0, <1>1, Created DEF Matches, Pairs
<1>3. /\ Now(w, c, s, o, n)
      /\ umb' = [umb EXCEPT ![s] = n]
      BY <1>0, Wrote
<1> HIDE DEF s, o, n
<1>4. n \in Nat /\ made \in Nat /\ o \in Nat /\ o < n
  <2>1. made \in Nat /\ n \in Nat /\ from[n] \in Nat /\ from[n] < n
        BY <1>0, <1>1, PairFacts
  <2> QED BY <1>1, <2>1
<1>5. umb' \in [Session -> Nat] /\ umb'[s] = n /\ \A t \in Session \ {s} : umb'[t] = umb[t]
      BY <1>0, <1>2, <1>3, <1>4 DEF Types
<1>6. Types' /\ Pairs' /\ SamePairs
      BY <1>0, <1>5, SMTT(30) DEF Types, Pairs, SamePairs
<1>7. Holds(job[w])'
      BY <1>1, <1>3 DEF Holds, Now
<1>8. Jobs'
      BY <1>0, <1>3, <1>6, <1>7, JobsKept DEF Types
<1>9. \A p \in Won' : p \in Won \/ p = n
      BY <1>3, WonNow DEF Won
<1>10. \A p \in Won : p \in 1..made /\ owner[p] \in 1..born /\ owner[p] \in Session
      BY <1>0, WonMade, Created DEF Pairs
<1>11. ASSUME NEW p \in Won, from[p] # 0, owner[p] = s
       PROVE  p <= o /\ from[p] < o
  <2>1. p <= o
        BY <1>0, <1>1, <1>2, <1>11 DEF MovedOn
  <2>2. from[p] < p /\ from[p] \in Nat /\ p \in Nat
        BY <1>0, <1>10, PairFacts
  <2> QED BY <1>4, <2>1, <2>2, SMTT(30)
<1>12. MovedOn'
  <2> SUFFICES ASSUME NEW p \in Won', from[p] # 0
               PROVE  umb'[owner[p]] = 0 \/ p <= umb'[owner[p]]
      BY DEF MovedOn
  <2>1. CASE p = n
        BY <1>1, <1>4, <1>5, <2>1, SMTT(30)
  <2>2. CASE p # n /\ owner[p] = s
    <3>1. p \in Won /\ p <= o /\ p \in 1..made
          BY <1>9, <1>10, <1>11, <2>2
    <3> QED BY <1>4, <1>5, <2>2, <3>1, SMTT(30)
  <2>3. CASE p # n /\ owner[p] # s
    <3>1. p \in Won /\ owner[p] \in Session
          BY <1>9, <1>10, <2>3
    <3> QED BY <1>0, <1>5, <2>3, <3>1 DEF MovedOn
  <2> QED BY <2>1, <2>2, <2>3
<1>13. \A p \in Won : from[p] # o
  <2> SUFFICES ASSUME NEW p \in Won, from[p] = o
               PROVE  FALSE
      OBVIOUS
  <2>1. owner[p] = owner[n]
        BY <1>0, <1>1, <1>10 DEF Pairs
  <2> QED BY <1>1, <1>4, <1>11, <2>1, SMTT(30)
<1>14. OneShot'
  <2> SUFFICES ASSUME NEW p \in Won', NEW q \in Won', from[p] = from[q], from[p] # 0
               PROVE  p = q
      BY DEF OneShot
  <2> QED BY <1>0, <1>1, <1>9, <1>13 DEF OneShot
<1>15. NoneBack
  <2> SUFFICES ASSUME NEW t \in 1..born, umb[t] = 0
               PROVE  umb'[t] = 0
      BY DEF NoneBack
  <2> QED BY <1>0, <1>1, <1>2, <1>5, Created
<1> QED BY <1>3, <1>6, <1>8, <1>12, <1>14, <1>15 DEF Inv, Now

LEMMA RotateStep ==
    ASSUME Inv, NEW w \in Worker, Rotate(w) \/ RotateResent(w)
    PROVE  Inv' /\ NoneBack
<1>1. /\ UNCHANGED <<born, made, owner, from, given>> /\ job[w].at = "rotate"
      BY DEF Rotate, RotateResent
<1>2. CASE Matches(w)
  <2>1. /\ umb' = [umb EXCEPT ![job[w].sid] = job[w].new]
        /\ \E c \in {"retire", "undo"} : GoTo(w, c)
        BY <1>2 DEF Rotate, RotateResent
  <2> QED BY <1>1, <1>2, <2>1, RotateWins
<1>3. CASE ~Matches(w)
  <2>1. UNCHANGED umb /\ GoTo(w, "undo")
        BY <1>3 DEF Rotate, RotateResent
  <2>2. Now(w, "undo", job[w].sid, job[w].old, job[w].new)
        BY <2>1, Wrote DEF Inv
  <2>3. Holds(job[w])
        BY DEF Inv, Jobs
  <2>4. Holds(job[w])'
        BY <1>1, <2>2, <2>3 DEF Holds, Now
  <2> QED BY <1>1, <2>1, <2>2, <2>4, RowsSame, QuietStep
<1> QED BY <1>2, <1>3

\* Rows that expire, and the list.
LEMMA ExpireStep ==
    ASSUME Inv, UNCHANGED <<born, made, owner, from, given, job>>,
           UNCHANGED umb \/ \E s \in 1..born : umb' = [umb EXCEPT ![s] = 0]
    PROVE  Inv' /\ NoneBack
<1>1. umb' \in [Session -> Nat] /\ RowsOnlyEnd
  <2>1. CASE UNCHANGED umb
        BY <2>1, RowsSame
  <2>2. CASE \E s \in 1..born : umb' = [umb EXCEPT ![s] = 0]
    <3>1. PICK s \in 1..born : umb' = [umb EXCEPT ![s] = 0]
          BY <2>2
    <3> QED BY ONLY <3>1, Created, Inv, ZenonT(30) DEF Inv, Types, RowsOnlyEnd
  <2> QED BY <2>1, <2>2
<1>2. Types' /\ Pairs' /\ SamePairs
      BY <1>1, SMTT(30) DEF Inv, Types, Pairs, SamePairs
<1>3. Shape' /\ Jobs'
      BY DEF Inv, Shape, Jobs, Holds
<1>4. Won' = Won
      BY DEF Won
<1>5. MovedOn' /\ OneShot'
      BY <1>1, <1>2, <1>4, ExchangesKept
<1>6. NoneBack
      BY <1>1 DEF RowsOnlyEnd, NoneBack
<1> QED BY <1>2, <1>3, <1>5, <1>6 DEF Inv

LEMMA NextStep == Inv /\ [Next]_vars => Inv' /\ NoneBack
<1> SUFFICES ASSUME Inv, [Next]_vars PROVE Inv' /\ NoneBack
    OBVIOUS
<1>1. ASSUME NEW w \in Worker,
             \/ CreateSession(w) \/ AccessRow(w) \/ RefreshRow(w)
             \/ Push(w) \/ PushResent(w) \/ Evict(w)
             \/ FetchSession(w) \/ Rotate(w) \/ RotateResent(w) \/ Retire(w) \/ Undo(w)
             \/ Owned(w) \/ DestroySession(w) \/ Unlist(w) \/ DeleteRows(w)
             \/ Cut(w) \/ Ignored(w)
             \/ \E p \in 1..made : ExtendSession(w, p) \/ Revoke(w, p)
      PROVE  Inv' /\ NoneBack
  <2>1. CASE Push(w) \/ PushResent(w)
        BY <2>1, PushStep DEF Push, PushResent
  <2> QED BY <1>1, <2>1, CreateStep, WriteRows, EvictStep, FetchStep, RotateStep,
             EndStep, DeleteStep, StartRequest
<1>2. CASE \E p \in 1..made : ExpireAccess(p) \/ ExpireRefresh(p)
      BY <1>2, ExpireStep DEF ExpireAccess, ExpireRefresh
<1>3. CASE \E s \in 1..born : ExpireSession(s)
      BY <1>3, ExpireStep DEF ExpireSession
<1>4. CASE ExpireList
      BY <1>4, ExpireStep DEF ExpireList
<1>5. CASE UNCHANGED vars
      BY <1>5, ExpireStep DEF vars
<1> QED BY <1>1, <1>2, <1>3, <1>4, <1>5 DEF Next

-----------------------------------------------------------------------------
\* ExtendSession, STEP 5: at most one pair is given in exchange for any one
\* refresh token, for any number of requests that present it at once.
THEOREM OneShotHolds == Spec => []OneShot
<1>1. Inv => OneShot
      BY DEF Inv
<1> QED BY InitInv, NextStep, <1>1, PTL DEF Spec

\* A session that was revoked, evicted or expired is never brought back by the
\* late rotation of a request that read its umbrella row earlier.
THEOREM NeverRecreatedHolds == Spec => NeverRecreated
<1>1. Inv /\ [Next]_vars => [\A s \in 1..born : umb[s] = 0 => umb'[s] = 0]_vars
      BY NextStep DEF NoneBack
<1> QED BY InitInv, NextStep, <1>1, PTL DEF Spec, NeverRecreated

-----------------------------------------------------------------------------
\* The request j will put session s on the cap list, or has to end it still.
Covers(j, s) ==
    \/ j.at \in {"accessRow", "refreshRow", "push"} /\ j.old = 0 /\ j.sid = s
    \/ j.at = "evict" /\ s \in Range(j.evicted)
    \/ j.at = "delete" /\ j.sid = s

\* The cap list is within the cap, and short of faults every session that stands
\* is on it or in the hands of a request.
ListInv ==
    /\ faults \in Nat
    /\ list \in Seq(Nat) /\ Len(list) <= Cap
    /\ faults = 0 =>
         \A s \in 1..born : umb[s] # 0 =>
            s \in Range(list) \/ \E w \in Worker : Covers(job[w], s)

\* ListRemove: the list gets no longer and loses no other id.
LEMMA WithoutKeeps ==
    ASSUME NEW l \in Seq(Nat), NEW e
    PROVE  /\ Without(l, e) \in Seq(Nat)
           /\ Len(Without(l, e)) <= Len(l)
           /\ \A x \in Range(l) : x # e => x \in Range(Without(l, e))
<1> DEFINE kept == {i \in 1..Len(l) : l[i] # e}
           Upto(i) == {j \in kept : j <= i}
           Nth(m) == CHOOSE i \in kept : Cardinality(Upto(i)) = m
           k == [m \in 1..Cardinality(kept) |-> l[Nth(m)]]
<1>0. Without(l, e) = k
      BY DEF Without
<1>1. Len(l) \in Nat /\ IsFiniteSet(1..Len(l)) /\ Cardinality(1..Len(l)) = Len(l)
  <2> DEFINE len == Len(l)
  <2>1. len \in Nat
        BY SMTT(30)
  <2> HIDE DEF len
  <2>2. len \in Int /\ 1 \in Int /\ (IF 1 > len THEN 0 ELSE len - 1 + 1) = len
        BY ONLY <2>1, SMTT(30)
  <2>3. IsFiniteSet(1..len) /\ Cardinality(1..len) = len
        BY <2>2, FS_Interval
  <2> QED BY <2>1, <2>3 DEF len
<1>2. IsFiniteSet(kept) /\ Cardinality(kept) <= Len(l) /\ kept \subseteq 1..Len(l)
      BY <1>1, FS_Subset
<1> DEFINE c == Cardinality(kept)
<1>3. c \in Nat /\ IsFiniteSet(1..c) /\ Cardinality(1..c) = c
  <2>1. c \in Nat
        BY <1>2, FS_CardinalityType
  <2> HIDE DEF c
  <2>2. c \in Int /\ 1 \in Int /\ (IF 1 > c THEN 0 ELSE c - 1 + 1) = c
        BY ONLY <2>1, SMTT(30)
  <2> QED BY <2>1, <2>2, FS_Interval
<1>4. \A j \in kept : IsFiniteSet(Upto(j)) /\ Cardinality(Upto(j)) \in Nat
      BY <1>2, FS_Subset, FS_CardinalityType
<1>5. ASSUME NEW a \in kept, NEW b \in kept, Cardinality(Upto(a)) = Cardinality(Upto(b))
      PROVE  a = b
  <2>1. ASSUME NEW x \in kept, NEW y \in kept, x < y
        PROVE  Cardinality(Upto(x)) # Cardinality(Upto(y))
    <3>1. Upto(x) \subseteq Upto(y) /\ y \in Upto(y) /\ y \notin Upto(x)
          BY <1>1, <2>1, SMTT(30)
    <3> QED BY <1>4, <3>1, FS_Subset
  <2> QED BY <1>1, <1>5, <2>1, SMTT(30)
<1>6. ASSUME NEW i \in kept
      PROVE  Cardinality(Upto(i)) \in 1..c
  <2> DEFINE u == Cardinality(Upto(i))
  <2>1. i \in Upto(i) /\ Upto(i) \subseteq kept
        BY <1>1, SMTT(30)
  <2>2. u # 0 /\ u \in Nat
        BY <1>4, <2>1, FS_EmptySet
  <2>3. u <= c
        BY <1>2, <2>1, FS_Subset
  <2> HIDE DEF u, c
  <2>4. u \in 1..c
        BY ONLY <1>3, <2>2, <2>3, SMTT(30)
  <2> QED BY <2>4 DEF u
<1> DEFINE rank == [i \in kept |-> Cardinality(Upto(i))]
<1>7. rank \in Injection(kept, 1..c)
      BY <1>5, <1>6 DEF Injection, IsInjective
<1>8. rank \in Surjection(kept, 1..c)
  <2> HIDE DEF rank, c
  <2>1. Cardinality(kept) = Cardinality(1..c)
        BY <1>3 DEF c
  <2> QED BY <1>2, <1>3, <1>7, <2>1, FS_Injection
<1>9. ASSUME NEW m \in 1..c
      PROVE  Nth(m) \in kept
  <2>1. \E i \in kept : rank[i] = m
    <3> HIDE DEF rank, c
    <3> QED BY <1>8 DEF Surjection
  <2> QED BY <2>1
<1>10. ASSUME NEW i \in kept
       PROVE  Nth(Cardinality(Upto(i))) = i
       BY <1>5
<1>11. k \in Seq(Nat) /\ Len(k) = c
  <2>0. \A i \in kept : l[i] \in Nat
        BY <1>2, SMTT(30)
  <2> HIDE DEF kept
  <2>1. \A m \in 1..c : l[Nth(m)] \in Nat
        BY <1>9, <2>0
  <2> HIDE DEF Nth, c
  <2>2. k \in [1..c -> Nat]
        BY <2>1 DEF c
  <2> HIDE DEF k
  <2> QED BY <1>3, <2>2, SMTT(30)
<1>12. ASSUME NEW x \in Range(l), x # e
       PROVE  x \in Range(k)
  <2>1. PICK i \in 1..Len(l) : x = l[i]
        BY <1>12, SMTT(30) DEF Range
  <2>2. i \in kept
        BY <1>12, <2>1
  <2> DEFINE u == Cardinality(Upto(i))
  <2>3. u \in 1..c /\ k[u] = l[i]
        BY <1>6, <1>10, <2>2
  <2>4. DOMAIN k = 1..c
        OBVIOUS
  <2> HIDE DEF u, c, k
  <2> QED BY <2>1, <2>3, <2>4 DEF Range
<1> HIDE DEF k, kept
<1> QED BY <1>0, <1>2, <1>11, <1>12

\* ListPushTrimOverCap: what it trims and what it keeps is the list it pushed to.
LEMMA TrimSplits ==
    ASSUME NEW l \in Seq(Nat), NEW e \in Nat, NEW w \in Worker, job[w].sid = e
    PROVE  /\ Trimmed(Pushed(w, l)) \in Seq(Nat)
           /\ Len(Trimmed(Pushed(w, l))) <= Cap
           /\ \A x \in Range(l) \cup {e} :
                x \in Range(Trimmed(Pushed(w, l))) \/ x \in Range(Evicted(Pushed(w, l)))
<1> DEFINE p == Append(l, e)
           over == Over(p)
<1>1. Pushed(w, l) = p
      BY DEF Pushed
<1>2. /\ p \in Seq(Nat) /\ Len(p) \in Nat
      /\ \A x \in Range(l) \cup {e} : \E i \in 1..Len(p) : p[i] = x
  <2>1. p \in Seq(Nat) /\ Len(p) = Len(l) + 1 /\ p[Len(l) + 1] = e
        BY SMTT(30)
  <2>2. \A i \in 1..Len(l) : p[i] = l[i] /\ i \in 1..(Len(l) + 1)
        BY SMTT(30)
  <2>3. Len(l) + 1 \in 1..(Len(l) + 1)
        BY SMTT(30)
  <2> QED BY <2>1, <2>2, <2>3, SMTT(30) DEF Range
<1> HIDE DEF p
<1>3. over \in 0..Len(p) /\ Len(p) - over <= Cap
      BY <1>2, CapAssumption, SMTT(30) DEF Over
<1>4. Trimmed(p) = SubSeq(p, over + 1, Len(p)) /\ Evicted(p) = SubSeq(p, 1, over)
      BY DEF Trimmed, Evicted
<1> HIDE DEF over
<1>a. p \in Seq(Nat) /\ over \in Nat /\ Len(p) \in Nat /\ over <= Len(p)
      BY <1>2, <1>3, SMTT(30)
<1>5. /\ Trimmed(p) \in Seq(Nat) /\ Len(Trimmed(p)) = Len(p) - over
      /\ \A i \in 1..(Len(p) - over) : Trimmed(p)[i] = p[over + i]
  <2> DEFINE k == SubSeq(p, over + 1, Len(p))
  <2>1. k \in Seq(Nat) /\ Len(k) = Len(p) - over
        BY ONLY <1>a, SMTT(30)
  <2>2. \A i \in 1..(Len(p) - over) : k[i] = p[over + i]
        BY ONLY <1>a, SMTT(30)
  <2> HIDE DEF k
  <2>3. Trimmed(p) = k
        BY <1>4 DEF k
  <2> QED BY <2>1, <2>2, <2>3
<1>6. /\ Evicted(p) \in Seq(Nat) /\ Len(Evicted(p)) = over
      /\ \A i \in 1..over : Evicted(p)[i] = p[i]
  <2> DEFINE k == SubSeq(p, 1, over)
  <2>1. k \in Seq(Nat) /\ Len(k) = over
        BY ONLY <1>a, SMTT(30)
  <2>2. \A i \in 1..over : k[i] = p[i]
        BY ONLY <1>a, SMTT(30)
  <2> HIDE DEF k
  <2>3. Evicted(p) = k
        BY <1>4 DEF k
  <2> QED BY <2>1, <2>2, <2>3
<1>7. ASSUME NEW i \in 1..Len(p)
      PROVE  p[i] \in Range(Trimmed(p)) \/ p[i] \in Range(Evicted(p))
  <2>1. CASE i <= over
    <3>1. i \in DOMAIN Evicted(p) /\ Evicted(p)[i] = p[i]
          BY <1>2, <1>3, <1>6, <2>1, SMTT(30)
    <3> QED BY <3>1 DEF Range
  <2>2. CASE ~(i <= over)
    <3>1. i - over \in 1..(Len(p) - over) /\ over + (i - over) = i
          BY <1>2, <1>3, <2>2, SMTT(30)
    <3>2. i - over \in DOMAIN Trimmed(p) /\ Trimmed(p)[i - over] = p[i]
          BY <1>5, <3>1, SMTT(30)
    <3> QED BY <3>2 DEF Range
  <2> QED BY <2>1, <2>2
<1> QED BY <1>1, <1>2, <1>3, <1>5, <1>7

LEMMA InitListInv == Init => ListInv
BY CapAssumption, SMTT(30) DEF Init, ListInv

\* A step that leaves the list alone: no request lets go of a standing session.
LEMMA ListKept ==
    ASSUME ListInv, NoneBack, UNCHANGED <<born, list>>, faults' \in Nat, faults <= faults',
           \A v \in Worker : \A s \in 1..born :
             faults' = 0 /\ Covers(job[v], s) => Covers(job'[v], s) \/ umb'[s] = 0
    PROVE  ListInv'
<1>1. list' \in Seq(Nat) /\ Len(list') <= Cap
      BY DEF ListInv
<1>2. ASSUME faults' = 0, NEW s \in 1..born, umb'[s] # 0
      PROVE  s \in Range(list) \/ \E w \in Worker : Covers(job'[w], s)
  <2>1. faults = 0 /\ umb[s] # 0
        BY <1>2, SMTT(30) DEF ListInv, NoneBack
  <2> QED BY <1>2, <2>1 DEF ListInv
<1> QED BY <1>1, <1>2 DEF ListInv, Covers

\* A step of a request that covers nothing, or covers the same after it.
LEMMA ListKeptBy ==
    ASSUME ListInv, NoneBack, UNCHANGED <<born, list>>, faults' \in Nat, faults <= faults',
           NEW w \in Worker, NEW a, NEW s, NEW o, NEW n, Now(w, a, s, o, n),
           \/ faults' # 0
           \/ job[w].at \in {"idle", "fetch", "rotate", "retire", "undo", "owned", "destroy"}
           \/ /\ job[w].at \in {"accessRow", "refreshRow"} /\ s = job[w].sid /\ o = job[w].old
              /\ o = 0 => a \in {"refreshRow", "push"}
    PROVE  ListInv'
<1>1. /\ job'[w].at = a /\ job'[w].sid = s /\ job'[w].old = o
      /\ \A v \in Worker \ {w} : job'[v] = job[v]
      BY DEF Now
<1>2. ASSUME NEW v \in Worker, NEW t \in 1..born, faults' = 0, Covers(job[v], t)
      PROVE  Covers(job'[v], t)
      BY <1>1, <1>2 DEF Covers
<1> QED BY <1>2, ListKept

\* Only the request of worker w moved.
Moved(w) == \E a, s, o, n : Now(w, a, s, o, n)

LEMMA Moves ==
    ASSUME Shape, NEW w \in Worker
    PROVE  /\ Answer(w) => Moved(w)
           /\ \A c : GoTo(w, c) => Moved(w)
           /\ \A c, n : job' = [job EXCEPT ![w].at = c, ![w].new = n] => Moved(w)
           /\ \A c, o : job' = [job EXCEPT ![w].at = c, ![w].old = o] => Moved(w)
BY Wrote, SMTT(30) DEF Moved

LEMMA RequestListed ==
    ASSUME Inv, ListInv, NoneBack, NEW w \in Worker,
           \/ AccessRow(w) \/ RefreshRow(w) \/ FetchSession(w) \/ Rotate(w) \/ RotateResent(w)
           \/ Retire(w) \/ Undo(w) \/ Owned(w) \/ DestroySession(w) \/ Cut(w) \/ Ignored(w)
           \/ \E p \in 1..made : ExtendSession(w, p) \/ Revoke(w, p)
    PROVE  ListInv'
<1>0. Shape /\ faults \in Nat
      BY DEF Inv, ListInv
<1>1. UNCHANGED <<born, list>> /\ (UNCHANGED faults \/ faults' = faults + 1)
      BY DEF AccessRow, RefreshRow, FetchSession, Rotate, RotateResent, Retire, Undo, Owned,
             DestroySession, Cut, Ignored, ExtendSession, Revoke
<1>2. faults' \in Nat /\ faults <= faults' /\ (faults' = faults + 1 => faults' # 0)
      BY <1>0, <1>1, SMTT(30)
<1>3. CASE AccessRow(w)
  <2>1. Now(w, "refreshRow", job[w].sid, job[w].old, job[w].new) /\ job[w].at = "accessRow"
        BY <1>0, <1>3, Wrote DEF AccessRow
  <2> QED BY <1>0, <1>1, <1>2, <2>1, ListKeptBy
<1>4. CASE RefreshRow(w)
  <2> DEFINE c == IF job[w].old = 0 THEN "push" ELSE "rotate"
  <2>1. Now(w, c, job[w].sid, job[w].old, job[w].new) /\ job[w].at = "refreshRow"
        BY <1>0, <1>4, Wrote DEF RefreshRow
  <2>2. job[w].old = 0 => c = "push"
        OBVIOUS
  <2> HIDE DEF c
  <2> QED BY <1>0, <1>1, <1>2, <2>1, <2>2, ListKeptBy
<1>5. CASE \/ FetchSession(w) \/ Rotate(w) \/ Retire(w) \/ Undo(w) \/ Owned(w)
           \/ DestroySession(w) \/ \E p \in 1..made : ExtendSession(w, p) \/ Revoke(w, p)
  <2>1. job[w].at \in {"idle", "fetch", "rotate", "retire", "undo", "owned", "destroy"}
        BY <1>5 DEF FetchSession, Rotate, Retire, Undo, Owned, DestroySession,
                    ExtendSession, Revoke
  <2>2. Moved(w)
    <3>1. CASE FetchSession(w)
          BY <1>0, <3>1, Moves DEF FetchSession
    <3>2. CASE Rotate(w) \/ Retire(w) \/ Undo(w) \/ Owned(w)
          BY <1>0, <3>2, Moves DEF Rotate, Retire, Undo, Owned
    <3>3. CASE DestroySession(w)
          BY <1>0, <3>3, Moves DEF DestroySession
    <3>4. CASE \E p \in 1..made : ExtendSession(w, p) \/ Revoke(w, p)
          BY <1>0, <3>4, Wrote, SMTT(30) DEF ExtendSession, Revoke, Moved
    <3> QED BY <1>5, <3>1, <3>2, <3>3, <3>4
  <2> QED BY <1>0, <1>1, <1>2, <2>1, <2>2, ListKeptBy DEF Moved
<1>6. CASE RotateResent(w) \/ Cut(w) \/ Ignored(w)
  <2>1. faults' # 0
        BY <1>0, <1>2, <1>6 DEF RotateResent, Cut, Ignored
  <2>2. Moved(w)
        BY <1>0, <1>6, Moves DEF RotateResent, Cut, Ignored
  <2> QED BY <1>0, <1>1, <1>2, <2>1, <2>2, ListKeptBy DEF Moved
<1> QED BY <1>3, <1>4, <1>5, <1>6

LEMMA CreateListed ==
    ASSUME Inv, ListInv, NEW w \in Worker, CreateSession(w)
    PROVE  ListInv'
<1>0. Shape /\ Types
      BY DEF Inv
<1>1. /\ born' = born + 1 /\ born \in Nat /\ UNCHANGED <<list, faults>> /\ job[w].at = "idle"
      /\ umb' = [umb EXCEPT ![born + 1] = made + 1]
      BY <1>0 DEF CreateSession, Types
<1>2. /\ job'[w].at = "accessRow" /\ job'[w].sid = born + 1 /\ job'[w].old = 0
      /\ \A v \in Worker \ {w} : job'[v] = job[v]
  <2>1. Now(w, "accessRow", born + 1, 0, made + 1)
        BY <1>0, Wrote DEF CreateSession
  <2> QED BY ONLY <2>1, ZenonT(30) DEF Now
<1>3. ASSUME faults = 0, NEW s \in 1..born', umb'[s] # 0
      PROVE  s \in Range(list) \/ \E v \in Worker : Covers(job'[v], s)
  <2>1. CASE s = born + 1
        BY <1>2, <2>1 DEF Covers
  <2>2. CASE s # born + 1
    <3>1. s \in 1..born
          BY <1>1, <2>2, SMTT(30)
    <3>2. umb[s] # 0
          BY <1>0, <1>1, <1>3, <2>2, <3>1, Created DEF Types
    <3>3. CASE s \in Range(list)
          BY <3>3
    <3>4. ASSUME NEW v \in Worker, Covers(job[v], s)
          PROVE  Covers(job'[v], s)
          BY <1>1, <1>2, <3>4 DEF Covers
    <3> QED BY <1>3, <3>1, <3>2, <3>3, <3>4 DEF ListInv
  <2> QED BY <2>1, <2>2
<1> QED BY <1>1, <1>3 DEF ListInv, Covers

LEMMA PushListed ==
    ASSUME Inv, ListInv, NEW w \in Worker, Push(w) \/ PushResent(w)
    PROVE  ListInv'
<1>0. Shape /\ Types /\ Pairs /\ Jobs /\ faults \in Nat
      BY DEF Inv, ListInv
<1> DEFINE e == job[w].sid
<1>1. job[w].at = "push" /\ e \in Nat
  <2>1. job[w].at = "push"
        BY DEF Push, PushResent
  <2>2. job[w].new \in 1..made /\ owner[job[w].new] = e
        BY <1>0, <2>1 DEF Jobs, Holds
  <2>3. \A p \in 1..made : owner[p] \in Nat
        BY <1>0, SMTT(30) DEF Types, Pair, Pairs
  <2> QED BY <2>1, <2>2, <2>3
<1>2. CASE PushResent(w)
  <2>1. list' = Trimmed(Pushed(w, Trimmed(Pushed(w, list)))) /\ faults' = faults + 1
        BY <1>2 DEF PushResent, PushOnto
  <2>2. Trimmed(Pushed(w, list)) \in Seq(Nat)
        BY <1>1, TrimSplits DEF ListInv
  <2>3. list' \in Seq(Nat) /\ Len(list') <= Cap
        BY <1>1, <2>1, <2>2, TrimSplits
  <2>4. faults' # 0 /\ faults' \in Nat
        BY <1>0, <2>1, SMTT(30)
  <2> QED BY <2>3, <2>4 DEF ListInv
<1>3. CASE Push(w)
  <2> DEFINE p == Pushed(w, list)
  <2>1. list' = Trimmed(p) /\ UNCHANGED <<faults, born, umb>>
        BY <1>3 DEF Push, PushOnto
  <2>2. /\ list' \in Seq(Nat) /\ Len(list') <= Cap
        /\ \A x \in Range(list) \cup {e} : x \in Range(list') \/ x \in Range(Evicted(p))
        BY <1>1, <2>1, TrimSplits DEF ListInv
  <2>3. Evicted(p) # <<>> => job' = [job EXCEPT ![w].at = "evict", ![w].evicted = Evicted(p)]
        BY <1>3 DEF Push, PushOnto
  <2>4. Evicted(p) = <<>> => Answer(w)
        BY <1>3 DEF Push, PushOnto
  <2> DEFINE ev == Evicted(p)
  <2> HIDE DEF p, ev
  <2>5. \A v \in Worker \ {w} : job'[v] = job[v]
    <3>1. CASE Answer(w)
      <4>1. Now(w, "idle", 0, 0, 0)
            BY <1>0, <3>1, Wrote
      <4> QED BY ONLY <4>1, ZenonT(30) DEF Now
    <3>2. CASE job' = [job EXCEPT ![w].at = "evict", ![w].evicted = ev]
      <4>1. Now(w, "evict", job[w].sid, job[w].old, job[w].new)
            BY <1>0, <3>2, Wrote
      <4> QED BY ONLY <4>1, ZenonT(30) DEF Now
    <3> QED BY <2>3, <2>4, <3>1, <3>2 DEF ev
  <2>6. \A x \in Range(ev) : Covers(job'[w], x)
    <3>1. CASE ev = <<>>
          BY <3>1, SMTT(30) DEF Range
    <3>2. CASE ev # <<>>
      <4>1. job' = [job EXCEPT ![w].at = "evict", ![w].evicted = ev]
            BY <2>3, <3>2 DEF ev
      <4> DEFINE mid == [job EXCEPT ![w].at = "evict"]
      <4>3. job' = [mid EXCEPT ![w].evicted = ev]
            BY <4>1
      <4>4. /\ mid = [v \in Worker |-> mid[v]] /\ mid[w].at = "evict" /\ IsJob(mid[w])
            BY <1>0, SMTT(30) DEF Shape, IsJob
      <4> HIDE DEF mid
      <4>2. job'[w].at = "evict" /\ job'[w].evicted = ev
            BY ONLY <4>3, <4>4, w \in Worker, ZenonT(30) DEF IsJob
      <4> QED BY <4>2 DEF Covers
    <3> QED BY <3>1, <3>2
  <2>7. ASSUME faults = 0, NEW s \in 1..born, umb[s] # 0
        PROVE  s \in Range(list') \/ \E v \in Worker : Covers(job'[v], s)
    <3>1. CASE s \in Range(list) \cup {e}
          BY <2>2, <2>6, <3>1 DEF ev
    <3>2. ASSUME NEW v \in Worker, Covers(job[v], s), s # e
          PROVE  v # w /\ Covers(job'[v], s)
          BY <1>1, <2>5, <3>2 DEF Covers
    <3> QED BY <2>7, <3>1, <3>2 DEF ListInv
  <2> QED BY <2>1, <2>2, <2>7 DEF ListInv, Covers
<1> QED BY <1>2, <1>3

LEMMA EvictListed ==
    ASSUME Inv, ListInv, NoneBack, NEW w \in Worker, Evict(w)
    PROVE  ListInv'
<1>0. Shape /\ Types /\ faults \in Nat
      BY DEF Inv, ListInv
<1>1. UNCHANGED <<born, list, faults>> /\ faults' \in Nat /\ faults <= faults' /\ job[w].at = "evict"
      BY <1>0, SMTT(30) DEF Evict
<1> DEFINE gone == Range(job[w].evicted)
<1>2. umb' = [s \in Session |-> IF s \in gone THEN 0 ELSE umb[s]]
      BY DEF Evict
<1>3. \A v \in Worker \ {w} : job'[v] = job[v]
      BY <1>0, Wrote DEF Evict, Now
<1>4. \A s : Covers(job[w], s) => s \in gone
      BY <1>1 DEF Covers
<1> HIDE DEF gone
<1>5. \A s \in 1..born : s \in gone => umb'[s] = 0
      BY <1>0, <1>2, Created
<1>6. ASSUME NEW v \in Worker, NEW s \in 1..born, Covers(job[v], s)
      PROVE  Covers(job'[v], s) \/ umb'[s] = 0
      BY <1>3, <1>4, <1>5, <1>6
<1> QED BY <1>0, <1>1, <1>6, ListKept

LEMMA DeleteListed ==
    ASSUME Inv, ListInv, NoneBack, NEW w \in Worker, DeleteRows(w)
    PROVE  ListInv'
<1>0. Shape /\ Types /\ faults \in Nat
      BY DEF Inv, ListInv
<1> DEFINE e == job[w].sid
<1>1. UNCHANGED <<born, list, faults>> /\ faults' \in Nat /\ faults <= faults' /\ job[w].at = "delete"
      BY <1>0, SMTT(30) DEF DeleteRows
<1>2. umb' = [umb EXCEPT ![e] = 0]
      BY DEF DeleteRows
<1>3. \A v \in Worker \ {w} : job'[v] = job[v]
      BY <1>0, Wrote DEF DeleteRows, Now
<1>4. \A s : Covers(job[w], s) => s = e
      BY <1>1 DEF Covers
<1> HIDE DEF e
<1>5. \A s \in 1..born : s = e => umb'[s] = 0
      BY <1>0, <1>2, Created DEF Types
<1>6. ASSUME NEW v \in Worker, NEW s \in 1..born, Covers(job[v], s)
      PROVE  Covers(job'[v], s) \/ umb'[s] = 0
      BY <1>3, <1>4, <1>5, <1>6
<1> QED BY <1>0, <1>1, <1>6, ListKept

LEMMA UnlistListed ==
    ASSUME Inv, ListInv, NEW w \in Worker, Unlist(w)
    PROVE  ListInv'
<1>0. Shape
      BY DEF Inv
<1> DEFINE e == job[w].sid
<1>1. UNCHANGED <<born, umb, faults>> /\ list' = Without(list, e) /\ job[w].at = "unlist"
      BY DEF Unlist
<1>2. Now(w, "delete", job[w].sid, job[w].old, job[w].new)
      BY <1>0, Wrote DEF Unlist
<1>3. /\ job'[w].at = "delete" /\ job'[w].sid = e
      /\ \A v \in Worker \ {w} : job'[v] = job[v]
      BY ONLY <1>2, ZenonT(30) DEF Now
<1>4. Covers(job'[w], e) /\ \A s : ~Covers(job[w], s)
      BY <1>1, <1>3 DEF Covers
<1> HIDE DEF e
<1>5. /\ list' \in Seq(Nat) /\ Len(list') <= Cap
      /\ \A x \in Range(list) : x # e => x \in Range(list')
  <2>1. list \in Seq(Nat) /\ Len(list) <= Cap
        BY DEF ListInv
  <2>2. /\ list' \in Seq(Nat) /\ Len(list') <= Len(list)
        /\ \A x \in Range(list) : x # e => x \in Range(list')
        BY <1>1, <2>1, WithoutKeeps
  <2>3. Len(list') \in Nat /\ Len(list) \in Nat
        BY <2>1, <2>2, SMTT(30)
  <2> QED BY <2>1, <2>2, <2>3, CapAssumption, SMTT(30)
<1>6. ASSUME faults = 0, NEW s \in 1..born, umb[s] # 0
      PROVE  s \in Range(list') \/ \E v \in Worker : Covers(job'[v], s)
  <2>1. CASE s = e
        BY <1>4, <2>1
  <2>2. CASE s # e /\ s \in Range(list)
        BY <1>5, <2>2
  <2>3. ASSUME NEW v \in Worker, Covers(job[v], s)
        PROVE  Covers(job'[v], s)
        BY <1>3, <1>4, <2>3
  <2> QED BY <1>6, <2>1, <2>2, <2>3 DEF ListInv
<1> QED BY <1>1, <1>5, <1>6 DEF ListInv, Covers

LEMMA ListStep == Inv /\ ListInv /\ [Next]_vars => ListInv'
<1> SUFFICES ASSUME Inv, ListInv, [Next]_vars PROVE ListInv'
    OBVIOUS
<1>0. NoneBack /\ faults \in Nat
      BY NextStep DEF ListInv
<1>1. ASSUME NEW w \in Worker,
             \/ CreateSession(w) \/ AccessRow(w) \/ RefreshRow(w)
             \/ Push(w) \/ PushResent(w) \/ Evict(w)
             \/ FetchSession(w) \/ Rotate(w) \/ RotateResent(w) \/ Retire(w) \/ Undo(w)
             \/ Owned(w) \/ DestroySession(w) \/ Unlist(w) \/ DeleteRows(w)
             \/ Cut(w) \/ Ignored(w)
             \/ \E p \in 1..made : ExtendSession(w, p) \/ Revoke(w, p)
      PROVE  ListInv'
      BY <1>0, <1>1, CreateListed, RequestListed, PushListed, EvictListed, UnlistListed,
         DeleteListed
<1>2. CASE UNCHANGED <<born, list, job, faults>>
      BY <1>0, <1>2, ListKept, SMTT(30)
<1>3. CASE ExpireList
  <2>1. /\ list' = <<>> /\ UNCHANGED <<born, umb, job, faults>>
        /\ faults > 0 \/ \A s \in Range(list) : umb[s] = 0
        BY <1>3 DEF ExpireList
  <2>2. list' \in Seq(Nat) /\ Len(list') <= Cap
        BY <2>1, CapAssumption, SMTT(30)
  <2>3. ASSUME faults = 0, NEW s \in 1..born, umb[s] # 0
        PROVE  \E v \in Worker : Covers(job[v], s)
        BY <2>1, <2>3, SMTT(30) DEF ListInv
  <2> QED BY <2>1, <2>2, <2>3 DEF ListInv, Covers
<1>4. [Next]_vars <=> \/ \E w \in Worker :
                           \/ CreateSession(w) \/ AccessRow(w) \/ RefreshRow(w)
                           \/ Push(w) \/ PushResent(w) \/ Evict(w)
                           \/ FetchSession(w) \/ Rotate(w) \/ RotateResent(w) \/ Retire(w)
                           \/ Undo(w) \/ Owned(w) \/ DestroySession(w) \/ Unlist(w)
                           \/ DeleteRows(w) \/ Cut(w) \/ Ignored(w)
                           \/ \E p \in 1..made : ExtendSession(w, p) \/ Revoke(w, p)
                      \/ \E p \in 1..made : ExpireAccess(p) \/ ExpireRefresh(p)
                      \/ \E s \in 1..born : ExpireSession(s)
                      \/ ExpireList \/ UNCHANGED vars
      BY DEF Next
<1> QED BY <1>1, <1>2, <1>3, <1>4 DEF ExpireAccess, ExpireRefresh, ExpireSession, vars

\* The sessions that stand are among the at most Cap ids on the list.
LEMMA ListBounds ==
    ASSUME ListInv
    PROVE  CapHolds
<1> SUFFICES ASSUME faults = 0, \A w \in Worker : job[w].at = "idle"
             PROVE  Cardinality({s \in 1..born : umb[s] # 0}) <= Cap
    BY DEF CapHolds
<1> DEFINE up == {s \in 1..born : umb[s] # 0}
           len == Len(list)
<1>1. list \in Seq(Nat) /\ len \in Nat /\ len <= Cap
      BY SMTT(30) DEF ListInv
<1>2. up \subseteq Range(list)
  <2>1. \A w \in Worker : \A s : ~Covers(job[w], s)
        BY DEF Covers
  <2> QED BY <2>1 DEF ListInv
<1>3. list \in Surjection(1..len, Range(list))
      BY <1>1, SMTT(30) DEF Surjection, Range
<1> HIDE DEF up, len
<1>4. IsFiniteSet(1..len) /\ Cardinality(1..len) = len
  <2>1. len \in Int /\ 1 \in Int /\ (IF 1 > len THEN 0 ELSE len - 1 + 1) = len
        BY ONLY <1>1, SMTT(30)
  <2> QED BY <2>1, FS_Interval
<1>5. IsFiniteSet(Range(list)) /\ Cardinality(Range(list)) <= len
      BY <1>3, <1>4, FS_Surjection, SMTT(30)
<1>6. Cardinality(up) <= Cardinality(Range(list)) /\ IsFiniteSet(up)
      BY <1>2, <1>5, FS_Subset
<1>7. Cardinality(up) \in Nat /\ Cardinality(Range(list)) \in Nat
      BY <1>5, <1>6, FS_CardinalityType
<1>8. Cardinality(up) <= Cap
      BY <1>1, <1>5, <1>6, <1>7, CapAssumption, SMTT(30)
<1> QED BY <1>8 DEF up

-----------------------------------------------------------------------------
\* What the rows of a session say agrees, for any number of concurrent
\* creations, refreshes, evictions and revocations, any cap, and any number of
\* failed and repeated commands: the refresh row of the pair a session names is
\* not deleted, a superseded access token opens nothing once the requests that
\* retire it are through, and the bucket is within its cap.
THEOREM RowsAgreeHolds == Spec => []RowsAgree
<1>1. Init => Inv /\ RowInv /\ ListInv
      BY InitInv, InitRowInv, InitListInv
<1>2. Inv /\ RowInv /\ ListInv /\ [Next]_vars => (Inv /\ RowInv /\ ListInv)'
      BY NextStep, RowStep, ListStep
<1>3. RowInv /\ ListInv => RowsAgree
  <2> SUFFICES ASSUME RowInv, ListInv PROVE RowsAgree
      OBVIOUS
  <2>1. CurrentPairStands
        BY DEF RowInv, Standing, ToGive, Stands, CurrentPairStands
  <2> QED BY <2>1, ListBounds DEF RowInv, RowsAgree
<1> QED BY <1>1, <1>2, <1>3, PTL DEF Spec
=============================================================================
