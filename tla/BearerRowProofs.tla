--------------------------- MODULE BearerRowProofs ---------------------------
(***************************************************************************)
(* Lemmas about BearerSession, for any number of requests at once, sessions, *)
(* pairs and faults, and any cap: the notions the proofs share, and that     *)
(* every step keeps the umbrella row, the token rows and the cap list of a   *)
(* session in agreement.  BearerProofs draws the theorems from them.         *)
(*                                                                           *)
(* The argument is about whose a pair is.  From its generation to the answer *)
(* a pair belongs to one request; before its rotation no row names it and no *)
(* request that deletes rows holds it; after it the umbrella row names it or *)
(* is gone.  So the only requests that delete the rows of a pair are the one *)
(* that replaced it, the one that failed to install it, and the one that     *)
(* ends the session.                                                         *)
(***************************************************************************)
EXTENDS BearerSession, TLAPS

\* The solver of every step that names no other.
USE ZenonT(30)

\* A job is a record with the fields of Job.
IsJob(j) == j = [at |-> j.at, sid |-> j.sid, old |-> j.old, new |-> j.new,
                 evicted |-> j.evicted]

Shape ==
    /\ job = [w \in Worker |-> job[w]]
    /\ \A w \in Worker : IsJob(job[w])

Types ==
    /\ born \in Nat /\ born <= MaxSessions
    /\ made \in Nat /\ made <= MaxPairs
    /\ umb \in [Session -> Nat]
    /\ owner \in [Pair -> Nat] /\ from \in [Pair -> Nat]
    /\ given \subseteq 1..made

\* A pair belongs to a session that was created, and so does the earlier pair it
\* was generated in exchange for.
Pairs ==
    \A p \in 1..made :
        /\ owner[p] \in 1..born
        /\ from[p] < p
        /\ from[p] # 0 => owner[from[p]] = owner[p]

\* What a request holds at each command.
Holds(j) ==
    /\ j.at = "fetch" => j.old \in 1..made /\ owner[j.old] = j.sid
    /\ j.at \in {"accessRow", "refreshRow", "push", "evict", "rotate", "retire", "undo"} =>
         j.new \in 1..made /\ from[j.new] = j.old /\ owner[j.new] = j.sid
    /\ j.at \in {"push", "evict"} => j.old = 0
    /\ j.at \in {"rotate", "retire"} => j.old # 0

Jobs == \A w \in Worker : Holds(job[w])

\* The row of a session whose pair was exchanged has moved past the pair
\* presented for it, for good.
MovedOn ==
    \A p \in Won : from[p] # 0 => umb[owner[p]] = 0 \/ p <= umb[owner[p]]

Inv == Shape /\ Types /\ Pairs /\ Jobs /\ MovedOn /\ OneShot

\* The request of worker w is at command a, about session s and pairs o and n,
\* after the step; no other request moved.
Now(w, a, s, o, n) ==
    /\ Shape'
    /\ job'[w].at = a /\ job'[w].sid = s /\ job'[w].old = o /\ job'[w].new = n
    /\ \A v \in Worker \ {w} : job'[v] = job[v]

-----------------------------------------------------------------------------
\* Writing job[w]: GoTo, Answer, a new request, and the two writes of two fields.
LEMMA Wrote ==
    ASSUME Shape, NEW w \in Worker
    PROVE  /\ \A c : GoTo(w, c) => Now(w, c, job[w].sid, job[w].old, job[w].new)
           /\ Answer(w) => Now(w, "idle", 0, 0, 0)
           /\ \A a, s, o, n :
                job' = [job EXCEPT ![w] = Request(a, s, o, n)]
                => Now(w, a, s, o, n)
           /\ \A a, n : job' = [job EXCEPT ![w].at = a, ![w].new = n]
                => Now(w, a, job[w].sid, job[w].old, n)
           /\ \A a, o : job' = [job EXCEPT ![w].at = a, ![w].old = o]
                => Now(w, a, job[w].sid, o, job[w].new)
           /\ \A a, e : job' = [job EXCEPT ![w].at = a, ![w].evicted = e]
                => Now(w, a, job[w].sid, job[w].old, job[w].new)
<1>1. ASSUME NEW c, GoTo(w, c)
      PROVE  Now(w, c, job[w].sid, job[w].old, job[w].new)
      BY <1>1, SMTT(30) DEF GoTo, Now, Shape, IsJob
<1>2. ASSUME NEW a, NEW s, NEW o, NEW n, job' = [job EXCEPT ![w] = Request(a, s, o, n)]
      PROVE  Now(w, a, s, o, n)
      BY <1>2 DEF Now, Shape, IsJob, Request
<1>3. Answer(w) => Now(w, "idle", 0, 0, 0)
      BY <1>2 DEF Answer, Idle
<1>4. ASSUME NEW a, NEW n, job' = [job EXCEPT ![w].at = a, ![w].new = n]
      PROVE  Now(w, a, job[w].sid, job[w].old, n)
  <2> DEFINE mid == [job EXCEPT ![w].at = a]
  <2>1. /\ mid = [v \in Worker |-> mid[v]]
        /\ IsJob(mid[w]) /\ mid[w].at = a
        /\ mid[w].sid = job[w].sid /\ mid[w].old = job[w].old
        /\ mid[w].new = job[w].new
        /\ \A v \in Worker \ {w} : mid[v] = job[v]
        BY SMTT(30) DEF Shape, IsJob
  <2>2. job' = [mid EXCEPT ![w].new = n]
        BY <1>4
  <2> HIDE DEF mid
  <2> QED BY <2>1, <2>2 DEF Now, Shape, IsJob
<1>5. ASSUME NEW a, NEW o, job' = [job EXCEPT ![w].at = a, ![w].old = o]
      PROVE  Now(w, a, job[w].sid, o, job[w].new)
  <2> DEFINE mid == [job EXCEPT ![w].at = a]
  <2>1. /\ mid = [v \in Worker |-> mid[v]]
        /\ IsJob(mid[w]) /\ mid[w].at = a
        /\ mid[w].sid = job[w].sid /\ mid[w].old = job[w].old
        /\ mid[w].new = job[w].new
        /\ \A v \in Worker \ {w} : mid[v] = job[v]
        BY SMTT(30) DEF Shape, IsJob
  <2>2. job' = [mid EXCEPT ![w].old = o]
        BY <1>5
  <2> HIDE DEF mid
  <2> QED BY <2>1, <2>2 DEF Now, Shape, IsJob
<1>6. ASSUME NEW a, NEW e, job' = [job EXCEPT ![w].at = a, ![w].evicted = e]
      PROVE  Now(w, a, job[w].sid, job[w].old, job[w].new)
  <2> DEFINE mid == [job EXCEPT ![w].at = a]
  <2>1. /\ mid = [v \in Worker |-> mid[v]]
        /\ IsJob(mid[w]) /\ mid[w].at = a
        /\ mid[w].sid = job[w].sid /\ mid[w].old = job[w].old
        /\ mid[w].new = job[w].new
        /\ \A v \in Worker \ {w} : mid[v] = job[v]
        BY SMTT(30) DEF Shape, IsJob
  <2>2. job' = [mid EXCEPT ![w].evicted = e]
        BY <1>6
  <2> HIDE DEF mid
  <2> QED BY <2>1, <2>2 DEF Now, Shape, IsJob
<1> QED BY <1>1, <1>2, <1>3, <1>4, <1>5, <1>6

\* A step that leaves the pairs generated so far as they are.
SamePairs ==
    /\ made <= made' /\ born <= born'
    /\ \A p \in 1..made : owner'[p] = owner[p] /\ from'[p] = from[p]

\* Ended sessions stay ended, and standing rows are left alone or ended.
RowsOnlyEnd == \A s \in 1..born : umb'[s] \in {0, umb[s]}

\* The pairs generated so far, as numbers.
LEMMA PairFacts ==
    ASSUME Types, Pairs
    PROVE  /\ made \in Nat
           /\ \A p \in 1..made : p \in Nat /\ p \in Pair /\ from[p] \in Nat /\ from[p] < p
<1>1. made \in Nat /\ MaxPairs \in Nat /\ made <= MaxPairs
      BY BoundAssumption DEF Types
<1>2. \A p \in 1..made : p \in Nat /\ p \in Pair
      BY <1>1, SMTT(30) DEF Pair
<1>3. \A p \in 1..made : from[p] \in Nat
      BY <1>2 DEF Types
<1> QED BY <1>1, <1>2, <1>3 DEF Pairs

\* The sessions created are in the model's bound.
LEMMA Created == Types => \A s \in 1..born : s \in Session
BY BoundAssumption, SMTT(30) DEF Types, Session

\* A step that leaves the rows alone.
LEMMA RowsSame ==
    ASSUME Inv, UNCHANGED umb
    PROVE  umb' \in [Session -> Nat] /\ RowsOnlyEnd
BY DEF Inv, Types, RowsOnlyEnd

-----------------------------------------------------------------------------
\* A request that generated a pair, and has not answered.
Making(j) ==
    j.at \in {"accessRow", "refreshRow", "push", "evict", "rotate", "retire", "undo"}

\* A request that generated the first pair of a session.
Creating(j) == Making(j) /\ j.old = 0

\* A generated pair is one request's own until it is given.
Own ==
    /\ \A w \in Worker : Making(job[w]) => job[w].new \notin given
    /\ \A v, w \in Worker :
         Making(job[v]) /\ Making(job[w]) /\ job[v].new = job[w].new => v = w

\* Every request is about a session that was created; a pair that is presented was
\* given; a pair read from the umbrella row by DestroySession belongs to the session.
Presented ==
    \A w \in Worker :
        /\ job[w].at # "idle" => job[w].sid \in 1..born
        /\ job[w].at = "fetch" \/ (Making(job[w]) /\ ~Creating(job[w])) =>
             job[w].old \in given
        /\ job[w].at \in {"unlist", "delete"} =>
             job[w].old \in 1..made /\ owner[job[w].old] = job[w].sid

\* A session under creation is known to its own request only.
Alone ==
    \A w \in Worker : Creating(job[w]) =>
        /\ \A p \in given : owner[p] # job[w].sid
        /\ \A v \in Worker \ {w} : job[v].at # "idle" => job[v].sid # job[w].sid
        /\ umb[job[w].sid] \in {0, job[w].new}

\* The pair of an exchange is in no row and in nobody's hands before the rotation,
\* and stays in the row after it until it is given.
Unseen ==
    \A w \in Worker :
        /\ job[w].at \in {"accessRow", "refreshRow", "rotate"} /\ job[w].old # 0 =>
             /\ umb[job[w].sid] # job[w].new
             /\ \A v \in Worker : job[v].at \in {"unlist", "delete"} =>
                  job[v].old # job[w].new
        /\ job[w].at = "retire" => umb[job[w].sid] \in {0, job[w].new}

\* An umbrella row names a pair of its own session.
Named ==
    \A s \in 1..born : umb[s] # 0 => umb[s] \in 1..made /\ owner[umb[s]] = s

\* A refresh token row that was written and not deleted.
Stands(p) == rt[p] \in {"live", "expired"}

\* Pairs given, or to be given whatever happens short of a fault.
ToGive == given \cup {job[w].new : w \in {v \in Worker : job[v].at \in {"push", "evict", "retire"}}}

\* CurrentPairStands, and what it takes.
Standing ==
    /\ \A s \in 1..born : umb[s] \in ToGive => Stands(umb[s])
    /\ \A w \in Worker : job[w].at = "rotate" => Stands(job[w].new)

RowTypes ==
    /\ at \in [Pair -> {"unset", "live", "expired", "deleted"}]
    /\ rt \in [Pair -> {"unset", "live", "expired", "deleted"}]
    /\ \A p \in Pair : p > made => at[p] = "unset"
    /\ faults \in Nat

RowInv ==
    /\ Own /\ Presented /\ Alone /\ Unseen /\ Named
    /\ Standing /\ RowTypes /\ SupersededClosed

LEMMA InitRowInv == Init => RowInv
<1> SUFFICES ASSUME Init PROVE RowInv
    OBVIOUS
<1>1. \A w \in Worker : job[w].at = "idle"
      BY DEF Init, Idle, Request
<1>2. Own /\ Presented /\ Alone /\ Unseen
      BY <1>1 DEF Own, Presented, Alone, Unseen, Making, Creating
<1>3. Named /\ RowTypes /\ Standing
      BY <1>1, BoundAssumption, SMTT(30) DEF Init, Named, RowTypes, Standing
<1>4. SupersededClosed
      BY SMTT(30) DEF Init, SupersededClosed
<1> QED BY <1>2, <1>3, <1>4 DEF RowInv

\* What a request that generated a pair holds.
LEMMA MakingHolds ==
    ASSUME Types, Jobs, Pairs, NEW w \in Worker, Making(job[w])
    PROVE  /\ job[w].new \in 1..made /\ job[w].new # 0
           /\ owner[job[w].new] = job[w].sid /\ job[w].sid \in 1..born
           /\ from[job[w].new] = job[w].old
<1>1. /\ job[w].new \in 1..made /\ owner[job[w].new] = job[w].sid
      /\ from[job[w].new] = job[w].old
      BY DEF Jobs, Holds, Making
<1> QED BY <1>1, SMTT(30) DEF Pairs, Types

LEMMA ToGiveMade == ASSUME Types, Jobs, Pairs PROVE ToGive \subseteq 1..made
<1> SUFFICES ASSUME NEW p \in ToGive PROVE p \in 1..made
    OBVIOUS
<1>1. CASE p \in given
      BY <1>1 DEF Types
<1>2. CASE p \notin given
  <2>1. PICK w \in Worker : job[w].at \in {"push", "evict", "retire"} /\ p = job[w].new
        BY <1>2 DEF ToGive
  <2> QED BY <2>1, MakingHolds DEF Making
<1> QED BY <1>1, <1>2

-----------------------------------------------------------------------------
\* A request ends: it hands out the pair it earned or nothing, rows end, the pairs
\* in dead are deleted.
LEMMA EndKeeps ==
    ASSUME Inv, RowInv, RowTypes', NEW w \in Worker, Now(w, "idle", 0, 0, 0),
           UNCHANGED <<born, made, owner, from>>, RowsOnlyEnd,
           \/ given' = given
           \/ given' = given \cup {job[w].new} /\ job[w].at \in {"push", "evict", "retire"},
           NEW dead,
           \A p \in 1..made : p \notin dead /\ Stands(p) => Stands(p)',
           \A s \in 1..born : umb'[s] \in dead => umb'[s] \notin ToGive,
           \A v \in Worker \ {w} : job[v].at = "rotate" => job[v].new \notin dead,
           \A p \in 1..made : at'[p] = "live" => at[p] = "live",
           faults <= faults',
           faults' = 0 /\ job[w].at = "retire" => at'[job[w].old] # "live",
           faults' = 0 /\ job[w].at \in {"rotate", "undo"} => at'[job[w].new] # "live",
           faults' = 0 => job[w].at # "refreshRow"
    PROVE  RowInv'
<1>0. /\ Types /\ Pairs /\ Jobs
      /\ Own /\ Presented /\ Alone /\ Unseen /\ Named /\ Standing /\ RowTypes /\ SupersededClosed
      BY DEF Inv, RowInv
<1>1. /\ job'[w].at = "idle"
      /\ \A v \in Worker \ {w} : job'[v] = job[v]
      BY DEF Now
<1>2. /\ \A p \in given' : p \in given \/ (p = job[w].new /\ Making(job[w]))
      /\ given \subseteq given'
      BY DEF Making
<1>3. \A s \in 1..born : umb'[s] \in {0, umb[s]}
      BY DEF RowsOnlyEnd
<1>4. \A v \in Worker : Making(job'[v]) => v # w /\ Making(job[v])
      BY <1>1 DEF Making
<1>5. Own'
      BY <1>0, <1>1, <1>2, <1>4 DEF Own
<1>6. Presented'
      BY <1>0, <1>1, <1>2, SMTT(30) DEF Presented, Making, Creating
<1>7. \A v \in Worker : Making(job[v]) =>
         job[v].new # 0 /\ job[v].sid \in 1..born /\ owner[job[v].new] = job[v].sid
      BY <1>0, MakingHolds
<1>8. Alone'
  <2> SUFFICES ASSUME NEW v \in Worker, v # w, Creating(job[v])
               PROVE  /\ \A p \in given' : owner[p] # job[v].sid
                      /\ \A u \in Worker \ {v} : job'[u].at # "idle" => job'[u].sid # job[v].sid
                      /\ umb'[job[v].sid] \in {0, job[v].new}
      BY <1>1, SMTT(30) DEF Alone, Creating, Making
  <2>1. \A p \in given' : owner[p] # job[v].sid
        BY <1>0, <1>2, <1>7, SMTT(30) DEF Alone, Making
  <2> QED BY <1>0, <1>1, <1>3, <1>7, <2>1, SMTT(30) DEF Alone, Creating
<1>9. Unseen'
  <2> SUFFICES ASSUME NEW v \in Worker, v # w
               PROVE  /\ job[v].at \in {"accessRow", "refreshRow", "rotate"} /\ job[v].old # 0 =>
                           /\ umb'[job[v].sid] # job[v].new
                           /\ \A u \in Worker : job'[u].at \in {"unlist", "delete"} =>
                                job'[u].old # job[v].new
                      /\ job[v].at = "retire" => umb'[job[v].sid] \in {0, job[v].new}
      BY <1>1, SMTT(30) DEF Unseen
  <2>1. Making(job[v]) => umb'[job[v].sid] \in {0, umb[job[v].sid]} /\ job[v].new # 0
        BY <1>3, <1>7
  <2> QED BY <1>0, <1>1, <2>1, SMTT(30) DEF Unseen, Making
<1>10. Named'
      BY <1>0, <1>3 DEF Named
<1>11. ToGive' \subseteq ToGive /\ ToGive \subseteq 1..made
      BY <1>0, <1>1, ToGiveMade, SMTT(30) DEF ToGive
<1>12. Standing'
  <2>1. ASSUME NEW s \in 1..born, umb'[s] \in ToGive'
        PROVE  Stands(umb[s])' /\ umb'[s] = umb[s]
    <3>1. umb'[s] \in 1..made /\ umb'[s] \in ToGive
          BY <1>11, <2>1
    <3>2. umb'[s] = umb[s]
          BY <1>0, <1>3, <3>1, SMTT(30) DEF Types
    <3>3. Stands(umb[s])
          BY <1>0, <3>1, <3>2 DEF Standing
    <3> DEFINE p == umb[s]
    <3>4. p \in 1..made /\ p \notin dead /\ Stands(p) /\ umb'[s] = p
          BY <3>1, <3>2, <3>3
    <3> HIDE DEF p
    <3>5. rt'[p] \in {"live", "expired"}
          BY <3>4 DEF Stands
    <3> QED BY <3>2, <3>4, <3>5 DEF Stands
  <2>2. ASSUME NEW v \in Worker, job'[v].at = "rotate"
        PROVE  Stands(job[v].new)'
    <3> DEFINE p == job[v].new
    <3>1. v # w /\ p \in 1..made /\ Stands(p) /\ job'[v].new = p /\ p \notin dead
          BY <1>0, <1>1, <2>2 DEF Standing, Jobs, Holds
    <3> HIDE DEF p
    <3>2. rt'[p] \in {"live", "expired"}
          BY <3>1 DEF Stands
    <3> QED BY <3>1, <3>2 DEF Stands
  <2> QED BY <2>1, <2>2 DEF Standing, Stands
<1>13. SupersededClosed'
  <2> SUFFICES ASSUME faults' = 0, NEW p \in 1..made, at'[p] = "live",
                      umb'[owner[p]] # 0, umb'[owner[p]] # p
               PROVE  \E v \in Worker :
                        \/ job'[v].at = "retire" /\ job'[v].old = p
                        \/ job'[v].at \in {"refreshRow", "rotate", "undo"} /\ job'[v].new = p
      BY DEF SupersededClosed, Opens
  <2>1. faults = 0 /\ at[p] = "live" /\ umb[owner[p]] # 0 /\ umb[owner[p]] # p
        BY <1>0, <1>3, SMTT(30) DEF RowTypes, Pairs
  <2>2. PICK v \in Worker :
          \/ job[v].at = "retire" /\ job[v].old = p
          \/ job[v].at \in {"refreshRow", "rotate", "undo"} /\ job[v].new = p
        BY <1>0, <2>1 DEF SupersededClosed, Opens
  <2>3. v # w
        BY <2>2
  <2> QED BY <1>1, <2>2, <2>3
<1> QED BY <1>5, <1>6, <1>8, <1>9, <1>10, <1>12, <1>13 DEF RowInv

\* A request goes on to its next command: no umbrella row moves, no pair is
\* generated or given; it may have written a token row of its own pair.
LEMMA MoveKeeps ==
    ASSUME Inv, RowInv, RowTypes', NEW w \in Worker,
           NEW a, NEW s, NEW o, NEW n, Now(w, a, s, o, n),
           UNCHANGED <<born, made, owner, from, umb, given>>,
           a \in {"accessRow", "refreshRow", "push", "evict", "rotate", "retire", "undo"} =>
             Making(job[w]) /\ n = job[w].new /\ o = job[w].old /\ s = job[w].sid,
           a = "fetch" => o \in given,
           (job[w].at # "idle" /\ s = job[w].sid) \/ \E p \in given : owner[p] = s,
           a \in {"unlist", "delete"} =>
             \/ s \in 1..born /\ o = umb[s] /\ o # 0
             \/ job[w].at = "unlist" /\ o = job[w].old /\ s = job[w].sid,
           a \in {"accessRow", "refreshRow", "rotate"} =>
             job[w].at \in {"accessRow", "refreshRow"},
           a # "retire", job[w].at # "retire",
           \A p \in 1..made : at'[p] = "live" =>
             at[p] = "live" \/ (p = job[w].new /\ a = "refreshRow"),
           \A p \in 1..made : Stands(p) => Stands(p)',
           a \in {"push", "rotate"} => rt'[n] \in {"live", "expired"},
           a = "evict" => job[w].at = "push",
           faults <= faults',
           job[w].at \in {"refreshRow", "rotate", "undo"} =>
             Creating(job[w]) \/ a \in {"refreshRow", "rotate", "undo"}
    PROVE  RowInv'
<1>0. /\ Types /\ Pairs /\ Jobs
      /\ Own /\ Presented /\ Alone /\ Unseen /\ Named /\ Standing /\ RowTypes /\ SupersededClosed
      BY DEF Inv, RowInv
<1>1. /\ job'[w].at = a /\ job'[w].sid = s /\ job'[w].old = o /\ job'[w].new = n
      /\ \A v \in Worker \ {w} : job'[v] = job[v]
      BY DEF Now
<1>2. Making(job'[w]) => /\ Making(job[w]) /\ n = job[w].new /\ o = job[w].old
                         /\ s = job[w].sid
      BY <1>1 DEF Making
<1>3. Own'
  <2>1. \A v \in Worker : Making(job'[v]) => Making(job[v]) /\ job'[v].new = job[v].new
        BY <1>1, <1>2
  <2> QED BY <1>0, <2>1 DEF Own
<1>4. /\ umb[s] \in 1..made /\ owner[umb[s]] = s
      \/ ~(s \in 1..born /\ umb[s] # 0)
      BY <1>0 DEF Named
<1>5. Presented'
  <2>1. \A v \in Worker \ {w} : job'[v] = job[v] /\ Presented
        BY <1>0, <1>1
  <2>2. (a = "fetch" \/ (Making(job'[w]) /\ ~Creating(job'[w]))) => o \in given
        BY <1>0, <1>1, <1>2 DEF Presented, Creating
  <2>3. a \in {"unlist", "delete"} => o \in 1..made /\ owner[o] = s
        BY <1>0, <1>4 DEF Presented
  <2>4. a # "idle" => s \in 1..born
        BY <1>0 DEF Presented, Pairs, Types
  <2> QED BY <1>1, <2>1, <2>2, <2>3, <2>4, SMTT(30) DEF Presented, Making, Creating
<1>6. Alone'
  <2> SUFFICES ASSUME NEW v \in Worker, Creating(job'[v])
               PROVE  /\ \A p \in given : owner[p] # job'[v].sid
                      /\ \A u \in Worker \ {v} : job'[u].at # "idle" => job'[u].sid # job'[v].sid
                      /\ umb[job'[v].sid] \in {0, job'[v].new}
      BY DEF Alone, Creating, Making
  <2>1. Creating(job[v]) /\ job'[v].sid = job[v].sid /\ job'[v].new = job[v].new
        BY <1>1, <1>2 DEF Creating
  <2>2. ASSUME NEW u \in Worker \ {v}, job'[u].at # "idle"
        PROVE  job'[u].sid # job[v].sid
    <3>1. CASE u = w
          BY <1>0, <1>1, <2>1, <3>1, SMTT(30) DEF Alone
    <3>2. CASE u # w
          BY <1>0, <1>1, <2>1, <2>2, <3>2, SMTT(30) DEF Alone
    <3> QED BY <3>1, <3>2
  <2> QED BY <1>0, <2>1, <2>2, SMTT(30) DEF Alone
<1>7. Unseen'
  <2> SUFFICES ASSUME NEW v \in Worker
               PROVE  /\ job'[v].at \in {"accessRow", "refreshRow", "rotate"} /\ job'[v].old # 0 =>
                           /\ umb[job'[v].sid] # job'[v].new
                           /\ \A u \in Worker : job'[u].at \in {"unlist", "delete"} =>
                                job'[u].old # job'[v].new
                      /\ job'[v].at = "retire" => umb[job'[v].sid] \in {0, job'[v].new}
      BY DEF Unseen
  <2>1. CASE job'[v].at = "retire"
        BY <1>0, <1>1, <2>1 DEF Unseen
  <2>2. CASE job'[v].at \in {"accessRow", "refreshRow", "rotate"} /\ job'[v].old # 0
    <3>1. /\ job[v].at \in {"accessRow", "refreshRow", "rotate"} /\ job[v].old # 0
          /\ job'[v].sid = job[v].sid /\ job'[v].new = job[v].new
          BY <1>1, <1>2, <2>2 DEF Making
    <3>2. umb[job[v].sid] # job[v].new /\ owner[job[v].new] = job[v].sid
          BY <1>0, <3>1, MakingHolds DEF Unseen, Making
    <3>3. ASSUME NEW u \in Worker, job'[u].at \in {"unlist", "delete"}
          PROVE  job'[u].old # job[v].new
      <4>1. CASE u # w
            BY <1>0, <1>1, <3>1, <3>3, <4>1, SMTT(30) DEF Unseen
      <4>2. CASE u = w
            BY <1>0, <1>1, <1>4, <3>1, <3>2, <3>3, <4>2, SMTT(30) DEF Unseen
      <4> QED BY <4>1, <4>2
    <3> QED BY <2>2, <3>1, <3>2, <3>3
  <2> QED BY <2>1, <2>2
<1>8. Named'
      BY <1>0 DEF Named
<1>9. Standing'
  <2>1. ASSUME NEW p \in ToGive', p \notin ToGive
        PROVE  rt'[p] \in {"live", "expired"}
    <3>1. PICK v \in Worker : job'[v].at \in {"push", "evict", "retire"} /\ p = job'[v].new
          BY <2>1 DEF ToGive
    <3>2. v = w
          BY <1>1, <2>1, <3>1, SMTT(30) DEF ToGive
    <3>3. a # "evict"
          BY <1>1, <2>1, <3>1, <3>2 DEF ToGive
    <3> QED BY <1>1, <3>1, <3>2, <3>3
  <2>2. ASSUME NEW t \in 1..born, umb[t] \in ToGive'
        PROVE  rt'[umb[t]] \in {"live", "expired"}
    <3> DEFINE p == umb[t]
    <3>1. p \in ToGive => p \in 1..made /\ Stands(p)
          BY <1>0, ToGiveMade DEF Standing
    <3> HIDE DEF p
    <3>2. p \in ToGive'
          BY <2>2 DEF p
    <3>3. rt'[p] \in {"live", "expired"}
          BY <2>1, <3>1, <3>2 DEF Stands
    <3> QED BY <3>3 DEF p
  <2>3. ASSUME NEW v \in Worker, job'[v].at = "rotate"
        PROVE  rt'[job'[v].new] \in {"live", "expired"}
    <3>1. CASE v = w
          BY <1>1, <2>3, <3>1
    <3>2. CASE v # w
      <4> DEFINE p == job[v].new
      <4>1. p \in 1..made /\ Stands(p) /\ job'[v].new = p
            BY <1>0, <1>1, <2>3, <3>2, MakingHolds DEF Standing, Making
      <4> HIDE DEF p
      <4> QED BY <4>1 DEF Stands
    <3> QED BY <3>1, <3>2
  <2> QED BY <2>2, <2>3 DEF Standing, Stands
<1>10. SupersededClosed'
  <2> SUFFICES ASSUME faults' = 0, NEW p \in 1..made, at'[p] = "live",
                      umb[owner[p]] # 0, umb[owner[p]] # p
               PROVE  \E v \in Worker :
                        \/ job'[v].at = "retire" /\ job'[v].old = p
                        \/ job'[v].at \in {"refreshRow", "rotate", "undo"} /\ job'[v].new = p
      BY DEF SupersededClosed, Opens
  <2>1. CASE p = job[w].new /\ a = "refreshRow"
        BY <1>1, <2>1
  <2>2. CASE at[p] = "live"
    <3>1. faults = 0
          BY <1>0, SMTT(30) DEF RowTypes
    <3>2. PICK v \in Worker :
            \/ job[v].at = "retire" /\ job[v].old = p
            \/ job[v].at \in {"refreshRow", "rotate", "undo"} /\ job[v].new = p
          BY <1>0, <2>2, <3>1 DEF SupersededClosed, Opens
    <3>3. CASE v # w
          BY <1>1, <3>2, <3>3
    <3>4. CASE v = w
      <4>1. job[w].at \in {"refreshRow", "rotate", "undo"} /\ job[w].new = p /\ Making(job[w])
            BY <3>2, <3>4 DEF Making
      <4>2. ~Creating(job[w])
            BY <1>0, <4>1, MakingHolds DEF Alone
      <4> QED BY <1>1, <4>1, <4>2
    <3> QED BY <3>3, <3>4
  <2> QED BY <2>1, <2>2
<1> QED BY <1>3, <1>5, <1>6, <1>7, <1>8, <1>9, <1>10 DEF RowInv

-----------------------------------------------------------------------------
\* Writing one token row of pair p, live, deleted or expired.
LEMMA RowWritten ==
    ASSUME RowTypes, UNCHANGED made, faults' \in Nat, NEW p \in 1..made, made <= MaxPairs,
           made \in Nat,
           NEW x \in {"live", "expired", "deleted"}, NEW y \in {"live", "expired", "deleted"},
           at' = at \/ at' = [at EXCEPT ![p] = x],
           rt' = rt \/ rt' = [rt EXCEPT ![p] = y]
    PROVE  /\ RowTypes'
           /\ \A q \in 1..made : q # p => at'[q] = at[q] /\ rt'[q] = rt[q]
           /\ at' # at => at'[p] = x
           /\ rt' # rt => rt'[p] = y
<1>1. \A q \in 1..made : q \in Pair /\ ~(q > made)
      BY BoundAssumption, SMTT(30) DEF Pair
<1>2. at' \in [Pair -> {"unset", "live", "expired", "deleted"}]
      BY <1>1 DEF RowTypes
<1>3. rt' \in [Pair -> {"unset", "live", "expired", "deleted"}]
      BY <1>1 DEF RowTypes
<1>4. \A q \in Pair : q > made => at'[q] = "unset"
      BY <1>1 DEF RowTypes
<1>5. \A q \in 1..made : q # p => at'[q] = at[q] /\ rt'[q] = rt[q]
      BY <1>1 DEF RowTypes
<1>6. (at' # at => at'[p] = x) /\ (rt' # rt => rt'[p] = y)
      BY <1>1 DEF RowTypes
<1> QED BY <1>2, <1>3, <1>4, <1>5, <1>6 DEF RowTypes

\* Every step counts the faults up or leaves them.
LEMMA FaultsCounted ==
    ASSUME RowTypes, UNCHANGED faults \/ faults' = faults + 1
    PROVE  faults' \in Nat /\ faults <= faults' /\ (faults' = 0 => UNCHANGED faults)
BY SMTT(30) DEF RowTypes

LEMMA WriteRowsKeep ==
    ASSUME Inv, RowInv, NEW w \in Worker, AccessRow(w) \/ RefreshRow(w)
    PROVE  RowInv'
<1> DEFINE n == job[w].new
<1>0. /\ Shape /\ Types /\ Pairs /\ Jobs /\ RowTypes
      /\ Making(job[w])
      BY DEF Inv, RowInv, AccessRow, RefreshRow, Making
<1>1. n \in 1..made
      BY <1>0, MakingHolds
<1>2. UNCHANGED <<born, made, owner, from, umb, given, faults>>
      BY DEF AccessRow, RefreshRow
<1>3. faults' \in Nat /\ faults <= faults' /\ made \in Nat /\ made <= MaxPairs
      BY <1>0, <1>2, SMTT(30) DEF RowTypes, Types
<1>4. CASE AccessRow(w)
  <2>1. Now(w, "refreshRow", job[w].sid, job[w].old, n)
        BY <1>0, <1>4, Wrote DEF AccessRow
  <2>2. at' = [at EXCEPT ![n] = "live"] /\ rt' = rt /\ job[w].at = "accessRow"
        BY <1>4 DEF AccessRow
  <2> HIDE DEF n
  <2>3. RowTypes' /\ \A q \in 1..made : q # n => at'[q] = at[q]
        BY <1>0, <1>1, <1>2, <1>3, <2>2, RowWritten
  <2>4. \A q \in 1..made : Stands(q) => Stands(q)'
        BY <2>2 DEF Stands
  <2> QED BY <1>0, <1>2, <1>3, <2>1, <2>2, <2>3, <2>4, MoveKeeps DEF n
<1>5. CASE RefreshRow(w)
  <2> DEFINE c == IF job[w].old = 0 THEN "push" ELSE "rotate"
  <2>1. Now(w, c, job[w].sid, job[w].old, n)
        BY <1>0, <1>5, Wrote DEF RefreshRow
  <2>2. rt' = [rt EXCEPT ![n] = "live"] /\ at' = at /\ job[w].at = "refreshRow"
        BY <1>5 DEF RefreshRow
  <2>3. c \in {"push", "rotate"} /\ (c = "push" => Creating(job[w]))
        BY <1>0 DEF Creating
  <2> HIDE DEF n, c
  <2>4. /\ RowTypes' /\ \A q \in 1..made : q # n => rt'[q] = rt[q]
        /\ rt' # rt => rt'[n] = "live"
        BY <1>0, <1>1, <1>2, <1>3, <2>2, RowWritten
  <2>5. rt'[n] = "live"
    <3>1. n \in Pair
          BY <1>0, <1>1, PairFacts
    <3> QED BY <1>0, <2>2, <3>1 DEF RowTypes
  <2>6. \A q \in 1..made : Stands(q) => Stands(q)'
        BY <2>4, <2>5 DEF Stands
  <2> QED BY <1>0, <1>2, <1>3, <2>1, <2>2, <2>3, <2>4, <2>5, <2>6, MoveKeeps DEF n
<1> QED BY <1>4, <1>5

LEMMA StartKeeps ==
    ASSUME Inv, RowInv, NEW w \in Worker, NEW p \in 1..made,
           ExtendSession(w, p) \/ Revoke(w, p)
    PROVE  RowInv'
<1>0. Shape /\ RowTypes
      BY DEF Inv, RowInv
<1>1. /\ UNCHANGED <<born, made, owner, from, umb, given, faults, at, rt>>
      /\ p \in given /\ job[w].at = "idle"
      BY DEF ExtendSession, Revoke
<1>2. RowTypes' /\ faults <= faults' /\ \A q \in 1..made : Stands(q) => Stands(q)'
      BY <1>0, <1>1, SMTT(30) DEF RowTypes, Stands
<1>3. CASE ExtendSession(w, p)
  <2>1. Now(w, "fetch", owner[p], p, 0)
        BY <1>0, <1>3, Wrote DEF ExtendSession
  <2> QED BY <1>1, <1>2, <2>1, MoveKeeps
<1>4. CASE Revoke(w, p)
  <2>1. Now(w, "owned", owner[p], 0, 0)
        BY <1>0, <1>4, Wrote DEF Revoke
  <2> QED BY <1>1, <1>2, <2>1, MoveKeeps
<1> QED BY <1>3, <1>4

\* A request ends and touches no row.
LEMMA AnswerKeeps ==
    ASSUME Inv, RowInv, NEW w \in Worker, Answer(w),
           UNCHANGED <<born, made, owner, from, umb, at, rt>>,
           \/ given' = given
           \/ given' = given \cup {job[w].new} /\ job[w].at \in {"push", "evict", "retire"},
           \/ UNCHANGED faults /\ job[w].at \notin {"refreshRow", "rotate", "retire", "undo"}
           \/ faults' = faults + 1
    PROVE  RowInv'
<1>0. Shape /\ RowTypes
      BY DEF Inv, RowInv
<1>1. Now(w, "idle", 0, 0, 0)
      BY <1>0, Wrote
<1>2. faults' \in Nat /\ faults <= faults' /\ (faults' = 0 => UNCHANGED faults)
      BY <1>0, FaultsCounted
<1>3. faults' = 0 => job[w].at \notin {"refreshRow", "rotate", "retire", "undo"}
      BY <1>0, <1>2, SMTT(30) DEF RowTypes
<1>4. RowTypes' /\ RowsOnlyEnd
      BY <1>0, <1>2 DEF RowTypes, RowsOnlyEnd
<1> DEFINE none == {}
<1>5. \A p : p \notin none
      OBVIOUS
<1> HIDE DEF none
<1>6. \A p \in 1..made : p \notin none /\ Stands(p) => Stands(p)'
      BY DEF Stands
<1>7. /\ \A s \in 1..born : umb'[s] \in none => umb'[s] \notin ToGive
      /\ \A v \in Worker \ {w} : job[v].at = "rotate" => job[v].new \notin none
      BY <1>5
<1> QED BY <1>1, <1>2, <1>3, <1>4, <1>6, <1>7, EndKeeps

\* A request goes on and touches no row.
LEMMA GoOnKeeps ==
    ASSUME Inv, RowInv, NEW w \in Worker, NEW a, NEW o,
           Now(w, a, job[w].sid, o, job[w].new),
           UNCHANGED <<born, made, owner, from, umb, given, at, rt>>,
           UNCHANGED faults \/ faults' = faults + 1,
           job[w].at # "idle",
           \/ /\ job[w].at \in {"fetch", "owned"} /\ a = "destroy"
           \/ /\ job[w].at = "destroy" /\ a = "unlist"
              /\ job[w].sid \in 1..born /\ o = umb[job[w].sid] /\ o # 0
           \/ /\ job[w].at = "unlist" /\ a = "delete" /\ o = job[w].old
           \/ /\ job[w].at = "rotate" /\ a = "undo" /\ o = job[w].old
           \/ /\ job[w].at = "push" /\ a = "evict" /\ o = job[w].old
    PROVE  RowInv'
<1>0. RowTypes
      BY DEF RowInv
<1>1. faults' \in Nat /\ faults <= faults'
      BY <1>0, FaultsCounted
<1>2. RowTypes' /\ \A q \in 1..made : Stands(q) => Stands(q)'
      BY <1>0, <1>1 DEF RowTypes, Stands
<1>3. job[w].at \in {"refreshRow", "rotate", "undo"} =>
        Creating(job[w]) \/ a \in {"refreshRow", "rotate", "undo"}
      OBVIOUS
<1>4. job[w].at \in {"rotate", "push"} => Making(job[w])
      BY DEF Making
<1> QED BY <1>1, <1>2, <1>3, <1>4, MoveKeeps

LEMMA PushKeeps ==
    ASSUME Inv, RowInv, NEW w \in Worker, Push(w) \/ PushResent(w)
    PROVE  RowInv'
<1>1. /\ UNCHANGED faults \/ faults' = faults + 1
      /\ job[w].at = "push" /\ \E l : PushOnto(w, l)
      BY DEF Push, PushResent
<1>2. PICK l : PushOnto(w, l)
      BY <1>1
<1>3. UNCHANGED <<born, made, owner, from, umb, at, rt>>
      BY <1>2 DEF PushOnto
<1>4. CASE Evicted(Pushed(w, l)) = <<>>
  <2>1. given' = given \cup {job[w].new} /\ Answer(w)
        BY <1>2, <1>4 DEF PushOnto
  <2> QED BY <1>1, <1>3, <2>1, AnswerKeeps
<1>5. CASE Evicted(Pushed(w, l)) # <<>>
  <2>1. given' = given /\ Now(w, "evict", job[w].sid, job[w].old, job[w].new)
        BY <1>2, <1>5, Wrote DEF PushOnto, Inv
  <2> QED BY <1>1, <1>3, <2>1, GoOnKeeps
<1> QED BY <1>4, <1>5

LEMMA EvictKeeps ==
    ASSUME Inv, RowInv, NEW w \in Worker, Evict(w)
    PROVE  RowInv'
<1>0. Shape /\ RowTypes /\ Types
      BY DEF Inv, RowInv
<1>1. /\ UNCHANGED <<born, made, owner, from, at, rt, faults>> /\ job[w].at = "evict"
      /\ given' = given \cup {job[w].new}
      BY DEF Evict
<1>2. Now(w, "idle", 0, 0, 0)
      BY <1>0, Wrote DEF Evict
<1>3. RowsOnlyEnd
  <2> DEFINE gone == Range(job[w].evicted)
  <2>1. umb' = [s \in Session |-> IF s \in gone THEN 0 ELSE umb[s]]
        BY DEF Evict
  <2> HIDE DEF gone
  <2> QED BY <1>0, <2>1, Created DEF RowsOnlyEnd
<1>4. RowTypes' /\ faults <= faults'
      BY <1>0, <1>1, SMTT(30) DEF RowTypes
<1> DEFINE none == {}
<1>5. \A p : p \notin none
      OBVIOUS
<1> HIDE DEF none
<1>6. \A p \in 1..made : p \notin none /\ Stands(p) => Stands(p)'
      BY <1>1 DEF Stands
<1>7. /\ \A s \in 1..born : umb'[s] \in none => umb'[s] \notin ToGive
      /\ \A v \in Worker \ {w} : job[v].at = "rotate" => job[v].new \notin none
      BY <1>5
<1> QED BY <1>1, <1>2, <1>3, <1>4, <1>6, <1>7, EndKeeps

\* A request that deletes the rows of a pair that no session names, or that no
\* client will be given, and ends.
LEMMA DeleteKeeps ==
    ASSUME Inv, RowInv, NEW w \in Worker, Answer(w), NEW p \in 1..made, DeleteTokenRows(p),
           UNCHANGED <<born, made, owner, from, faults>>, RowsOnlyEnd,
           \/ given' = given
           \/ given' = given \cup {job[w].new} /\ job[w].at \in {"push", "evict", "retire"},
           p \in ToGive => \A s \in 1..born : umb'[s] # p,
           \A v \in Worker \ {w} : job[v].at = "rotate" => job[v].new # p,
           job[w].at = "retire" => job[w].old = p,
           job[w].at = "undo" => job[w].new = p,
           job[w].at \notin {"refreshRow", "rotate"}
    PROVE  RowInv'
<1>0. Shape /\ RowTypes /\ Types
      BY DEF Inv, RowInv
<1>1. Now(w, "idle", 0, 0, 0)
      BY <1>0, Wrote
<1>2. /\ faults' \in Nat /\ faults <= faults' /\ made \in Nat /\ made <= MaxPairs
      BY <1>0, SMTT(30) DEF RowTypes, Types
<1>3. at' = [at EXCEPT ![p] = "deleted"] /\ rt' = [rt EXCEPT ![p] = "deleted"]
      BY DEF DeleteTokenRows
<1>4. /\ RowTypes'
      /\ \A q \in 1..made : q # p => at'[q] = at[q] /\ rt'[q] = rt[q]
      /\ at' # at => at'[p] = "deleted"
      BY <1>0, <1>2, <1>3, RowWritten
<1>5. at'[p] = "deleted"
  <2>1. p \in Pair
        BY <1>2, BoundAssumption, SMTT(30) DEF Pair
  <2> QED BY <1>0, <1>3, <2>1 DEF RowTypes
<1> DEFINE dead == {p}
<1>6. \A q \in 1..made : q \notin dead /\ Stands(q) => Stands(q)'
      BY <1>4 DEF Stands
<1>7. /\ \A s \in 1..born : umb'[s] \in dead => umb'[s] \notin ToGive
      /\ \A v \in Worker \ {w} : job[v].at = "rotate" => job[v].new \notin dead
      OBVIOUS
<1>8. \A q \in 1..made : at'[q] = "live" => at[q] = "live"
      BY <1>4, <1>5
<1> HIDE DEF dead
<1> QED BY <1>1, <1>2, <1>4, <1>5, <1>6, <1>7, <1>8, EndKeeps

LEMMA RetireKeeps ==
    ASSUME Inv, RowInv, NEW w \in Worker, Retire(w)
    PROVE  RowInv'
<1>0. Types /\ Pairs /\ Jobs /\ Own /\ Presented /\ Unseen /\ Named
      BY DEF Inv, RowInv
<1>1. /\ job[w].at = "retire" /\ DeleteTokenRows(job[w].old) /\ Answer(w)
      /\ given' = given \cup {job[w].new}
      /\ UNCHANGED <<born, made, umb, owner, from, faults>>
      BY DEF Retire
<1> DEFINE o == job[w].old
           n == job[w].new
           s == job[w].sid
<1>2. /\ n \in 1..made /\ owner[n] = s /\ from[n] = o /\ o # 0 /\ o \in given
      /\ umb[s] \in {0, n}
      BY <1>0, <1>1, MakingHolds DEF Jobs, Holds, Making, Creating, Presented, Unseen
<1>3. \A v \in Worker : job[v].at = "rotate" => job[v].new \notin given
      BY <1>0 DEF Own, Making
<1>4. DeleteTokenRows(o)
      BY <1>1
<1>5. o \in 1..made /\ owner[o] = s /\ o # n
      BY <1>0, <1>2, PairFacts, SMTT(30) DEF Pairs, Types
<1>6. \A t \in 1..born : umb[t] # o
      BY <1>0, <1>2, <1>5 DEF Named
<1> HIDE DEF o
<1>7. job[w].old = o
      BY DEF o
<1> QED BY <1>1, <1>2, <1>3, <1>4, <1>5, <1>6, <1>7, RowsSame, DeleteKeeps, SMTT(30)

LEMMA UndoKeeps ==
    ASSUME Inv, RowInv, NEW w \in Worker, Undo(w)
    PROVE  RowInv'
<1>0. Types /\ Pairs /\ Jobs /\ Own
      BY DEF Inv, RowInv
<1>1. /\ job[w].at = "undo" /\ DeleteTokenRows(job[w].new) /\ Answer(w)
      /\ UNCHANGED <<born, made, umb, owner, from, faults, given>>
      BY DEF Undo
<1> DEFINE n == job[w].new
<1>2. n \in 1..made /\ Making(job[w]) /\ n \notin given
      BY <1>0, <1>1, MakingHolds DEF Making, Own
<1>3. \A v \in Worker \ {w} : Making(job[v]) => job[v].new # n
      BY <1>0, <1>2 DEF Own
<1>4. n \notin ToGive
      BY <1>1, <1>2, <1>3 DEF ToGive, Making
<1>5. \A v \in Worker \ {w} : job[v].at = "rotate" => job[v].new # n
      BY <1>3 DEF Making
<1>6. DeleteTokenRows(n)
      BY <1>1
<1> HIDE DEF n
<1>7. job[w].new = n
      BY DEF n
<1> QED BY <1>1, <1>2, <1>4, <1>5, <1>6, <1>7, RowsSame, DeleteKeeps

LEMMA DestroyKeeps ==
    ASSUME Inv, RowInv, NEW w \in Worker, DeleteRows(w)
    PROVE  RowInv'
<1>0. Types /\ Pairs /\ Jobs /\ Presented /\ Unseen /\ Named
      BY DEF Inv, RowInv
<1>1. /\ job[w].at = "delete" /\ DeleteTokenRows(job[w].old) /\ Answer(w)
      /\ umb' = [umb EXCEPT ![job[w].sid] = 0]
      /\ UNCHANGED <<born, made, owner, from, faults, given>>
      BY DEF DeleteRows
<1> DEFINE o == job[w].old
           s == job[w].sid
<1>2. o \in 1..made /\ owner[o] = s /\ s \in 1..born
      BY <1>0, <1>1 DEF Presented
<1>3. /\ RowsOnlyEnd /\ umb'[s] = 0
      /\ \A t \in 1..born : t # s => umb'[t] = umb[t]
  <2>1. umb \in [Session -> Nat] /\ \A t \in 1..born : t \in Session
        BY <1>0, Created DEF Types
  <2> QED BY <1>1, <1>2, <2>1 DEF RowsOnlyEnd
<1>4. \A v \in Worker : job[v].at = "rotate" => job[v].new # o
      BY <1>0, <1>1 DEF Unseen, Jobs, Holds
<1>5. o # 0
      BY <1>0, <1>2, SMTT(30) DEF Types
<1>6. \A t \in 1..born : umb'[t] # o
      BY <1>0, <1>2, <1>3, <1>5 DEF Named
<1>7. DeleteTokenRows(o)
      BY <1>1
<1> HIDE DEF o
<1>8. job[w].old = o
      BY DEF o
<1> QED BY <1>1, <1>2, <1>3, <1>4, <1>6, <1>7, <1>8, DeleteKeeps

\* The steps of a request that touch no row and generate nothing.
LEMMA PlainKeeps ==
    ASSUME Inv, RowInv, NEW w \in Worker,
           Owned(w) \/ DestroySession(w) \/ Unlist(w) \/ Cut(w) \/ Ignored(w)
    PROVE  RowInv'
<1>0. Shape /\ Presented
      BY DEF Inv, RowInv
<1>1. /\ UNCHANGED <<born, made, owner, from, umb, at, rt>>
      /\ job[w].at # "idle"
      BY DEF Owned, DestroySession, Unlist, Cut, Ignored
<1>2. CASE Answer(w)
  <2>1. /\ \/ given' = given
           \/ given' = given \cup {job[w].new} /\ job[w].at \in {"push", "evict", "retire"}
        /\ \/ UNCHANGED faults /\ job[w].at \notin {"refreshRow", "rotate", "retire", "undo"}
           \/ faults' = faults + 1
    <3>1. CASE Owned(w) \/ DestroySession(w) \/ Cut(w)
          BY <3>1 DEF Owned, DestroySession, Cut
    <3>2. CASE Ignored(w)
          BY <3>2 DEF Ignored
    <3>3. CASE Unlist(w)
          BY <3>3 DEF Unlist
    <3> QED BY <3>1, <3>2, <3>3
  <2> QED BY <1>1, <1>2, <2>1, AnswerKeeps
<1>3. CASE job[w].at = "owned" /\ GoTo(w, "destroy") /\ UNCHANGED <<given, faults>>
  <2>1. Now(w, "destroy", job[w].sid, job[w].old, job[w].new)
        BY <1>0, <1>3, Wrote
  <2> QED BY <1>1, <1>3, <2>1, GoOnKeeps
<1>4. CASE /\ job[w].at = "destroy" /\ umb[job[w].sid] # 0 /\ UNCHANGED <<given, faults>>
           /\ job' = [job EXCEPT ![w].at = "unlist", ![w].old = umb[job[w].sid]]
  <2>1. Now(w, "unlist", job[w].sid, umb[job[w].sid], job[w].new)
        BY <1>0, <1>4, Wrote
  <2>2. job[w].sid \in 1..born
        BY <1>0, <1>1 DEF Presented
  <2> QED BY <1>1, <1>4, <2>1, <2>2, GoOnKeeps
<1>5. CASE /\ job[w].at = "unlist" /\ GoTo(w, "delete") /\ UNCHANGED given
           /\ UNCHANGED faults \/ faults' = faults + 1
  <2>1. Now(w, "delete", job[w].sid, job[w].old, job[w].new)
        BY <1>0, <1>5, Wrote
  <2> QED BY <1>1, <1>5, <2>1, GoOnKeeps
<1>6. CASE Owned(w)
      BY <1>2, <1>3, <1>6 DEF Owned
<1>7. CASE DestroySession(w)
      BY <1>2, <1>4, <1>7 DEF DestroySession
<1>8. CASE Unlist(w)
      BY <1>5, <1>8 DEF Unlist
<1>9. CASE Cut(w)
      BY <1>2, <1>9 DEF Cut
<1>10. CASE Ignored(w)
      BY <1>2, <1>5, <1>10 DEF Ignored
<1> QED BY <1>6, <1>7, <1>8, <1>9, <1>10

-----------------------------------------------------------------------------
\* A request generates a pair, the first of a new session or in exchange for one
\* that was given.
LEMMA GenerateKeeps ==
    ASSUME Inv, RowInv, SamePairs, born \in Nat, born' \in Nat, NEW w \in Worker, NEW s, NEW o,
           Now(w, "accessRow", s, o, made + 1), made' = made + 1, made + 1 <= MaxPairs, s \in 1..born',
           owner'[made + 1] = s, job[w].at \in {"idle", "fetch"},
           UNCHANGED <<given, at, rt, faults>>,
           \A t \in 1..born : umb'[t] = umb[t],
           \/ o = 0 /\ s = born + 1 /\ born' = born + 1 /\ umb'[s] = made + 1
           \/ o \in given /\ s = job[w].sid /\ job[w].at = "fetch" /\ born' = born
    PROVE  RowInv'
<1>0. /\ Types /\ Pairs /\ Jobs
      /\ Own /\ Presented /\ Alone /\ Unseen /\ Named /\ Standing /\ RowTypes /\ SupersededClosed
      BY DEF Inv, RowInv
<1>1. /\ job'[w].at = "accessRow" /\ job'[w].sid = s /\ job'[w].old = o /\ job'[w].new = made + 1
      /\ \A v \in Worker \ {w} : job'[v] = job[v]
      BY DEF Now
<1>2. /\ made \in Nat /\ made + 1 # 0 /\ made + 1 \notin 1..made /\ given \subseteq 1..made
      /\ \A p \in 1..made : p \in 1..(made + 1)
      /\ \A p \in 1..(made + 1) : p \in 1..made \/ p = made + 1
      BY <1>0, SMTT(30) DEF Types
<1>3. \A p \in 1..made : owner'[p] = owner[p] /\ owner[p] \in 1..born
      BY <1>0 DEF SamePairs, Pairs
<1>4. /\ born + 1 \notin 1..born
      /\ \A t \in 1..born : t \in 1..born'
      /\ \A t \in 1..born' : t \in 1..born \/ (t = s /\ umb'[t] = made + 1)
      BY SMTT(30)
<1>5. \A v \in Worker : Making(job[v]) =>
         /\ v # w /\ job[v].new \in 1..made /\ job[v].new # 0 /\ job[v].sid \in 1..born
         /\ owner[job[v].new] = job[v].sid
      BY <1>0, MakingHolds DEF Making
<1>6. Own'
  <2>1. \A v \in Worker : Making(job'[v]) => job'[v].new \notin given
        BY <1>0, <1>1, <1>2 DEF Own
  <2>2. ASSUME NEW u \in Worker, NEW v \in Worker, Making(job'[u]), Making(job'[v]),
               job'[u].new = job'[v].new
        PROVE  u = v
        BY <1>0, <1>1, <1>2, <1>5, <2>2, SMTT(30) DEF Own
  <2> QED BY <2>1, <2>2 DEF Own, Making
<1>7. Presented'
  <2>1. ASSUME NEW v \in Worker \ {w}
        PROVE  /\ job[v].at # "idle" => job[v].sid \in 1..born'
               /\ job[v].at = "fetch" \/ (Making(job[v]) /\ ~Creating(job[v])) =>
                    job[v].old \in given
               /\ job[v].at \in {"unlist", "delete"} =>
                    job[v].old \in 1..made' /\ owner'[job[v].old] = job[v].sid
        BY <1>0, <1>2, <1>3, <1>4 DEF Presented
  <2>2. Making(job'[w]) /\ ~Creating(job'[w]) => o \in given
        BY <1>1 DEF Creating
  <2> QED BY <1>1, <2>1, <2>2, SMTT(30) DEF Presented, Making, Creating
<1>8. \A v \in Worker \ {w} : job[v].at # "idle" => job[v].sid \in 1..born
      BY <1>0 DEF Presented
<1>9. Alone'
  <2> SUFFICES ASSUME NEW v \in Worker, Creating(job'[v])
               PROVE  /\ \A p \in given : owner'[p] # job'[v].sid
                      /\ \A u \in Worker \ {v} : job'[u].at # "idle" => job'[u].sid # job'[v].sid
                      /\ umb'[job'[v].sid] \in {0, job'[v].new}
      BY DEF Alone, Creating, Making
  <2>1. CASE v = w
    <3>0. o = 0 /\ 0 \notin given
          BY <1>1, <1>2, <2>1, SMTT(30) DEF Creating
    <3>1. s = born + 1 /\ umb'[s] = made + 1
          BY <3>0
    <3> QED BY <1>1, <1>2, <1>3, <1>4, <1>8, <2>1, <3>1, SMTT(30)
  <2>2. CASE v # w
    <3>1. Creating(job[v]) /\ job'[v] = job[v] /\ job[v].sid \in 1..born
          BY <1>1, <1>5, <2>2 DEF Creating
    <3>2. /\ \A p \in given : owner[p] # job[v].sid
          /\ \A u \in Worker \ {v} : job[u].at # "idle" => job[u].sid # job[v].sid
          /\ umb[job[v].sid] \in {0, job[v].new}
          BY <1>0, <3>1 DEF Alone
    <3>3. s # job[v].sid
          BY <1>4, <2>2, <3>1, <3>2
    <3>4. umb'[job[v].sid] = umb[job[v].sid]
          BY <1>2, <3>1, <3>3
    <3>5. \A p \in given : owner'[p] = owner[p]
          BY <1>2, <1>3
    <3>6. \A u \in Worker \ {v} : job'[u].at # "idle" => job'[u].sid # job[v].sid
          BY <1>1, <3>2, <3>3
    <3> QED BY <3>1, <3>2, <3>4, <3>5, <3>6
  <2> QED BY <2>1, <2>2
<1>10. Unseen'
  <2> SUFFICES ASSUME NEW v \in Worker
               PROVE  /\ job'[v].at \in {"accessRow", "refreshRow", "rotate"} /\ job'[v].old # 0 =>
                           /\ umb'[job'[v].sid] # job'[v].new
                           /\ \A u \in Worker : job'[u].at \in {"unlist", "delete"} =>
                                job'[u].old # job'[v].new
                      /\ job'[v].at = "retire" => umb'[job'[v].sid] \in {0, job'[v].new}
      BY DEF Unseen
  <2>1. CASE v = w
    <3>1. o # 0 => s \in 1..born /\ umb'[s] = umb[s]
          BY <1>0 DEF Presented
    <3>2. o # 0 => umb'[s] # made + 1
          BY <1>0, <1>2, <3>1, SMTT(30) DEF Named
    <3>3. \A u \in Worker : job'[u].at \in {"unlist", "delete"} => job'[u].old # made + 1
          BY <1>0, <1>1, <1>2, SMTT(30) DEF Presented
    <3> QED BY <1>1, <2>1, <3>2, <3>3
  <2>2. CASE v # w
    <3>1. job'[v] = job[v] /\ (Making(job[v]) => umb'[job[v].sid] = umb[job[v].sid])
          BY <1>1, <1>5, <2>2
    <3>2. \A u \in Worker : job'[u].at \in {"unlist", "delete"} => job'[u] = job[u]
          BY <1>1
    <3> QED BY <1>0, <3>1, <3>2 DEF Unseen, Making
  <2> QED BY <2>1, <2>2
<1>11. Named'
      BY <1>0, <1>2, <1>3, <1>4, SMTT(30) DEF Named
<1>12. ToGive' = ToGive /\ ToGive \subseteq 1..made
      BY <1>0, <1>1, ToGiveMade, SMTT(30) DEF ToGive
<1>13. Standing'
  <2>1. \A t \in 1..born' : umb'[t] \in ToGive => t \in 1..born /\ umb'[t] = umb[t]
        BY <1>2, <1>4, <1>12
  <2>2. \A v \in Worker : job'[v].at = "rotate" => job'[v] = job[v]
        BY <1>1
  <2> QED BY <1>0, <1>12, <2>1, <2>2 DEF Standing, Stands
<1>14. RowTypes'
      BY <1>0, <1>2, SMTT(30) DEF RowTypes, Pair
<1>15. SupersededClosed'
  <2> SUFFICES ASSUME faults = 0, NEW p \in 1..(made + 1), at[p] = "live",
                      umb'[owner'[p]] # 0, umb'[owner'[p]] # p
               PROVE  \E v \in Worker :
                        \/ job'[v].at = "retire" /\ job'[v].old = p
                        \/ job'[v].at \in {"refreshRow", "rotate", "undo"} /\ job'[v].new = p
      BY DEF SupersededClosed, Opens
  <2>1. p \in 1..made
    <3>1. made + 1 > made /\ (p = made + 1 => p \in Pair)
          BY <1>2, BoundAssumption, SMTT(30) DEF Pair
    <3> QED BY <1>0, <1>2, <3>1 DEF RowTypes
  <2>2. umb[owner[p]] # 0 /\ umb[owner[p]] # p
        BY <1>3, <2>1
  <2>3. PICK v \in Worker :
          \/ job[v].at = "retire" /\ job[v].old = p
          \/ job[v].at \in {"refreshRow", "rotate", "undo"} /\ job[v].new = p
        BY <1>0, <2>1, <2>2 DEF SupersededClosed, Opens
  <2> QED BY <1>1, <2>3
<1> QED BY <1>6, <1>7, <1>9, <1>10, <1>11, <1>13, <1>14, <1>15 DEF RowInv

LEMMA CreateKeeps ==
    ASSUME Inv, RowInv, NEW w \in Worker, CreateSession(w)
    PROVE  RowInv'
<1>0. Shape /\ Types /\ Pairs
      BY DEF Inv
<1>1. /\ born \in Nat /\ born' = born + 1 /\ born + 1 <= MaxSessions
      /\ Generate(born + 1, 0) /\ UNCHANGED <<given, at, rt, faults>>
      /\ umb' = [umb EXCEPT ![born + 1] = made + 1] /\ made \in Nat
      /\ job[w].at = "idle"
      BY <1>0, BoundAssumption, SMTT(30) DEF CreateSession, Types
<1> DEFINE s == born + 1
<1>2. s \in 1..born' /\ born' \in Nat /\ s \in Session /\ \A t \in 1..born : t # s
      BY <1>1, BoundAssumption, SMTT(30) DEF Session
<1>3. umb'[s] = made + 1 /\ \A t \in 1..born : umb'[t] = umb[t]
      BY <1>0, <1>1, <1>2, Created DEF Types
<1>4. /\ made' = made + 1 /\ made + 1 <= MaxPairs /\ made + 1 \in Pair
      /\ owner' = [owner EXCEPT ![made + 1] = s] /\ from' = [from EXCEPT ![made + 1] = 0]
      BY <1>1, BoundAssumption, SMTT(30) DEF Generate, Pair
<1>5. SamePairs /\ owner'[made + 1] = s
  <2>1. \A p \in 1..made : p # made + 1 /\ p \in Pair
        BY <1>0, PairFacts, SMTT(30)
  <2> QED BY <1>0, <1>1, <1>4, <2>1, SMTT(30) DEF SamePairs, Types
<1>6. Now(w, "accessRow", s, 0, made + 1)
      BY <1>0, Wrote DEF CreateSession
<1>7. s = born + 1
      OBVIOUS
<1> HIDE DEF s
<1> QED BY <1>1, <1>2, <1>3, <1>4, <1>5, <1>6, <1>7, GenerateKeeps

LEMMA FetchKeeps ==
    ASSUME Inv, RowInv, NEW w \in Worker, FetchSession(w)
    PROVE  RowInv'
<1>0. Shape /\ Types /\ Pairs /\ Presented
      BY DEF Inv, RowInv
<1>1. UNCHANGED <<born, umb, given, at, rt, faults>> /\ job[w].at = "fetch"
      BY DEF FetchSession
<1>2. CASE Answer(w) /\ UNCHANGED <<made, owner, from>>
      BY <1>1, <1>2, AnswerKeeps
<1>3. CASE GoTo(w, "destroy") /\ UNCHANGED <<made, owner, from>>
  <2>1. Now(w, "destroy", job[w].sid, job[w].old, job[w].new)
        BY <1>0, <1>3, Wrote
  <2> QED BY <1>1, <1>3, <2>1, GoOnKeeps
<1>4. CASE /\ Generate(job[w].sid, job[w].old)
           /\ job' = [job EXCEPT ![w].at = "accessRow", ![w].new = made + 1]
  <2> DEFINE s == job[w].sid
             o == job[w].old
  <2>1. o \in given /\ s \in 1..born
        BY <1>0, <1>1 DEF Presented
  <2>2. /\ made \in Nat /\ made' = made + 1 /\ made + 1 <= MaxPairs /\ made + 1 \in Pair
        /\ owner' = [owner EXCEPT ![made + 1] = s] /\ from' = [from EXCEPT ![made + 1] = o]
        BY <1>0, <1>4, BoundAssumption, SMTT(30) DEF Generate, Pair, Types
  <2>3. SamePairs /\ owner'[made + 1] = s
    <3>1. \A p \in 1..made : p # made + 1 /\ p \in Pair
          BY <1>0, PairFacts, SMTT(30)
    <3> QED BY <1>0, <1>1, <2>2, <3>1, SMTT(30) DEF SamePairs, Types
  <2>4. Now(w, "accessRow", s, o, made + 1)
        BY <1>0, <1>4, Wrote
  <2>5. born \in Nat /\ s = job[w].sid
        BY <1>0 DEF Types
  <2> HIDE DEF s, o
  <2> QED BY <1>1, <2>1, <2>2, <2>3, <2>4, <2>5, GenerateKeeps
<1> QED BY <1>2, <1>3, <1>4 DEF FetchSession

\* The rotation that wins: the row it moves named a pair that was given, so no
\* other request was about to give that one.
LEMMA RotateWinKeeps ==
    ASSUME Inv, RowInv, NEW w \in Worker, job[w].at = "rotate", Matches(w),
           umb' = [umb EXCEPT ![job[w].sid] = job[w].new],
           UNCHANGED <<born, made, owner, from, given, at, rt>>,
           NEW c \in {"retire", "undo"}, GoTo(w, c),
           UNCHANGED faults \/ faults' = faults + 1, c = "undo" => faults' # 0
    PROVE  RowInv'
<1> DEFINE s == job[w].sid
           o == job[w].old
           n == job[w].new
<1>0. /\ Shape /\ Types /\ Pairs /\ Jobs
      /\ Own /\ Presented /\ Alone /\ Unseen /\ Named /\ Standing /\ RowTypes /\ SupersededClosed
      BY DEF Inv, RowInv
<1>1. /\ n \in 1..made /\ owner[n] = s /\ o # 0 /\ o \in given /\ s \in 1..born
      /\ n # 0 /\ Making(job[w]) /\ ~Creating(job[w])
      BY <1>0, MakingHolds DEF Jobs, Holds, Making, Creating, Presented
<1>2. umb[s] = o
      BY DEF Matches
<1>3. Now(w, c, s, o, n)
      BY <1>0, Wrote
<1>4. umb'[s] = n /\ \A t \in 1..born : t # s => umb'[t] = umb[t]
      BY <1>0, <1>1, Created DEF Types
<1>5. /\ job'[w].at = c /\ job'[w].sid = s /\ job'[w].old = o /\ job'[w].new = n
      /\ \A v \in Worker \ {w} : job'[v] = job[v]
      BY <1>3 DEF Now
<1>6. job[w].new = n /\ job[w].at = "rotate" /\ job[w].sid = s /\ job[w].old = o
      OBVIOUS
<1>7. Stands(n)
      BY <1>0 DEF Standing
<1> HIDE DEF s, o, n
<1>8. \A v \in Worker : (Making(job'[v]) <=> Making(job[v])) /\ job'[v].new = job[v].new
                        /\ job'[v].old = job[v].old /\ job'[v].sid = job[v].sid
  <2>1. Making(job'[w])
        BY <1>5 DEF Making
  <2>2. \A v \in Worker \ {w} : job'[v] = job[v]
        BY <1>5
  <2>3. /\ job'[w].new = job[w].new /\ job'[w].old = job[w].old /\ job'[w].sid = job[w].sid
        BY <1>5, <1>6
  <2> QED BY <1>1, <2>1, <2>2, <2>3
<1>9. Own'
      BY <1>0, <1>8, SMTT(30) DEF Own, Making
<1>10. Presented'
      BY <1>0, <1>1, <1>5, <1>6 DEF Presented, Making, Creating
<1>11. Alone'
  <2> SUFFICES ASSUME NEW v \in Worker, Creating(job'[v])
               PROVE  /\ \A p \in given : owner[p] # job'[v].sid
                      /\ \A u \in Worker \ {v} : job'[u].at # "idle" => job'[u].sid # job'[v].sid
                      /\ umb'[job'[v].sid] \in {0, job'[v].new}
      BY DEF Alone, Creating, Making
  <2>1. Creating(job[v]) /\ v # w /\ job'[v] = job[v] /\ job[v].sid \in 1..born
        BY <1>0, <1>1, <1>5, <1>8, MakingHolds DEF Creating
  <2>2. job[v].sid # s
        BY <1>0, <1>6, <2>1 DEF Alone
  <2>3. umb'[job[v].sid] = umb[job[v].sid]
        BY <1>4, <2>1, <2>2
  <2>4. \A u \in Worker \ {v} : job'[u].at # "idle" => job[u].at # "idle"
        BY <1>5, <1>6
  <2>5. /\ \A p \in given : owner[p] # job[v].sid
        /\ \A u \in Worker \ {v} : job[u].at # "idle" => job[u].sid # job[v].sid
        /\ umb[job[v].sid] \in {0, job[v].new}
        BY <1>0, <2>1 DEF Alone
  <2>6. \A u \in Worker \ {v} : job'[u].sid = job[u].sid
        BY <1>8
  <2> QED BY <2>1, <2>3, <2>4, <2>5, <2>6
<1>12. Unseen'
  <2> SUFFICES ASSUME NEW v \in Worker
               PROVE  /\ job'[v].at \in {"accessRow", "refreshRow", "rotate"} /\ job'[v].old # 0 =>
                           /\ umb'[job'[v].sid] # job'[v].new
                           /\ \A u \in Worker : job'[u].at \in {"unlist", "delete"} =>
                                job'[u].old # job'[v].new
                      /\ job'[v].at = "retire" => umb'[job'[v].sid] \in {0, job'[v].new}
      BY DEF Unseen
  <2>1. CASE v = w
        BY <1>4, <1>5, <2>1
  <2>2. CASE v # w
    <3>1. job'[v] = job[v] /\ (Making(job[v]) => job[v].new # n /\ job[v].sid \in 1..born)
          BY <1>0, <1>1, <1>5, <1>6, <2>2, MakingHolds DEF Own
    <3>2. \A u \in Worker : job'[u].at \in {"unlist", "delete"} => job'[u] = job[u]
          BY <1>5
    <3>3. job[v].at = "retire" => job[v].sid # s
      <4>1. job[v].at = "retire" => job[v].new \notin given /\ umb[job[v].sid] \in {0, job[v].new}
            BY <1>0 DEF Own, Making, Unseen
      <4> QED BY <1>1, <1>2, <4>1
    <3>4. job[v].at \in {"accessRow", "refreshRow", "rotate"} => Making(job[v])
          BY DEF Making
    <3>5. job[v].at = "retire" => Making(job[v])
          BY DEF Making
    <3>6. /\ job[v].at \in {"accessRow", "refreshRow", "rotate"} /\ job[v].old # 0 =>
               /\ umb[job[v].sid] # job[v].new
               /\ \A u \in Worker : job[u].at \in {"unlist", "delete"} =>
                    job[u].old # job[v].new
          /\ job[v].at = "retire" => umb[job[v].sid] \in {0, job[v].new}
          BY <1>0 DEF Unseen
    <3>7. ASSUME job[v].at \in {"accessRow", "refreshRow", "rotate"}, job[v].old # 0
          PROVE  umb'[job[v].sid] # job[v].new
          BY <1>4, <3>1, <3>4, <3>6, <3>7
    <3>8. ASSUME job[v].at = "retire"
          PROVE  umb'[job[v].sid] \in {0, job[v].new}
          BY <1>4, <3>1, <3>3, <3>5, <3>6, <3>8
    <3> QED BY <3>1, <3>2, <3>6, <3>7, <3>8
  <2> QED BY <2>1, <2>2
<1>13. Named'
      BY <1>0, <1>1, <1>4, SMTT(30) DEF Named
<1>14. \A p \in ToGive' : p \in ToGive \/ p = n
  <2> SUFFICES ASSUME NEW p \in ToGive', p \notin given PROVE p \in ToGive \/ p = n
      BY DEF ToGive
  <2>1. PICK v \in Worker : job'[v].at \in {"push", "evict", "retire"} /\ p = job'[v].new
        BY DEF ToGive
  <2>2. CASE v = w
        BY <1>5, <2>1, <2>2
  <2>3. CASE v # w
    <3>1. job[v].at \in {"push", "evict", "retire"} /\ p = job[v].new
          BY <1>5, <2>1, <2>3
    <3> QED BY <3>1 DEF ToGive
  <2> QED BY <2>2, <2>3
<1>15. Standing'
  <2>1. \A t \in 1..born : umb'[t] \in ToGive' => rt[umb'[t]] \in {"live", "expired"}
        BY <1>0, <1>4, <1>7, <1>14 DEF Standing, Stands
  <2>2. \A v \in Worker : job'[v].at = "rotate" => job'[v] = job[v]
        BY <1>5
  <2> QED BY <1>0, <2>1, <2>2 DEF Standing, Stands
<1>16. RowTypes' /\ faults <= faults'
      BY <1>0, FaultsCounted DEF RowTypes
<1>17. SupersededClosed'
  <2> SUFFICES ASSUME faults' = 0, NEW p \in 1..made, at[p] = "live",
                      umb'[owner[p]] # 0, umb'[owner[p]] # p
               PROVE  \E v \in Worker :
                        \/ job'[v].at = "retire" /\ job'[v].old = p
                        \/ job'[v].at \in {"refreshRow", "rotate", "undo"} /\ job'[v].new = p
      BY DEF SupersededClosed, Opens
  <2>1. c = "retire" /\ faults = 0 /\ p # n /\ owner[p] \in 1..born
        BY <1>0, <1>1, <1>4, <1>16, SMTT(30) DEF RowTypes, Pairs
  <2>2. CASE p = o
        BY <1>5, <2>1, <2>2
  <2>3. CASE p # o
    <3>1. umb[owner[p]] # 0 /\ umb[owner[p]] # p
          BY <1>1, <1>2, <1>4, <2>1, <2>3
    <3>2. PICK v \in Worker :
            \/ job[v].at = "retire" /\ job[v].old = p
            \/ job[v].at \in {"refreshRow", "rotate", "undo"} /\ job[v].new = p
          BY <1>0, <2>1, <3>1 DEF SupersededClosed, Opens
    <3> QED BY <1>5, <1>6, <2>1, <3>2
  <2> QED BY <2>2, <2>3
<1> QED BY <1>9, <1>10, <1>11, <1>12, <1>13, <1>15, <1>16, <1>17 DEF RowInv

LEMMA RotateKeeps ==
    ASSUME Inv, RowInv, NEW w \in Worker, Rotate(w) \/ RotateResent(w)
    PROVE  RowInv'
<1>1. /\ UNCHANGED <<born, made, owner, from, given, at, rt>> /\ job[w].at = "rotate"
      /\ UNCHANGED faults \/ faults' = faults + 1
      BY DEF Rotate, RotateResent
<1>2. CASE Matches(w)
  <2>1. umb' = [umb EXCEPT ![job[w].sid] = job[w].new]
        BY <1>2 DEF Rotate, RotateResent
  <2>2. CASE Rotate(w)
    <3>1. GoTo(w, "retire")
          BY <1>2, <2>2 DEF Rotate
    <3> QED BY <1>1, <1>2, <2>1, <3>1, RotateWinKeeps
  <2>3. CASE RotateResent(w)
    <3>1. GoTo(w, "undo") /\ faults' = faults + 1
          BY <2>3 DEF RotateResent
    <3>2. faults' # 0
          BY <3>1, SMTT(30) DEF RowInv, RowTypes
    <3> QED BY <1>1, <1>2, <2>1, <3>1, <3>2, RotateWinKeeps
  <2> QED BY <2>2, <2>3
<1>3. CASE ~Matches(w)
  <2>1. UNCHANGED umb /\ GoTo(w, "undo")
        BY <1>3 DEF Rotate, RotateResent
  <2>2. Now(w, "undo", job[w].sid, job[w].old, job[w].new)
        BY <2>1, Wrote DEF Inv
  <2> QED BY <1>1, <2>1, <2>2, GoOnKeeps
<1> QED BY <1>2, <1>3

\* Rows that expire.
LEMMA ExpireKeeps ==
    ASSUME Inv, RowInv, UNCHANGED <<born, made, owner, from, given, job, faults>>,
           \/ UNCHANGED <<umb, at, rt>>
           \/ \E p \in 1..made : at' = [at EXCEPT ![p] = "expired"] /\ UNCHANGED <<umb, rt>>
           \/ \E p \in 1..made : /\ rt[p] = "live" /\ rt' = [rt EXCEPT ![p] = "expired"]
                                 /\ UNCHANGED <<umb, at>>
           \/ \E s \in 1..born : umb' = [umb EXCEPT ![s] = 0] /\ UNCHANGED <<at, rt>>
    PROVE  RowInv'
<1>0. /\ Types /\ Pairs /\ Jobs
      /\ Own /\ Presented /\ Alone /\ Unseen /\ Named /\ Standing /\ RowTypes /\ SupersededClosed
      BY DEF Inv, RowInv
<1>1. Own' /\ Presented'
      BY <1>0 DEF Own, Presented, Making, Creating
<1>2. \A s \in 1..born : umb'[s] \in {0, umb[s]}
  <2>1. CASE \E s \in 1..born : umb' = [umb EXCEPT ![s] = 0]
    <3>1. PICK s \in 1..born : umb' = [umb EXCEPT ![s] = 0]
          BY <2>1
    <3> QED BY ONLY <3>1, <1>0, Created DEF Types
  <2> QED BY <2>1
<1>3. made \in Nat /\ made <= MaxPairs /\ faults' \in Nat
      BY <1>0 DEF Types, RowTypes
<1>4. /\ RowTypes'
      /\ \A p \in 1..made : at'[p] = "live" => at[p] = "live"
      /\ \A p \in 1..made : rt[p] \in {"live", "expired"} => rt'[p] \in {"live", "expired"}
  <2>1. CASE UNCHANGED <<at, rt>>
        BY <1>0, <2>1 DEF RowTypes
  <2>2. ASSUME NEW p \in 1..made, at' = [at EXCEPT ![p] = "expired"], UNCHANGED rt
        PROVE  RowTypes' /\ \A q \in 1..made : at'[q] = "live" => at[q] = "live"
    <3>1. /\ RowTypes' /\ \A q \in 1..made : q # p => at'[q] = at[q]
          /\ at' # at => at'[p] = "expired"
          BY <1>0, <1>3, <2>2, RowWritten
    <3> QED BY <3>1
  <2>3. ASSUME NEW p \in 1..made, rt' = [rt EXCEPT ![p] = "expired"], UNCHANGED at
        PROVE  /\ RowTypes'
               /\ \A q \in 1..made : rt[q] \in {"live", "expired"} => rt'[q] \in {"live", "expired"}
    <3>1. /\ RowTypes' /\ \A q \in 1..made : q # p => rt'[q] = rt[q]
          /\ rt' # rt => rt'[p] = "expired"
          BY <1>0, <1>3, <2>3, RowWritten
    <3> QED BY <3>1
  <2> QED BY <2>1, <2>2, <2>3
<1>5. \A v \in Worker : Making(job[v]) =>
         job[v].new # 0 /\ job[v].new \in 1..made /\ job[v].sid \in 1..born
      BY <1>0, MakingHolds
<1>6. Alone' /\ Unseen'
      BY <1>0, <1>2, <1>5 DEF Alone, Unseen, Making, Creating
<1>7. Named'
      BY <1>0, <1>2 DEF Named
<1>8. ToGive' = ToGive /\ ToGive \subseteq 1..made
      BY <1>0, ToGiveMade DEF ToGive
<1>9. Standing'
  <2>1. ASSUME NEW s \in 1..born, umb'[s] \in ToGive
        PROVE  rt'[umb'[s]] \in {"live", "expired"}
    <3>0. \A p \in 1..made : p # 0
          BY ONLY <1>3
    <3>1. umb'[s] \in 1..made /\ umb'[s] # 0
          BY <1>8, <2>1, <3>0
    <3>2. umb'[s] = umb[s] /\ Stands(umb[s])
          BY <1>0, <1>2, <2>1, <3>1 DEF Standing
    <3> QED BY <1>4, <3>1, <3>2 DEF Stands
  <2>2. \A v \in Worker : job[v].at = "rotate" => rt'[job[v].new] \in {"live", "expired"}
        BY <1>0, <1>4, <1>5 DEF Standing, Stands, Making
  <2> QED BY <1>8, <2>1, <2>2 DEF Standing, Stands
<1>10. SupersededClosed'
  <2> SUFFICES ASSUME faults = 0, NEW p \in 1..made, at'[p] = "live",
                      umb'[owner[p]] # 0, umb'[owner[p]] # p
               PROVE  \E v \in Worker :
                        \/ job[v].at = "retire" /\ job[v].old = p
                        \/ job[v].at \in {"refreshRow", "rotate", "undo"} /\ job[v].new = p
      BY DEF SupersededClosed, Opens
  <2>1. at[p] = "live" /\ umb[owner[p]] # 0 /\ umb[owner[p]] # p
        BY <1>0, <1>2, <1>4 DEF Pairs
  <2> QED BY <1>0, <2>1 DEF SupersededClosed, Opens
<1> QED BY <1>1, <1>4, <1>6, <1>7, <1>9, <1>10 DEF RowInv

LEMMA RowStep == Inv /\ RowInv /\ [Next]_vars => RowInv'
<1> SUFFICES ASSUME Inv, RowInv, [Next]_vars PROVE RowInv'
    OBVIOUS
<1>1. ASSUME NEW w \in Worker,
             \/ CreateSession(w) \/ AccessRow(w) \/ RefreshRow(w)
             \/ Push(w) \/ PushResent(w) \/ Evict(w)
             \/ FetchSession(w) \/ Rotate(w) \/ RotateResent(w) \/ Retire(w) \/ Undo(w)
             \/ Owned(w) \/ DestroySession(w) \/ Unlist(w) \/ DeleteRows(w)
             \/ Cut(w) \/ Ignored(w)
             \/ \E p \in 1..made : ExtendSession(w, p) \/ Revoke(w, p)
      PROVE  RowInv'
      BY <1>1, CreateKeeps, WriteRowsKeep, PushKeeps, EvictKeeps, FetchKeeps, RotateKeeps,
         RetireKeeps, UndoKeeps, PlainKeeps, DestroyKeeps, StartKeeps
<1>2. CASE \E p \in 1..made : ExpireAccess(p) \/ ExpireRefresh(p)
      BY <1>2, ExpireKeeps DEF ExpireAccess, ExpireRefresh
<1>3. CASE \E s \in 1..born : ExpireSession(s)
      BY <1>3, ExpireKeeps DEF ExpireSession
<1>4. CASE ExpireList
      BY <1>4, ExpireKeeps DEF ExpireList
<1>5. CASE UNCHANGED vars
      BY <1>5, ExpireKeeps DEF vars
<1> QED BY <1>1, <1>2, <1>3, <1>4, <1>5 DEF Next
=============================================================================
