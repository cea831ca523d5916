---------------------------- MODULE LoginProofs ----------------------------
(***************************************************************************)
(* Proofs about CookieSession and Login, for any number of workers and     *)
(* browsers, any cap, lifetimes, tickets and passwords, and any number of  *)
(* failed commands: a ticket opens one session at most, a changed password *)
(* stays changed, a session that ended stays ended, the cap holds while no *)
(* command fails, and a refused login has cost the user nothing.           *)
(*                                                                         *)
(* Three invariants carry them. TicketInv: the code of a ticket is held by *)
(* one try at most, and by none once the ticket has led to a login.        *)
(* CostInv: a request that evicted a session, or opened a bearer one, has  *)
(* only its answer to come. RowInv: a row that lives is named by the list, *)
(* which lives as long, or is in the hands of a request that will push,    *)
(* evict or delete it.                                                     *)
(***************************************************************************)
EXTENDS Login, FiniteSetTheorems, TLAPS

\* The prover of every step that names no other.
USE ZenonT(30)

\* A job and a try are records with the fields of Idle and of NoTry.
IsJob(j) == j = [at |-> j.at, by |-> j.by, sid |-> j.sid, set |-> j.set,
                 evicted |-> j.evicted, cost |-> j.cost]
IsTry(t) == t = [kind |-> t.kind, at |-> t.at, password |-> t.password,
                 encoding |-> t.encoding, found |-> t.found, flow |-> t.flow,
                 state |-> t.state, kid |-> t.kid, opened |-> t.opened]

Jobs(f) == f = [w \in Worker |-> f[w]] /\ \A w \in Worker : IsJob(f[w])
Tries(f) == f = [w \in Worker |-> f[w]] /\ \A w \in Worker : IsTry(f[w])
JobShape == Jobs(job)
TryShape == Tries(try)

\* Where the request of worker w is after the step; no other request moved.
JobNow(w, a, s, e, c) ==
    /\ JobShape'
    /\ job'[w].at = a /\ job'[w].sid = s /\ job'[w].evicted = e /\ job'[w].cost = c
    /\ \A v \in Worker \ {w} : job'[v] = job[v]

\* What the try of worker w is after the step; no other try changed.
TryNow(w, k, a, p, e, s, o) ==
    /\ TryShape'
    /\ try'[w].kind = k /\ try'[w].at = a /\ try'[w].password = p
    /\ try'[w].encoding = e /\ try'[w].state = s /\ try'[w].opened = o
    /\ \A v \in Worker \ {w} : try'[v] = try[v]

(***************************************************************************)
(* The invariants.                                                         *)
(***************************************************************************)
\* A flow's try whose code was exchanged and whose identity is still to be verified.
PastExchange == {"key", "prepare", "sign", "open", "done", "resolve"}
Past(t) == t.kind \in FlowKinds /\ t.at \in PastExchange

Hashing == {"lookup", "slot", "hash", "rehash"}

\* A try is of a kind the app offers; only a password is hashed; what is rehashed is
\* the password the encoding was made of.
TrySound(t) ==
    /\ t.kind \in offered \cup {"none"}
    /\ t.at \in Hashing => t.kind \in PasswordKinds
    /\ t.at = "rehash" => t.encoding.of = t.password

\* A ticket whose code was not exchanged opened nothing; the code of a try under way
\* was exchanged for it alone, and nothing was opened yet.
TicketInv ==
    /\ offered \in {OwnKinds, PasswordKinds, FlowKinds}
    /\ TryShape
    /\ \A w \in Worker : TrySound(try[w])
    /\ logins \in [Ticket -> Nat]
    /\ \A t \in Ticket : logins[t] <= 1 /\ (t \notin used => logins[t] = 0)
    /\ \A w \in Worker : Past(try[w]) =>
         /\ try[w].state \in used
         /\ try[w].state \in Ticket => logins[try[w].state] = 0
    /\ \A v, w \in Worker :
         Past(try[v]) /\ Past(try[w]) /\ try[v].state = try[w].state => v = w

\* The commands of a protected request and of a logout, and the answer.
Quiet == {"idle", "fetch", "ttl", "expireRow", "expireList", "inner", "destroy", "unlist",
          "delete", "answer"}

\* A login that evicted has only its answer to come, and so has one that opened a
\* bearer session.
CostInv ==
    /\ JobShape
    /\ \A w \in Worker :
         /\ job[w].cost => job[w].at \in {"finish", "answer"}
         /\ try[w].kind = "passwordBearer" /\ try[w].opened =>
              job[w].at \in Quiet \/ Trying(w, "done")

\* A request that has a session in its hands which the cap list need not name.
Covers(j, s) ==
    \/ j.at \in {"push", "delete"} /\ j.sid = s
    \/ j.at = "evict" /\ s \in Range(j.evicted)

RowTypes ==
    /\ born \in Nat /\ faults \in Nat /\ listTTL \in Nat
    /\ ttl \in [Session -> Nat]
    /\ \A s \in Session : ttl[s] <= ExpireIn
    /\ list \in Seq(Nat) /\ Len(list) <= MaxSessionsPerUser
    /\ Range(list) \subseteq 1..born
    /\ listTTL = 0 => list = <<>>
    /\ \A w \in Worker : At(w, "push") => job[w].sid \in 1..born

\* Every row is named by the list, which lives as long, or is in the hands of a request.
Listed ==
    /\ \A s \in Session : ttl[s] > 0 =>
         s \in Range(list) \/ \E w \in Worker : Covers(job[w], s)
    /\ \/ \E w \in Worker : At(w, "expireList")
       \/ \A s \in Session : s \in Range(list) => ttl[s] <= listTTL

RowInv == RowTypes /\ (faults = 0 => Listed)
-----------------------------------------------------------------------------
\* g is f but for the job of worker w.
JobPut(f, g, w, a, s, e, c) ==
    /\ Jobs(g)
    /\ g[w].at = a /\ g[w].sid = s /\ g[w].evicted = e /\ g[w].cost = c
    /\ \A v \in Worker \ {w} : g[v] = f[v]

\* One field of one job is written.
LEMMA JobField ==
    ASSUME NEW f, Jobs(f), NEW w \in Worker, NEW x
    PROVE  /\ JobPut(f, [f EXCEPT ![w].at = x], w, x, f[w].sid, f[w].evicted, f[w].cost)
           /\ JobPut(f, [f EXCEPT ![w].sid = x], w, f[w].at, x, f[w].evicted, f[w].cost)
           /\ JobPut(f, [f EXCEPT ![w].set = x], w, f[w].at, f[w].sid, f[w].evicted, f[w].cost)
           /\ JobPut(f, [f EXCEPT ![w].evicted = x], w, f[w].at, f[w].sid, x, f[w].cost)
           /\ JobPut(f, [f EXCEPT ![w].cost = x], w, f[w].at, f[w].sid, f[w].evicted, x)
<1>1. JobPut(f, [f EXCEPT ![w].at = x], w, x, f[w].sid, f[w].evicted, f[w].cost)
      BY SMTT(30) DEF JobPut, Jobs, IsJob
<1>2. JobPut(f, [f EXCEPT ![w].sid = x], w, f[w].at, x, f[w].evicted, f[w].cost)
      BY SMTT(30) DEF JobPut, Jobs, IsJob
<1>3. JobPut(f, [f EXCEPT ![w].set = x], w, f[w].at, f[w].sid, f[w].evicted, f[w].cost)
      BY SMTT(30) DEF JobPut, Jobs, IsJob
<1>4. JobPut(f, [f EXCEPT ![w].evicted = x], w, f[w].at, f[w].sid, x, f[w].cost)
      BY SMTT(30) DEF JobPut, Jobs, IsJob
<1>5. JobPut(f, [f EXCEPT ![w].cost = x], w, f[w].at, f[w].sid, f[w].evicted, x)
      BY SMTT(30) DEF JobPut, Jobs, IsJob
<1> QED BY <1>1, <1>2, <1>3, <1>4, <1>5

\* Writing job[w]: GoTo, Answer and the writes of several fields.
LEMMA JobWrote ==
    ASSUME JobShape, NEW w \in Worker
    PROVE  /\ \A a : GoTo(w, a) => JobNow(w, a, job[w].sid, job[w].evicted, job[w].cost)
           /\ \A n : Answer(w, n) =>
                JobNow(w, "answer", job[w].sid, job[w].evicted, job[w].cost)
           /\ \A a, s : job' = [job EXCEPT ![w].at = a, ![w].sid = s] =>
                JobNow(w, a, s, job[w].evicted, job[w].cost)
           /\ \A a, n : job' = [job EXCEPT ![w].at = a, ![w].set = n] =>
                JobNow(w, a, job[w].sid, job[w].evicted, job[w].cost)
           /\ \A e, a : job' = [job EXCEPT ![w].evicted = e, ![w].at = a] =>
                JobNow(w, a, job[w].sid, e, job[w].cost)
           /\ \A a, e, c : job' = [job EXCEPT ![w].at = a, ![w].evicted = e, ![w].cost = c] =>
                JobNow(w, a, job[w].sid, e, c)
<1>0. Jobs(job)
      BY DEF JobShape
<1>1. ASSUME NEW a, NEW s, NEW e, NEW c, JobPut(job, job', w, a, s, e, c)
      PROVE  JobNow(w, a, s, e, c)
      BY <1>1 DEF JobPut, JobNow, JobShape
<1>2. ASSUME NEW a, GoTo(w, a)
      PROVE  JobNow(w, a, job[w].sid, job[w].evicted, job[w].cost)
  <2>1. JobPut(job, [job EXCEPT ![w].at = a], w, a, job[w].sid, job[w].evicted, job[w].cost)
        BY <1>0, JobField
  <2>2. JobPut(job, job', w, a, job[w].sid, job[w].evicted, job[w].cost)
        BY <1>2, <2>1 DEF GoTo
  <2> QED BY <1>1, <2>2
<1>3. ASSUME NEW a, NEW x
      PROVE  /\ JobPut(job, [job EXCEPT ![w].at = a, ![w].sid = x], w,
                       a, x, job[w].evicted, job[w].cost)
             /\ JobPut(job, [job EXCEPT ![w].at = a, ![w].set = x], w,
                       a, job[w].sid, job[w].evicted, job[w].cost)
             /\ JobPut(job, [job EXCEPT ![w].evicted = x, ![w].at = a], w,
                       a, job[w].sid, x, job[w].cost)
  <2> DEFINE f == [job EXCEPT ![w].at = a]
             g == [job EXCEPT ![w].evicted = x]
  <2>1. /\ [job EXCEPT ![w].at = a, ![w].sid = x] = [f EXCEPT ![w].sid = x]
        /\ [job EXCEPT ![w].at = a, ![w].set = x] = [f EXCEPT ![w].set = x]
        /\ [job EXCEPT ![w].evicted = x, ![w].at = a] = [g EXCEPT ![w].at = a]
        OBVIOUS
  <2>2. JobPut(job, f, w, a, job[w].sid, job[w].evicted, job[w].cost)
        BY <1>0, JobField
  <2>3. JobPut(job, g, w, job[w].at, job[w].sid, x, job[w].cost)
        BY <1>0, JobField
  <2> HIDE DEF f, g
  <2>4. Jobs(f) /\ Jobs(g)
        BY <2>2, <2>3 DEF JobPut
  <2>5. JobPut(f, [f EXCEPT ![w].sid = x], w, f[w].at, x, f[w].evicted, f[w].cost)
        BY <2>4, JobField
  <2>6. JobPut(f, [f EXCEPT ![w].set = x], w, f[w].at, f[w].sid, f[w].evicted, f[w].cost)
        BY <2>4, JobField
  <2>7. JobPut(g, [g EXCEPT ![w].at = a], w, a, g[w].sid, g[w].evicted, g[w].cost)
        BY <2>4, JobField
  <2>8. ASSUME NEW h, NEW i, NEW a1, NEW s1, NEW e1, NEW c1, NEW a2, NEW s2, NEW e2, NEW c2,
               JobPut(job, h, w, a1, s1, e1, c1), JobPut(h, i, w, a2, s2, e2, c2)
        PROVE  JobPut(job, i, w, a2, s2, e2, c2)
        BY <2>8 DEF JobPut
  <2>9. /\ f[w].at = a /\ f[w].sid = job[w].sid /\ f[w].evicted = job[w].evicted
        /\ f[w].cost = job[w].cost
        /\ g[w].sid = job[w].sid /\ g[w].evicted = x /\ g[w].cost = job[w].cost
        BY <2>2, <2>3 DEF JobPut
  <2>10. JobPut(job, [f EXCEPT ![w].sid = x], w, a, x, job[w].evicted, job[w].cost)
        BY <2>2, <2>5, <2>8, <2>9, SMTT(30)
  <2>11. JobPut(job, [f EXCEPT ![w].set = x], w, a, job[w].sid, job[w].evicted, job[w].cost)
        BY <2>2, <2>6, <2>8, <2>9, SMTT(30)
  <2>12. JobPut(job, [g EXCEPT ![w].at = a], w, a, job[w].sid, x, job[w].cost)
        BY <2>3, <2>7, <2>8, <2>9, SMTT(30)
  <2> QED BY <2>1, <2>10, <2>11, <2>12
<1>4. ASSUME NEW a, NEW e, NEW c
      PROVE  JobPut(job, [job EXCEPT ![w].at = a, ![w].evicted = e, ![w].cost = c], w,
                    a, job[w].sid, e, c)
  <2> DEFINE f == [job EXCEPT ![w].at = a]
             g == [f EXCEPT ![w].evicted = e]
  <2>1. [job EXCEPT ![w].at = a, ![w].evicted = e, ![w].cost = c] = [g EXCEPT ![w].cost = c]
        OBVIOUS
  <2>2. JobPut(job, f, w, a, job[w].sid, job[w].evicted, job[w].cost)
        BY <1>0, JobField
  <2> HIDE DEF f
  <2>3. Jobs(f) /\ f[w].at = a /\ f[w].sid = job[w].sid
        BY <2>2 DEF JobPut
  <2>4. JobPut(f, g, w, f[w].at, f[w].sid, e, f[w].cost)
        BY <2>3, JobField
  <2> HIDE DEF g
  <2>5. Jobs(g) /\ g[w].at = a /\ g[w].sid = job[w].sid /\ g[w].evicted = e
        BY <2>3, <2>4 DEF JobPut
  <2>6. JobPut(g, [g EXCEPT ![w].cost = c], w, g[w].at, g[w].sid, g[w].evicted, c)
        BY <2>5, JobField
  <2>7. JobPut(job, [g EXCEPT ![w].cost = c], w, a, job[w].sid, e, c)
    <3> DEFINE h == [g EXCEPT ![w].cost = c]
    <3> HIDE DEF h
    <3>1. JobPut(g, h, w, a, job[w].sid, e, c)
          BY <2>5, <2>6 DEF h
    <3>2. \A v \in Worker \ {w} : h[v] = job[v]
          BY <2>2, <2>4, <3>1 DEF JobPut
    <3>3. JobPut(job, h, w, a, job[w].sid, e, c)
          BY <3>1, <3>2 DEF JobPut
    <3> QED BY <3>3 DEF h
  <2> QED BY <2>1, <2>7
<1>5. ASSUME NEW a, NEW s, job' = [job EXCEPT ![w].at = a, ![w].sid = s]
      PROVE  JobNow(w, a, s, job[w].evicted, job[w].cost)
  <2>1. JobPut(job, job', w, a, s, job[w].evicted, job[w].cost)
        BY <1>3, <1>5
  <2> QED BY <1>1, <2>1
<1>6. ASSUME NEW a, NEW n, job' = [job EXCEPT ![w].at = a, ![w].set = n]
      PROVE  JobNow(w, a, job[w].sid, job[w].evicted, job[w].cost)
  <2>1. JobPut(job, job', w, a, job[w].sid, job[w].evicted, job[w].cost)
        BY <1>3, <1>6
  <2> QED BY <1>1, <2>1
<1>7. ASSUME NEW e, NEW a, job' = [job EXCEPT ![w].evicted = e, ![w].at = a]
      PROVE  JobNow(w, a, job[w].sid, e, job[w].cost)
  <2>1. JobPut(job, job', w, a, job[w].sid, e, job[w].cost)
        BY <1>3, <1>7
  <2> QED BY <1>1, <2>1
<1>8. ASSUME NEW a, NEW e, NEW c,
             job' = [job EXCEPT ![w].at = a, ![w].evicted = e, ![w].cost = c]
      PROVE  JobNow(w, a, job[w].sid, e, c)
  <2>1. JobPut(job, job', w, a, job[w].sid, e, c)
        BY <1>4, <1>8
  <2> QED BY <1>1, <2>1
<1> QED BY <1>2, <1>5, <1>6, <1>7, <1>8 DEF Answer

\* A new request, and none.
LEMMA JobBegun ==
    ASSUME JobShape, NEW w \in Worker
    PROVE  /\ \A a, b, s : job' = [job EXCEPT ![w] = Job(a, b, s)] => JobNow(w, a, s, <<>>, FALSE)
           /\ job' = [job EXCEPT ![w] = Idle] => JobNow(w, "idle", 0, <<>>, FALSE)
<1>1. ASSUME NEW a, NEW b, NEW s, job' = [job EXCEPT ![w] = Job(a, b, s)]
      PROVE  JobNow(w, a, s, <<>>, FALSE)
      BY <1>1 DEF JobNow, JobShape, Jobs, IsJob, Job
<1> QED BY <1>1 DEF Idle

\* g is f but for the try of worker w.
TryPut(f, g, w, k, a, p, e, s, o) ==
    /\ Tries(g)
    /\ g[w].kind = k /\ g[w].at = a /\ g[w].password = p
    /\ g[w].encoding = e /\ g[w].state = s /\ g[w].opened = o
    /\ \A v \in Worker \ {w} : g[v] = f[v]

\* g is f but for two fields at most of one try.
LEMMA TryField ==
    ASSUME NEW f, Tries(f), NEW w \in Worker, NEW x
    PROVE  LET t == f[w] IN
           /\ TryPut(f, [f EXCEPT ![w].at = x], w,
                     t.kind, x, t.password, t.encoding, t.state, t.opened)
           /\ TryPut(f, [f EXCEPT ![w].found = x], w,
                     t.kind, t.at, t.password, t.encoding, t.state, t.opened)
           /\ TryPut(f, [f EXCEPT ![w].encoding = x], w,
                     t.kind, t.at, t.password, x, t.state, t.opened)
           /\ TryPut(f, [f EXCEPT ![w].kid = x], w,
                     t.kind, t.at, t.password, t.encoding, t.state, t.opened)
           /\ TryPut(f, [f EXCEPT ![w].opened = x], w,
                     t.kind, t.at, t.password, t.encoding, t.state, x)
<1> DEFINE t == f[w]
<1>1. TryPut(f, [f EXCEPT ![w].at = x], w,
             t.kind, x, t.password, t.encoding, t.state, t.opened)
      BY SMTT(30) DEF TryPut, Tries, IsTry
<1>2. TryPut(f, [f EXCEPT ![w].found = x], w,
             t.kind, t.at, t.password, t.encoding, t.state, t.opened)
      BY SMTT(30) DEF TryPut, Tries, IsTry
<1>3. TryPut(f, [f EXCEPT ![w].encoding = x], w,
             t.kind, t.at, t.password, x, t.state, t.opened)
      BY SMTT(30) DEF TryPut, Tries, IsTry
<1>4. TryPut(f, [f EXCEPT ![w].kid = x], w,
             t.kind, t.at, t.password, t.encoding, t.state, t.opened)
      BY SMTT(30) DEF TryPut, Tries, IsTry
<1>5. TryPut(f, [f EXCEPT ![w].opened = x], w,
             t.kind, t.at, t.password, t.encoding, t.state, x)
      BY SMTT(30) DEF TryPut, Tries, IsTry
<1> QED BY <1>1, <1>2, <1>3, <1>4, <1>5

\* One write after another.
LEMMA TryTwice ==
    ASSUME NEW f, NEW g, NEW h, NEW w \in Worker,
           NEW k1, NEW a1, NEW p1, NEW e1, NEW s1, NEW o1, TryPut(f, g, w, k1, a1, p1, e1, s1, o1),
           NEW k, NEW a, NEW p, NEW e, NEW s, NEW o, TryPut(g, h, w, k, a, p, e, s, o)
    PROVE  TryPut(f, h, w, k, a, p, e, s, o)
BY DEF TryPut

\* Writing try[w].
LEMMA TryWrote ==
    ASSUME TryShape, NEW w \in Worker
    PROVE  LET t == try[w] IN
           /\ \A a : try' = [try EXCEPT ![w].at = a] =>
                TryNow(w, t.kind, a, t.password, t.encoding, t.state, t.opened)
           /\ \A a, n : try' = [try EXCEPT ![w].at = a, ![w].kid = n] =>
                TryNow(w, t.kind, a, t.password, t.encoding, t.state, t.opened)
           /\ \A a, o : try' = [try EXCEPT ![w].at = a, ![w].opened = o] =>
                TryNow(w, t.kind, a, t.password, t.encoding, t.state, o)
           /\ \A a, b, e : try' = [try EXCEPT ![w].at = a, ![w].found = b, ![w].encoding = e] =>
                TryNow(w, t.kind, a, t.password, e, t.state, t.opened)
           /\ \A k, a, p, c, s : try' = [try EXCEPT ![w] = Try(k, a, p, c, s)] =>
                \E e : TryNow(w, k, a, p, e, s, FALSE)
<1> DEFINE t == try[w]
<1>0. Tries(try)
      BY DEF TryShape
<1>1. ASSUME NEW k, NEW a, NEW p, NEW e, NEW s, NEW o, TryPut(try, try', w, k, a, p, e, s, o)
      PROVE  TryNow(w, k, a, p, e, s, o)
      BY <1>1 DEF TryPut, TryNow, TryShape
<1>2. ASSUME NEW a
      PROVE  TryPut(try, [try EXCEPT ![w].at = a], w,
                    t.kind, a, t.password, t.encoding, t.state, t.opened)
      BY <1>0, TryField
<1>3. ASSUME NEW a, NEW x
      PROVE  /\ TryPut(try, [try EXCEPT ![w].at = a, ![w].kid = x], w,
                       t.kind, a, t.password, t.encoding, t.state, t.opened)
             /\ TryPut(try, [try EXCEPT ![w].at = a, ![w].opened = x], w,
                       t.kind, a, t.password, t.encoding, t.state, x)
  <2> DEFINE f == [try EXCEPT ![w].at = a]
  <2>1. /\ [try EXCEPT ![w].at = a, ![w].kid = x] = [f EXCEPT ![w].kid = x]
        /\ [try EXCEPT ![w].at = a, ![w].opened = x] = [f EXCEPT ![w].opened = x]
        OBVIOUS
  <2>2. TryPut(try, f, w, t.kind, a, t.password, t.encoding, t.state, t.opened)
        BY <1>2
  <2> HIDE DEF f
  <2>3. /\ Tries(f) /\ f[w].kind = t.kind /\ f[w].at = a /\ f[w].password = t.password
        /\ f[w].encoding = t.encoding /\ f[w].state = t.state /\ f[w].opened = t.opened
        BY <2>2 DEF TryPut
  <2>4. TryPut(f, [f EXCEPT ![w].kid = x], w,
               t.kind, a, t.password, t.encoding, t.state, t.opened)
        BY <2>3, TryField
  <2>5. TryPut(f, [f EXCEPT ![w].opened = x], w,
               t.kind, a, t.password, t.encoding, t.state, x)
        BY <2>3, TryField
  <2> DEFINE g == [f EXCEPT ![w].kid = x]
             h == [f EXCEPT ![w].opened = x]
  <2> HIDE DEF g, h
  <2>6. /\ TryPut(try, g, w, t.kind, a, t.password, t.encoding, t.state, t.opened)
        /\ TryPut(try, h, w, t.kind, a, t.password, t.encoding, t.state, x)
        BY <2>2, <2>4, <2>5, TryTwice, SMTT(30) DEF g, h
  <2> QED BY <2>1, <2>6 DEF g, h
<1>4. ASSUME NEW a, NEW b, NEW e
      PROVE  TryPut(try, [try EXCEPT ![w].at = a, ![w].found = b, ![w].encoding = e], w,
                    t.kind, a, t.password, e, t.state, t.opened)
  <2> DEFINE f == [try EXCEPT ![w].at = a]
             g == [f EXCEPT ![w].found = b]
             h == [g EXCEPT ![w].encoding = e]
  <2>1. [try EXCEPT ![w].at = a, ![w].found = b, ![w].encoding = e] = h
        OBVIOUS
  <2>2. TryPut(try, f, w, t.kind, a, t.password, t.encoding, t.state, t.opened)
        BY <1>2
  <2> HIDE DEF f
  <2>3. /\ Tries(f) /\ f[w].kind = t.kind /\ f[w].at = a /\ f[w].password = t.password
        /\ f[w].encoding = t.encoding /\ f[w].state = t.state /\ f[w].opened = t.opened
        BY <2>2 DEF TryPut
  <2>4. TryPut(f, g, w, t.kind, a, t.password, t.encoding, t.state, t.opened)
        BY <2>3, TryField
  <2> HIDE DEF g
  <2>5. /\ Tries(g) /\ g[w].kind = t.kind /\ g[w].at = a /\ g[w].password = t.password
        /\ g[w].encoding = t.encoding /\ g[w].state = t.state /\ g[w].opened = t.opened
        BY <2>4 DEF TryPut
  <2>6. TryPut(g, h, w, t.kind, a, t.password, e, t.state, t.opened)
        BY <2>5, TryField
  <2> HIDE DEF h
  <2>7. TryPut(try, g, w, t.kind, a, t.password, t.encoding, t.state, t.opened)
        BY <2>2, <2>4, TryTwice, SMTT(30)
  <2>8. TryPut(try, h, w, t.kind, a, t.password, e, t.state, t.opened)
        BY <2>6, <2>7, TryTwice, SMTT(30)
  <2> QED BY <2>1, <2>8
<1>5. ASSUME NEW k, NEW a, NEW p, NEW c, NEW s, try' = [try EXCEPT ![w] = Try(k, a, p, c, s)]
      PROVE  \E e : TryNow(w, k, a, p, e, s, FALSE)
  <2>1. TryNow(w, k, a, p, [of |-> 0, by |-> Current], s, FALSE)
        BY <1>5 DEF TryNow, TryShape, Tries, IsTry, Try
  <2> QED BY <2>1
<1>6. \A a : try' = [try EXCEPT ![w].at = a] =>
                TryNow(w, t.kind, a, t.password, t.encoding, t.state, t.opened)
      BY <1>1, <1>2
<1>7. ASSUME NEW a, NEW n, try' = [try EXCEPT ![w].at = a, ![w].kid = n]
      PROVE  TryNow(w, t.kind, a, t.password, t.encoding, t.state, t.opened)
  <2>1. TryPut(try, try', w, t.kind, a, t.password, t.encoding, t.state, t.opened)
        BY <1>3, <1>7
  <2> QED BY <1>1, <2>1
<1>8. ASSUME NEW a, NEW o, try' = [try EXCEPT ![w].at = a, ![w].opened = o]
      PROVE  TryNow(w, t.kind, a, t.password, t.encoding, t.state, o)
  <2>1. TryPut(try, try', w, t.kind, a, t.password, t.encoding, t.state, o)
        BY <1>3, <1>8
  <2> QED BY <1>1, <2>1
<1>9. ASSUME NEW a, NEW b, NEW e,
             try' = [try EXCEPT ![w].at = a, ![w].found = b, ![w].encoding = e]
      PROVE  TryNow(w, t.kind, a, t.password, e, t.state, t.opened)
  <2>1. TryPut(try, try', w, t.kind, a, t.password, e, t.state, t.opened)
        BY <1>4, <1>9
  <2> QED BY <1>1, <2>1
<1> QED BY <1>5, <1>6, <1>7, <1>8, <1>9
-----------------------------------------------------------------------------
(***************************************************************************)
(* Tickets and passwords.                                                  *)
(***************************************************************************)
LEMMA InitTicketInv == Init => TicketInv
<1> SUFFICES ASSUME Init PROVE TicketInv
    OBVIOUS
<1>1. /\ offered \in {OwnKinds, PasswordKinds, FlowKinds}
      /\ try = [w \in Worker |-> NoTry] /\ logins = [t \in Ticket |-> 0]
      BY DEF Init
<1>2. IsTry(NoTry) /\ NoTry.kind = "none" /\ NoTry.at = "none"
      BY DEF IsTry, NoTry, Try
<1>3. TryShape
      BY <1>1, <1>2 DEF TryShape, Tries
<1>4. \A w \in Worker : try[w].kind = "none" /\ try[w].at = "none"
      BY <1>1, <1>2
<1>5. \A w \in Worker : TrySound(try[w]) /\ ~Past(try[w])
      BY <1>4 DEF TrySound, Past, PastExchange, Hashing, FlowKinds
<1>6. logins \in [Ticket -> Nat] /\ \A t \in Ticket : logins[t] = 0 /\ logins[t] <= 1
      BY <1>1, SMTT(30)
<1> QED BY <1>1, <1>3, <1>5, <1>6 DEF TicketInv

\* A step that changes one try and opens nothing.
LEMMA TryKept ==
    ASSUME TicketInv, UNCHANGED <<logins, offered>>, used \subseteq used',
           NEW w \in Worker, NEW k, NEW a, NEW p, NEW e, NEW s, NEW o,
           TryNow(w, k, a, p, e, s, o),
           k \in offered \cup {"none"}, a \in Hashing => k \in PasswordKinds,
           a = "rehash" => e.of = p,
           k \in FlowKinds /\ a \in PastExchange =>
             /\ s \in used'
             /\ s \in Ticket => logins[s] = 0
             /\ \A v \in Worker \ {w} : Past(try[v]) => try[v].state # s
    PROVE  TicketInv'
<1>1. /\ TryShape' /\ try'[w].kind = k /\ try'[w].at = a /\ try'[w].password = p
      /\ try'[w].encoding = e /\ try'[w].state = s
      /\ \A v \in Worker \ {w} : try'[v] = try[v]
      BY DEF TryNow
<1>2. \A v \in Worker : TrySound(try[v])'
  <2>1. TrySound(try[w])'
        BY <1>1 DEF TrySound, Hashing
  <2>2. \A v \in Worker \ {w} : TrySound(try[v])'
        BY <1>1 DEF TrySound, TicketInv
  <2> QED BY <2>1, <2>2
<1>3. Past(try'[w]) => k \in FlowKinds /\ a \in PastExchange
      BY <1>1 DEF Past, PastExchange
<1>4. \A v \in Worker : Past(try'[v]) =>
        /\ try'[v].state \in used'
        /\ try'[v].state \in Ticket => logins[try'[v].state] = 0
  <2>1. CASE Past(try'[w])
        BY <1>1, <1>3, <2>1 DEF TicketInv
  <2>2. CASE ~Past(try'[w])
        BY <1>1, <2>2 DEF TicketInv
  <2> QED BY <2>1, <2>2
<1>5. \A u, v \in Worker :
         Past(try'[v]) /\ Past(try'[u]) /\ try'[v].state = try'[u].state => v = u
  <2>1. CASE Past(try'[w])
        BY <1>1, <1>3, <2>1 DEF TicketInv
  <2>2. CASE ~Past(try'[w])
        BY <1>1, <2>2 DEF TicketInv
  <2> QED BY <2>1, <2>2
<1>6. \A t \in Ticket : logins[t] <= 1 /\ (t \notin used' => logins[t] = 0)
      BY DEF TicketInv
<1> QED BY <1>1, <1>2, <1>4, <1>5, <1>6 DEF TicketInv, Past

\* A step that changes where one try is.
LEMMA TryMoved ==
    ASSUME TicketInv, UNCHANGED <<logins, offered>>, used \subseteq used',
           NEW w \in Worker, NEW a, try' = [try EXCEPT ![w].at = a],
           a \in Hashing => try[w].kind \in PasswordKinds,
           a = "rehash" => try[w].encoding.of = try[w].password,
           try[w].kind \in FlowKinds /\ a \in PastExchange => try[w].at \in PastExchange
    PROVE  TicketInv'
<1> DEFINE t == try[w]
<1>1. TryNow(w, t.kind, a, t.password, t.encoding, t.state, t.opened)
      BY TryWrote DEF TicketInv
<1>2. t.kind \in offered \cup {"none"}
      BY DEF TicketInv, TrySound
<1>3. ASSUME t.kind \in FlowKinds, a \in PastExchange
      PROVE  /\ t.state \in used'
             /\ t.state \in Ticket => logins[t.state] = 0
             /\ \A v \in Worker \ {w} : Past(try[v]) => try[v].state # t.state
  <2>1. Past(t)
        BY <1>3 DEF Past, PastExchange
  <2> QED BY <2>1 DEF TicketInv
<1> HIDE DEF t
<1> QED BY <1>1, <1>2, <1>3, TryKept DEF t

\* A refusal.
LEMMA TryRefused ==
    ASSUME TicketInv, UNCHANGED <<logins, offered>>, used \subseteq used',
           NEW w \in Worker, Refused(w) \/ FaultRefused(w)
    PROVE  TicketInv'
<1>1. try' = [try EXCEPT ![w].at = "none"]
      BY DEF Refused, FaultRefused
<1> QED BY <1>1, TryMoved DEF Hashing, PastExchange

LEMMA PasswordTickets ==
    ASSUME TicketInv, NEW w \in Worker,
           \/ \E b \in Browser, k \in offered \cap PasswordKinds : BeginPassword(w, b, k)
           \/ Lookup(w) \/ TakeSlot(w) \/ CheckPassword(w) \/ StoreRehash(w)
    PROVE  TicketInv'
<1>0. UNCHANGED <<logins, offered, used>> /\ used \subseteq used' /\ TryShape /\ TrySound(try[w])
      BY DEF TicketInv, BeginPassword, Lookup, TakeSlot, CheckPassword, StoreRehash
<1>1. \A k : k \in PasswordKinds => k \notin FlowKinds
      BY DEF PasswordKinds, FlowKinds
<1>2. CASE \E b \in Browser, k \in offered \cap PasswordKinds : BeginPassword(w, b, k)
  <2>1. PICK k \in offered \cap PasswordKinds, p \in 1..stored.of :
          try' = [try EXCEPT ![w] = Try(k, "lookup", p, 0, 0)]
        BY <1>2 DEF BeginPassword
  <2>2. PICK e : TryNow(w, k, "lookup", p, e, 0, FALSE)
        BY <1>0, <2>1, TryWrote
  <2> QED BY <1>0, <1>1, <2>2, TryKept DEF Hashing
<1>3. CASE Lookup(w)
  <2>1. try[w].kind \in PasswordKinds
        BY <1>0, <1>3 DEF Lookup, Trying, TrySound, Hashing
  <2>2. CASE FaultRefused(w)
        BY <1>0, <2>2, TryRefused
  <2>3. CASE \E found \in BOOLEAN :
          try' = [try EXCEPT ![w].at = "slot", ![w].found = found, ![w].encoding = stored]
    <3> DEFINE t == try[w]
    <3>1. TryNow(w, t.kind, "slot", t.password, stored, t.state, t.opened)
          BY <1>0, <2>3, TryWrote
    <3>2. t.kind \in offered \cup {"none"} /\ t.kind \in PasswordKinds
          BY <1>0, <2>1 DEF TrySound
    <3> HIDE DEF t
    <3> QED BY <1>0, <1>1, <3>1, <3>2, TryKept, SMTT(30) DEF Hashing
  <2> QED BY <1>3, <2>2, <2>3 DEF Lookup
<1>4. CASE TakeSlot(w)
  <2>1. try[w].kind \in PasswordKinds
        BY <1>0, <1>4 DEF TakeSlot, Trying, TrySound, Hashing
  <2>2. CASE FaultRefused(w)
        BY <1>0, <2>2, TryRefused
  <2>3. CASE Move(w, "hash")
    <3>1. try' = [try EXCEPT ![w].at = "hash"]
          BY <2>3 DEF Move
    <3> QED BY <1>0, <1>1, <2>1, <3>1, TryMoved DEF Hashing
  <2> QED BY <1>4, <2>2, <2>3 DEF TakeSlot
<1>5. CASE CheckPassword(w)
  <2>1. try[w].kind \in PasswordKinds
        BY <1>0, <1>5 DEF CheckPassword, Trying, TrySound, Hashing
  <2>2. CASE FaultRefused(w) \/ Refused(w)
        BY <1>0, <2>2, TryRefused
  <2>3. CASE Matches(w) /\ Move(w, "rehash")
    <3>1. try' = [try EXCEPT ![w].at = "rehash"] /\ try[w].encoding.of = try[w].password
          BY <2>3 DEF Move, Matches
    <3> QED BY <1>0, <1>1, <2>1, <3>1, TryMoved DEF Hashing
  <2>4. CASE Move(w, "resolve")
    <3>1. try' = [try EXCEPT ![w].at = "resolve"]
          BY <2>4 DEF Move
    <3> QED BY <1>0, <1>1, <2>1, <3>1, TryMoved DEF Hashing
  <2> QED BY <1>5, <2>2, <2>3, <2>4 DEF CheckPassword
<1>6. CASE StoreRehash(w)
  <2>1. try[w].kind \in PasswordKinds
        BY <1>0, <1>6 DEF StoreRehash, Trying, TrySound, Hashing
  <2>2. try' = [try EXCEPT ![w].at = "resolve"]
        BY <1>6 DEF StoreRehash, Move
  <2> QED BY <1>0, <1>1, <2>1, <2>2, TryMoved DEF Hashing
<1> QED BY <1>2, <1>3, <1>4, <1>5, <1>6

LEMMA ExchangeTickets ==
    ASSUME TicketInv, NEW w \in Worker, Exchange(w)
    PROVE  TicketInv'
<1>0. UNCHANGED <<logins, offered>> /\ used \subseteq used' /\ TryShape /\ TrySound(try[w])
      BY DEF TicketInv, Exchange
<1>1. CASE Refused(w) \/ FaultRefused(w)
      BY <1>0, <1>1, TryRefused
<1>2. CASE /\ try[w].state \notin used
           /\ used' = used \cup {try[w].state}
           /\ try' = [try EXCEPT ![w].at = "key", ![w].kid = kid]
  <2> DEFINE t == try[w]
  <2>1. TryNow(w, t.kind, "key", t.password, t.encoding, t.state, t.opened)
        BY <1>0, <1>2, TryWrote
  <2>2. t.kind \in offered \cup {"none"}
        BY <1>0 DEF TrySound
  <2>3. t.state \in used' /\ (t.state \in Ticket => logins[t.state] = 0)
        BY <1>2 DEF TicketInv
  <2>4. \A v \in Worker \ {w} : Past(try[v]) => try[v].state # t.state
        BY <1>2 DEF TicketInv
  <2> HIDE DEF t
  <2> QED BY <1>0, <2>1, <2>2, <2>3, <2>4, TryKept, SMTT(30) DEF Hashing
<1> QED BY <1>1, <1>2 DEF Exchange

LEMMA ResolveTickets ==
    ASSUME TicketInv, NEW w \in Worker, Resolve(w)
    PROVE  TicketInv'
<1>0. /\ UNCHANGED <<offered, used>> /\ used \subseteq used' /\ TryShape /\ TrySound(try[w])
      /\ try[w].at = "resolve"
      BY DEF TicketInv, Resolve, Trying
<1>1. CASE Refused(w) /\ UNCHANGED logins
      BY <1>0, <1>1, TryRefused
<1>2. CASE try[w].kind = "passwordBearer" /\ Move(w, "prepare") /\ UNCHANGED logins
  <2>1. try' = [try EXCEPT ![w].at = "prepare"]
        BY <1>2 DEF Move
  <2> QED BY <1>0, <1>2, <2>1, TryMoved DEF FlowKinds, Hashing
<1> DEFINE s == try[w].state
<1>3. CASE /\ try' = [try EXCEPT ![w].at = "none"] /\ try[w].kind \in FlowKinds
           /\ logins' = [logins EXCEPT ![s] = @ + 1]
  <2> DEFINE t == try[w]
  <2>1. TryNow(w, t.kind, "none", t.password, t.encoding, t.state, t.opened)
        BY <1>0, <1>3, TryWrote
  <2>2. Past(t)
        BY <1>0, <1>3 DEF Past, PastExchange
  <2>3. s \in used /\ (s \in Ticket => logins[s] = 0)
        BY <2>2 DEF TicketInv
  <2>4. \A v \in Worker \ {w} : Past(try[v]) => try[v].state # s
        BY <2>2 DEF TicketInv
  <2>5. /\ TryShape' /\ try'[w].kind = try[w].kind /\ try'[w].at = "none"
        /\ \A v \in Worker \ {w} : try'[v] = try[v]
        BY <2>1 DEF TryNow
  <2> HIDE DEF s, t
  <2>6. /\ logins' \in [Ticket -> Nat]
        /\ \A x \in Ticket : x # s => logins'[x] = logins[x]
        /\ s \in Ticket => logins'[s] = 1
    <3>1. logins \in [Ticket -> Nat] /\ logins' = [logins EXCEPT ![s] = logins[s] + 1]
          BY <1>3 DEF TicketInv
    <3>2. s \in Ticket => logins[s] + 1 = 1 /\ logins[s] + 1 \in Nat
          BY <2>3, SMTT(30)
    <3> QED BY <3>1, <3>2
  <2>7. \A x \in Ticket : logins'[x] <= 1 /\ (x \notin used' => logins'[x] = 0)
    <3>1. \A x \in Ticket : x # s => logins'[x] <= 1 /\ (x \notin used => logins'[x] = 0)
          BY <2>6 DEF TicketInv
    <3>2. s \in Ticket => logins'[s] <= 1
          BY <2>6, SMTT(30)
    <3> QED BY <1>0, <2>3, <3>1, <3>2
  <2>8. \A v \in Worker : TrySound(try[v])'
    <3>1. TrySound(try[w])'
          BY <1>0, <2>5 DEF TrySound, Hashing
    <3> QED BY <1>0, <2>5, <3>1 DEF TicketInv, TrySound
  <2>9. ~Past(try'[w])
        BY <2>5 DEF Past, PastExchange
  <2>10. \A v \in Worker : Past(try'[v]) =>
           /\ try'[v].state \in used'
           /\ try'[v].state \in Ticket => logins'[try'[v].state] = 0
        BY <1>0, <2>4, <2>5, <2>6, <2>9, SMTT(30) DEF TicketInv
  <2>11. \A u, v \in Worker :
           Past(try'[v]) /\ Past(try'[u]) /\ try'[v].state = try'[u].state => v = u
        BY <2>5, <2>9 DEF TicketInv
  <2> QED BY <1>0, <2>5, <2>6, <2>7, <2>8, <2>10, <2>11 DEF TicketInv, Past
<1>4. CASE try' = [try EXCEPT ![w].at = "none"] /\ UNCHANGED logins
      BY <1>0, <1>4, TryMoved DEF Hashing, PastExchange
<1> QED BY <1>1, <1>2, <1>3, <1>4 DEF Resolve

LEMMA FlowTickets ==
    ASSUME TicketInv, NEW w \in Worker,
           \/ \E b \in Browser, k \in offered \cap FlowKinds : BeginReturn(w, b, k)
           \/ ConsumeTicket(w) \/ Forward(w) \/ KeyByKID(w) \/ Prepare(w) \/ SignIDToken(w)
           \/ OpenBearer(w) \/ BearerDone(w) \/ VerifyDelegated(w) \/ LoginDeliver(w)
    PROVE  TicketInv'
<1>0. UNCHANGED <<logins, offered, used>> /\ used \subseteq used' /\ TryShape /\ TrySound(try[w])
      BY DEF TicketInv, BeginReturn, ConsumeTicket, Forward, KeyByKID, Prepare, SignIDToken,
             OpenBearer, BearerDone, VerifyDelegated, LoginDeliver
<1>1. CASE Refused(w) \/ FaultRefused(w)
      BY <1>0, <1>1, TryRefused
<1>2. ASSUME NEW a, Move(w, a), a \in {"forward", "exchange"}
      PROVE  TicketInv'
  <2>1. try' = [try EXCEPT ![w].at = a]
        BY <1>2 DEF Move
  <2>2. a \notin Hashing /\ a \notin PastExchange /\ a # "rehash"
        BY <1>2 DEF Hashing, PastExchange
  <2> QED BY <1>0, <2>1, <2>2, TryMoved
<1>3. ASSUME NEW a, Move(w, a), a \in PastExchange, try[w].at \in PastExchange
      PROVE  TicketInv'
  <2>1. try' = [try EXCEPT ![w].at = a]
        BY <1>3 DEF Move
  <2>2. a \notin Hashing /\ a # "rehash"
        BY <1>3 DEF Hashing, PastExchange
  <2> QED BY <1>0, <1>3, <2>1, <2>2, TryMoved
<1>4. CASE ConsumeTicket(w) \/ Forward(w)
      BY <1>1, <1>2, <1>4 DEF ConsumeTicket, Forward
<1>5. CASE KeyByKID(w)
  <2>1. try[w].at \in PastExchange
        BY <1>5 DEF KeyByKID, Trying, PastExchange
  <2>2. IDTokenChecked(w) => TicketInv'
        BY <1>1, <1>3, <2>1 DEF IDTokenChecked, PastExchange
  <2> QED BY <1>1, <1>5, <2>2 DEF KeyByKID
<1>6. CASE Prepare(w) \/ SignIDToken(w) \/ VerifyDelegated(w)
  <2>1. try[w].at \in PastExchange
        BY <1>6 DEF Prepare, SignIDToken, VerifyDelegated, Trying, PastExchange
  <2>2. BearerOrder("prepare") = "sign" /\ BearerOrder("sign") = "open"
        BY DEF BearerOrder
  <2>3. "sign" \in PastExchange /\ "open" \in PastExchange /\ "resolve" \in PastExchange
        BY DEF PastExchange
  <2> QED BY <1>1, <1>3, <1>6, <2>1, <2>2, <2>3 DEF Prepare, SignIDToken, VerifyDelegated
<1>7. CASE OpenBearer(w)
  <2>1. CASE try' = [try EXCEPT ![w].at = BearerOrder("open"), ![w].opened = TRUE]
    <3> DEFINE t == try[w]
    <3>1. BearerOrder("open") = "done"
          BY DEF BearerOrder
    <3>2. TryNow(w, t.kind, "done", t.password, t.encoding, t.state, TRUE)
          BY <1>0, <2>1, <3>1, TryWrote
    <3>3. t.kind \in offered \cup {"none"}
          BY <1>0 DEF TrySound
    <3>4. ASSUME t.kind \in FlowKinds
          PROVE  /\ t.state \in used'
                 /\ t.state \in Ticket => logins[t.state] = 0
                 /\ \A v \in Worker \ {w} : Past(try[v]) => try[v].state # t.state
      <4>1. Past(t)
            BY <1>7, <3>4 DEF Past, PastExchange, OpenBearer, Trying
      <4> QED BY <1>0, <4>1 DEF TicketInv
    <3>5. "done" \notin Hashing /\ "done" # "rehash"
          BY DEF Hashing
    <3> HIDE DEF t
    <3> QED BY <1>0, <3>2, <3>3, <3>4, <3>5, TryKept
  <2> QED BY <1>1, <1>7, <2>1 DEF OpenBearer
<1>8. CASE BearerDone(w)
  <2>1. try' = [try EXCEPT ![w].at = "none"]
        BY <1>8 DEF BearerDone
  <2> QED BY <1>0, <2>1, TryMoved DEF Hashing, PastExchange
<1>9. CASE LoginDeliver(w)
  <2>1. try' = [try EXCEPT ![w] = Try("none", "none", 0, 0, 0)]
        BY <1>9 DEF LoginDeliver, NoTry
  <2>2. PICK e : TryNow(w, "none", "none", 0, e, 0, FALSE)
        BY <1>0, <2>1, TryWrote
  <2> QED BY <1>0, <2>2, TryKept DEF Hashing, FlowKinds
<1>10. CASE \E b \in Browser, k \in offered \cap FlowKinds : BeginReturn(w, b, k)
  <2>1. PICK b \in Browser, k \in offered \cap FlowKinds, s \in 1..tickets :
          try' = [try EXCEPT ![w] = Try(k, "consume", 0, flow[b], s)]
        BY <1>10 DEF BeginReturn
  <2>2. PICK e : TryNow(w, k, "consume", 0, e, s, FALSE)
        BY <1>0, <2>1, TryWrote
  <2> QED BY <1>0, <2>2, TryKept DEF Hashing, PastExchange
<1> QED BY <1>4, <1>5, <1>6, <1>7, <1>8, <1>9, <1>10

LEMMA TicketStep == TicketInv /\ [Next]_vars => TicketInv'
<1> SUFFICES ASSUME TicketInv, [Next]_vars PROVE TicketInv'
    OBVIOUS
<1>1. CASE UNCHANGED <<try, used, logins, offered>>
      BY <1>1 DEF TicketInv, TryShape, TrySound, Past
<1>2. ASSUME NEW w \in Worker, LoginStep(w)
      PROVE  TicketInv'
  <2>1. CASE \E b \in Browser : CreateUserSession(w, b)
        BY <1>1, <2>1 DEF CreateUserSession, loginVars
  <2>2. CASE SessionStep(w) /\ UNCHANGED loginVars
        BY <1>1, <2>2 DEF loginVars
  <2> QED BY <1>2, <2>1, <2>2, PasswordTickets, FlowTickets, ExchangeTickets, ResolveTickets
          DEF LoginStep
<1>3. CASE \/ \E b \in Browser : IssueTicket(b)
           \/ ChangePassword \/ RotateKey \/ IntervalPasses
      BY <1>1, <1>3 DEF IssueTicket, ChangePassword, RotateKey, IntervalPasses
<1>4. CASE Tick /\ UNCHANGED loginVars
      BY <1>1, <1>4 DEF loginVars
<1>5. CASE UNCHANGED vars
      BY <1>1, <1>5 DEF vars, loginVars
<1> QED BY <1>2, <1>3, <1>4, <1>5 DEF Next

LEMMA AlwaysTicketInv == Spec => []TicketInv
<1> QED BY InitTicketInv, TicketStep, PTL DEF Spec

\* A ticket verifies one identity at most: of the requests that return with the same
\* state only the one whose code exchange the provider took gets to Resolve, once.
THEOREM OneLoginPerTicketHolds == Spec => []OneLoginPerTicket
<1>1. TicketInv => OneLoginPerTicket
      BY DEF TicketInv, OneLoginPerTicket
<1> QED BY <1>1, AlwaysTicketInv, PTL

\* What a step does to the stored encoding.
PasswordStands ==
    stored'.of >= stored.of /\ (stored.by = Current => stored'.by = Current)

LEMMA PasswordStep ==
    ASSUME TicketInv, stored.of \in Nat, [Next]_vars
    PROVE  stored'.of \in Nat /\ PasswordStands
<1>1. CASE UNCHANGED stored
  <2>1. stored.of >= stored.of
        BY SMTT(30)
  <2> QED BY <1>1, <2>1 DEF PasswordStands
<1>2. CASE ChangePassword
  <2> DEFINE n == stored.of + 1
  <2>1. stored' = [of |-> n, by |-> Current]
        BY <1>2 DEF ChangePassword
  <2>2. n \in Nat /\ n >= stored.of
        BY SMTT(30)
  <2> HIDE DEF n
  <2> QED BY <2>1, <2>2 DEF PasswordStands
<1>3. ASSUME NEW w \in Worker, StoreRehash(w)
      PROVE  stored'.of \in Nat /\ PasswordStands
  <2> DEFINE new == [of |-> try[w].password, by |-> Current]
  <2>1. stored' = stored \/ (stored' = new /\ stored = try[w].encoding)
        BY <1>3 DEF StoreRehash, Replaced
  <2>2. try[w].encoding.of = try[w].password
        BY <1>3 DEF StoreRehash, Trying, TicketInv, TrySound
  <2>3. CASE stored' = new /\ stored = try[w].encoding
    <3>1. stored'.of = stored.of /\ stored'.by = Current
          BY <2>2, <2>3
    <3>2. stored.of >= stored.of
          BY SMTT(30)
    <3> QED BY <3>1, <3>2 DEF PasswordStands
  <2> QED BY <1>1, <2>1, <2>3
<1>4. ASSUME NEW w \in Worker, LoginStep(w)
      PROVE  stored'.of \in Nat /\ PasswordStands
  <2>1. CASE \E b \in Browser : CreateUserSession(w, b)
        BY <1>1, <2>1 DEF CreateUserSession, loginVars
  <2>2. CASE SessionStep(w) /\ UNCHANGED loginVars
        BY <1>1, <2>2 DEF loginVars
  <2>3. CASE \/ \E b \in Browser, k \in offered \cap PasswordKinds : BeginPassword(w, b, k)
             \/ \E b \in Browser, k \in offered \cap FlowKinds : BeginReturn(w, b, k)
             \/ Lookup(w) \/ TakeSlot(w) \/ CheckPassword(w)
             \/ ConsumeTicket(w) \/ Forward(w) \/ Exchange(w) \/ KeyByKID(w)
             \/ Resolve(w) \/ Prepare(w) \/ SignIDToken(w) \/ OpenBearer(w) \/ BearerDone(w)
             \/ VerifyDelegated(w) \/ LoginDeliver(w)
        BY <1>1, <2>3 DEF BeginPassword, BeginReturn, Lookup, TakeSlot, CheckPassword,
           ConsumeTicket, Forward, Exchange, KeyByKID, Resolve, Prepare, SignIDToken, OpenBearer,
           BearerDone, VerifyDelegated, LoginDeliver
  <2> QED BY <1>3, <1>4, <2>1, <2>2, <2>3 DEF LoginStep
<1>5. CASE (\E b \in Browser : IssueTicket(b)) \/ RotateKey \/ IntervalPasses
      BY <1>1, <1>5 DEF IssueTicket, RotateKey, IntervalPasses
<1>6. CASE Tick /\ UNCHANGED loginVars
      BY <1>1, <1>6 DEF loginVars
<1>7. CASE UNCHANGED vars
      BY <1>1, <1>7 DEF vars, loginVars
<1> QED BY <1>2, <1>4, <1>5, <1>6, <1>7 DEF Next

\* A password changed while an older one is verified and rehashed stays changed: the
\* rehash replaces only the encoding it verified, with one of the same password.
THEOREM ChangedPasswordHolds == Spec => ChangedPasswordStands
<1> DEFINE P == stored.of \in Nat
<1>1. Init => P
  <2> SUFFICES ASSUME Init PROVE P
      OBVIOUS
  <2>1. stored = [of |-> 1, by |-> Accepted]
        BY DEF Init
  <2>2. stored.of = 1
        BY <2>1, SMTT(30)
  <2> QED BY <2>2, SMTT(30)
<1>2. TicketInv /\ P /\ [Next]_vars => P' /\ [PasswordStands]_vars
      BY PasswordStep
<1>3. ChangedPasswordStands <=> [][PasswordStands]_vars
      BY PTL DEF ChangedPasswordStands, PasswordStands
<1> HIDE DEF P
<1> QED BY <1>1, <1>2, <1>3, AlwaysTicketInv, PTL DEF Spec
-----------------------------------------------------------------------------
(***************************************************************************)
(* The steps of a request.                                                 *)
(***************************************************************************)
rows == <<born, ttl, list, listTTL>>

\* A step of one request that touches no row: it lets go of no session, unless it is
\* cut, and a login that evicted goes on to its answer.
Aside(w) ==
    /\ UNCHANGED rows
    /\ faults' = faults \/ faults' = faults + 1
    /\ \E a, s, e, c :
         /\ JobNow(w, a, s, e, c)
         /\ a # "push"
         /\ faults' = faults + 1 \/ job[w].at \notin {"push", "evict", "delete", "expireList"}
         /\ c => job[w].cost /\ (job[w].at \in {"finish", "answer"} => a = "answer")

LEMMA AsideTo ==
    ASSUME NEW w \in Worker, NEW a, NEW s, NEW e, NEW c, JobNow(w, a, s, e, c),
           UNCHANGED rows, faults' = faults \/ faults' = faults + 1, a # "push",
           faults' = faults + 1 \/ job[w].at \notin {"push", "evict", "delete", "expireList"},
           c => job[w].cost /\ (job[w].at \in {"finish", "answer"} => a = "answer")
    PROVE  Aside(w)
BY DEF Aside

\* A step of a request that is not being verified; a protected request stays one.
Serves(w) ==
    job[w].at # "verifying" /\ (job[w].at \in Quiet => job'[w].at \in Quiet)

LEMMA SessionAside ==
    ASSUME JobShape, NEW w \in Worker,
           \/ NewUserSessionID(w) \/ FinishLogin(w) \/ \E b \in Browser : Request(w, b)
           \/ AuthenticateCookieSession(w) \/ SlidingExpHandler(w) \/ Inner(w)
           \/ DeleteUserSessionKVDB(w) \/ Cut(w)
    PROVE  Aside(w) /\ Serves(w)
<1>1. ASSUME NEW a, GoTo(w, a) \/ (a = "answer" /\ \E n : Answer(w, n)),
             UNCHANGED rows, faults' = faults \/ faults' = faults + 1,
             a # "push", job[w].at \notin {"push", "evict", "delete", "expireList"},
             job[w].at \in {"finish", "answer"} => a = "answer",
             job[w].at # "verifying", job[w].at \in Quiet => a \in Quiet
      PROVE  Aside(w) /\ Serves(w)
  <2>1. JobNow(w, a, job[w].sid, job[w].evicted, job[w].cost)
        BY <1>1, JobWrote
  <2>2. Serves(w)
        BY <1>1, <2>1 DEF Serves, JobNow
  <2> QED BY <1>1, <2>1, <2>2, AsideTo
<1>2. CASE NewUserSessionID(w)
  <2>1. /\ UNCHANGED rows /\ faults' = faults /\ job[w].at = "seal"
        /\ GoTo(w, "store") \/ GoTo(w, "refused")
        BY <1>2 DEF NewUserSessionID, At, After, rows
  <2> QED BY <1>1, <2>1 DEF Quiet
<1>3. CASE FinishLogin(w)
  <2>1. UNCHANGED rows /\ faults' = faults /\ job[w].at = "finish" /\ Answer(w, job[w].sid)
        BY <1>3 DEF FinishLogin, At, rows
  <2> QED BY <1>1, <2>1 DEF Quiet
<1>4. CASE \E b \in Browser : Request(w, b)
  <2>1. PICK b \in Browser : Request(w, b)
        BY <1>4
  <2>2. /\ UNCHANGED rows /\ faults' = faults /\ job[w].at = "idle"
        /\ job' = [job EXCEPT ![w] = Job("fetch", b, jar[b])]
        BY <2>1 DEF Request, At, rows
  <2>3. JobNow(w, "fetch", jar[b], <<>>, FALSE)
        BY <2>2, JobBegun
  <2> QED BY <2>2, <2>3, AsideTo DEF Quiet, Serves, JobNow
<1>5. CASE AuthenticateCookieSession(w)
  <2>1. /\ UNCHANGED rows /\ (faults' = faults \/ faults' = faults + 1) /\ job[w].at = "fetch"
        /\ \/ Answer(w, 0) \/ Answer(w, Leave) \/ GoTo(w, "destroy") \/ GoTo(w, "ttl")
           \/ GoTo(w, "inner")
        BY <1>5 DEF AuthenticateCookieSession, At, Fault, Unfaulted, rows
  <2> QED BY <1>1, <2>1 DEF Quiet
<1>6. CASE SlidingExpHandler(w)
  <2>1. /\ UNCHANGED rows /\ (faults' = faults \/ faults' = faults + 1) /\ job[w].at = "ttl"
        /\ GoTo(w, "expireRow") \/ GoTo(w, "inner")
        BY <1>6 DEF SlidingExpHandler, At, Fault, Unfaulted, rows
  <2> QED BY <1>1, <2>1 DEF Quiet
<1>7. CASE Inner(w)
  <2>1. /\ UNCHANGED rows /\ faults' = faults /\ job[w].at = "inner"
        /\ Answer(w, job[w].set) \/ GoTo(w, "destroy")
        BY <1>7 DEF Inner, At, rows
  <2> QED BY <1>1, <2>1 DEF Quiet
<1>8. CASE DeleteUserSessionKVDB(w)
  <2>1. /\ UNCHANGED rows /\ (faults' = faults \/ faults' = faults + 1) /\ job[w].at = "destroy"
        /\ Answer(w, 0) \/ GoTo(w, "unlist")
        BY <1>8 DEF DeleteUserSessionKVDB, At, Fault, Unfaulted, rows
  <2> QED BY <1>1, <2>1 DEF Quiet
<1>9. CASE Cut(w)
  <2>1. /\ UNCHANGED rows /\ faults' = faults + 1 /\ job[w].at # "verifying"
        /\ job' = [job EXCEPT ![w] = Idle]
        BY <1>9 DEF Cut, Fault, rows
  <2>2. JobNow(w, "idle", 0, <<>>, FALSE)
        BY <2>1, JobBegun
  <2> QED BY <2>1, <2>2, AsideTo DEF Quiet, Serves, JobNow
<1> QED BY <1>2, <1>3, <1>4, <1>5, <1>6, <1>7, <1>8, <1>9

\* A step of a verification before a bearer session is open: it goes on, is refused, or
\* leads to the session.
Verifies(w) ==
    /\ At(w, "verifying") /\ (try[w].kind = "passwordBearer" => try[w].at # "done")
    /\ \E a, p, e, s : TryNow(w, try[w].kind, a, p, e, s, try[w].opened)
    /\ \/ UNCHANGED <<job, faults>>
       \/ GoTo(w, "refused") /\ (faults' = faults \/ faults' = faults + 1)
       \/ GoTo(w, "seal") /\ UNCHANGED faults
    /\ UNCHANGED rows

LEMMA LoginVerifies ==
    ASSUME TryShape, NEW w \in Worker,
           \/ Lookup(w) \/ TakeSlot(w) \/ CheckPassword(w) \/ StoreRehash(w)
           \/ ConsumeTicket(w) \/ Forward(w) \/ Exchange(w) \/ KeyByKID(w)
           \/ Resolve(w) \/ Prepare(w) \/ SignIDToken(w) \/ VerifyDelegated(w)
    PROVE  Verifies(w)
<1>1. At(w, "verifying") /\ (try[w].kind = "passwordBearer" => try[w].at # "done")
      BY DEF Lookup, TakeSlot, CheckPassword, StoreRehash, ConsumeTicket, Forward, Exchange,
             KeyByKID, Resolve, Prepare, SignIDToken, VerifyDelegated, Trying
<1>2. CASE Refused(w) \/ FaultRefused(w)
  <2>1. /\ try' = [try EXCEPT ![w].at = "none"] /\ GoTo(w, "refused") /\ UNCHANGED rows
        /\ faults' = faults \/ faults' = faults + 1
        BY <1>2 DEF Refused, Refuse, FaultRefused, Fault, rows
  <2> QED BY <1>1, <2>1, TryWrote DEF Verifies
<1>3. CASE \E a : Move(w, a)
  <2>1. PICK a : try' = [try EXCEPT ![w].at = a] /\ UNCHANGED sessionVars
        BY <1>3 DEF Move
  <2>2. UNCHANGED <<job, faults>> /\ UNCHANGED rows
        BY <2>1 DEF sessionVars, rows
  <2> QED BY <1>1, <2>1, <2>2, TryWrote DEF Verifies
<1>4. CASE Lookup(w)
  <2>1. CASE (\E found \in BOOLEAN :
               try' = [try EXCEPT ![w].at = "slot", ![w].found = found, ![w].encoding = stored])
             /\ UNCHANGED sessionVars
    <3>1. UNCHANGED <<job, faults>> /\ UNCHANGED rows
          BY <2>1 DEF sessionVars, rows
    <3> QED BY <1>1, <2>1, <3>1, TryWrote DEF Verifies
  <2> QED BY <1>2, <1>4, <2>1 DEF Lookup
<1>5. CASE \/ TakeSlot(w) \/ CheckPassword(w) \/ StoreRehash(w) \/ ConsumeTicket(w) \/ Forward(w)
           \/ KeyByKID(w) \/ Prepare(w) \/ SignIDToken(w) \/ VerifyDelegated(w)
      BY <1>2, <1>3, <1>5 DEF TakeSlot, CheckPassword, StoreRehash, ConsumeTicket, Forward,
         KeyByKID, IDTokenChecked, Prepare, SignIDToken, VerifyDelegated
<1>6. CASE Exchange(w)
  <2>1. CASE try' = [try EXCEPT ![w].at = "key", ![w].kid = kid] /\ UNCHANGED sessionVars
    <3>1. UNCHANGED <<job, faults>> /\ UNCHANGED rows
          BY <2>1 DEF sessionVars, rows
    <3> QED BY <1>1, <2>1, <3>1, TryWrote DEF Verifies
  <2> QED BY <1>2, <1>6, <2>1 DEF Exchange
<1>7. CASE Resolve(w)
  <2>1. CASE Verified(w) /\ try' = [try EXCEPT ![w].at = "none"]
    <3>1. GoTo(w, "seal") /\ UNCHANGED faults /\ UNCHANGED rows
          BY <2>1 DEF Verified, After, rows
    <3> QED BY <1>1, <2>1, <3>1, TryWrote DEF Verifies
  <2> QED BY <1>2, <1>3, <1>7, <2>1 DEF Resolve
<1> QED BY <1>4, <1>5, <1>6, <1>7
-----------------------------------------------------------------------------
(***************************************************************************)
(* What a refused login has cost.                                          *)
(***************************************************************************)
\* Worker w's try opened a bearer session of its own.
Opened(t) == t.kind = "passwordBearer" /\ t.opened

LEMMA InitCostInv == Init => CostInv
<1> SUFFICES ASSUME Init PROVE CostInv
    OBVIOUS
<1>1. job = [w \in Worker |-> Idle] /\ try = [w \in Worker |-> NoTry]
      BY DEF Init, SessionInit
<1>2. IsJob(Idle) /\ Idle.cost = FALSE /\ NoTry.kind = "none"
      BY SMTT(30) DEF IsJob, Idle, Job, NoTry, Try
<1>3. JobShape
      BY <1>1, <1>2 DEF JobShape, Jobs
<1> QED BY <1>1, <1>2, <1>3 DEF CostInv

LEMMA CostKept ==
    ASSUME CostInv, NEW w \in Worker, NEW a, NEW s, NEW e, NEW c, JobNow(w, a, s, e, c),
           c => a \in {"finish", "answer"},
           Opened(try'[w]) => a \in Quiet \/ (a = "verifying" /\ try'[w].at = "done"),
           \A v \in Worker \ {w} : try'[v] = try[v]
    PROVE  CostInv'
<1>1. /\ JobShape' /\ job'[w].at = a /\ job'[w].cost = c
      /\ \A v \in Worker \ {w} : job'[v] = job[v]
      BY DEF JobNow
<1>2. /\ job'[w].cost => job'[w].at \in {"finish", "answer"}
      /\ try'[w].kind = "passwordBearer" /\ try'[w].opened =>
           job'[w].at \in Quiet \/ Trying(w, "done")'
      BY <1>1 DEF Opened, Trying, At
<1>3. \A v \in Worker \ {w} :
        /\ job'[v].cost => job'[v].at \in {"finish", "answer"}
        /\ try'[v].kind = "passwordBearer" /\ try'[v].opened =>
             job'[v].at \in Quiet \/ Trying(v, "done")'
      BY <1>1 DEF CostInv, Trying, At
<1> QED BY <1>1, <1>2, <1>3 DEF CostInv

\* A step of the session, with the try as it was.
LEMMA SessionCost ==
    ASSUME CostInv, NEW w \in Worker, SessionStep(w), UNCHANGED try
    PROVE  CostInv'
<1>0. /\ JobShape /\ (job[w].cost => job[w].at \in {"finish", "answer"})
      /\ Opened(try[w]) => job[w].at \in Quiet \/ job[w].at = "verifying"
      BY DEF CostInv, Opened, Trying, At
<1>1. CASE Aside(w) /\ Serves(w)
  <2>1. PICK a, s, e, c :
          /\ JobNow(w, a, s, e, c)
          /\ c => job[w].cost /\ (job[w].at \in {"finish", "answer"} => a = "answer")
        BY <1>1 DEF Aside
  <2>2. job[w].at # "verifying" /\ (job[w].at \in Quiet => a \in Quiet)
        BY <1>1, <2>1 DEF Serves, JobNow
  <2> QED BY <1>0, <2>1, <2>2, CostKept
<1>2. ASSUME NEW a, NEW s, NEW e, NEW c, JobNow(w, a, s, e, c),
             c => job[w].cost \/ a = "finish", job[w].at \notin {"finish", "answer", "verifying"},
             job[w].at \in Quiet => a \in Quiet
      PROVE  CostInv'
  <2>1. c => a \in {"finish", "answer"}
        BY <1>0, <1>2
  <2> QED BY <1>0, <1>2, <2>1, CostKept
<1>3. CASE StoreUserSession(w)
  <2>1. /\ job[w].at = "store"
        /\ JobNow(w, "push", born + 1, job[w].evicted, job[w].cost)
        BY <1>0, <1>3, JobWrote DEF StoreUserSession, At
  <2> QED BY <1>2, <2>1, SMTT(30) DEF Quiet
<1>4. CASE StoreUserSessionFails(w)
  <2>1. /\ job[w].at = "store"
        /\ JobNow(w, "refused", job[w].sid, job[w].evicted, job[w].cost)
        BY <1>0, <1>4, JobWrote DEF StoreUserSessionFails, At
  <2> QED BY <1>2, <2>1, SMTT(30) DEF Quiet
<1>5. CASE PushEvictOverCap(w)
  <2>1. PICK a, e : job' = [job EXCEPT ![w].evicted = e, ![w].at = a]
        BY <1>5 DEF PushEvictOverCap, PushTimes
  <2>2. job[w].at = "push" /\ JobNow(w, a, job[w].sid, e, job[w].cost)
        BY <1>0, <1>5, <2>1, JobWrote DEF PushEvictOverCap, At
  <2> QED BY <1>2, <2>2 DEF Quiet
<1>6. CASE PushFails(w)
  <2>1. /\ job[w].at = "push"
        /\ JobNow(w, "undo", job[w].sid, job[w].evicted, job[w].cost)
        BY <1>0, <1>6, JobWrote DEF PushFails, At
  <2> QED BY <1>2, <2>1, SMTT(30) DEF Quiet
<1>7. CASE Undo(w)
  <2>1. /\ job[w].at = "undo"
        /\ JobNow(w, "refused", job[w].sid, job[w].evicted, job[w].cost)
        BY <1>0, <1>7, JobWrote DEF Undo, At
  <2> QED BY <1>2, <2>1, SMTT(30) DEF Quiet
<1>8. CASE Evict(w)
  <2>1. After("push") = "finish"
        BY DEF After
  <2>2. PICK c : job' = [job EXCEPT ![w].at = "finish", ![w].evicted = <<>>, ![w].cost = c]
        BY <1>8, <2>1 DEF Evict
  <2>3. job[w].at = "evict" /\ JobNow(w, "finish", job[w].sid, <<>>, c)
        BY <1>0, <1>8, <2>2, JobWrote DEF Evict, At
  <2> QED BY <1>2, <2>3 DEF Quiet
<1>9. CASE ExtendRow(w)
  <2>1. /\ job[w].at = "expireRow"
        /\ JobNow(w, "expireList", job[w].sid, job[w].evicted, job[w].cost)
        BY <1>0, <1>9, JobWrote DEF ExtendRow, At
  <2> QED BY <1>2, <2>1, SMTT(30) DEF Quiet
<1>10. CASE ExtendList(w)
  <2>1. /\ job[w].at = "expireList"
        /\ JobNow(w, "inner", job[w].sid, job[w].evicted, job[w].cost)
        BY <1>0, <1>10, JobWrote DEF ExtendList, At
  <2> QED BY <1>2, <2>1, SMTT(30) DEF Quiet
<1>11. CASE Unlist(w)
  <2>1. /\ job[w].at = "unlist"
        /\ JobNow(w, "delete", job[w].sid, job[w].evicted, job[w].cost)
        BY <1>0, <1>11, JobWrote DEF Unlist, At
  <2> QED BY <1>2, <2>1, SMTT(30) DEF Quiet
<1>12. CASE DeleteRow(w)
  <2>1. /\ job[w].at = "delete"
        /\ JobNow(w, "answer", job[w].sid, job[w].evicted, job[w].cost)
        BY <1>0, <1>12, JobWrote DEF DeleteRow, At
  <2> QED BY <1>2, <2>1, SMTT(30) DEF Quiet
<1> QED BY <1>0, <1>1, <1>3, <1>4, <1>5, <1>6, <1>7, <1>8, <1>9, <1>10, <1>11, <1>12, SessionAside
        DEF SessionStep

LEMMA VerifyCost ==
    ASSUME CostInv, NEW w \in Worker, Verifies(w)
    PROVE  CostInv'
<1>0. JobShape
      BY DEF CostInv
<1>1. PICK a, p, e, s : TryNow(w, try[w].kind, a, p, e, s, try[w].opened)
      BY DEF Verifies
<1>2. ~Opened(try'[w]) /\ \A v \in Worker \ {w} : try'[v] = try[v]
  <2>1. ~Opened(try[w])
        BY DEF Verifies, CostInv, Opened, At, Trying, Quiet
  <2> QED BY <1>1, <2>1 DEF TryNow, Opened
<1>3. ~job[w].cost
      BY DEF Verifies, CostInv, At
<1>4. ASSUME NEW x, GoTo(w, x)
      PROVE  CostInv'
  <2>1. JobNow(w, x, job[w].sid, job[w].evicted, job[w].cost)
        BY <1>0, <1>4, JobWrote
  <2> QED BY <1>2, <1>3, <2>1, CostKept, SMTT(30)
<1>5. CASE UNCHANGED job
  <2>1. JobNow(w, job[w].at, job[w].sid, job[w].evicted, job[w].cost)
        BY <1>0, <1>5 DEF JobNow, JobShape
  <2> QED BY <1>2, <1>3, <2>1, CostKept, SMTT(30)
<1> QED BY <1>4, <1>5 DEF Verifies

LEMMA LoginCost ==
    ASSUME CostInv, TicketInv, NEW w \in Worker, LoginStep(w)
    PROVE  CostInv'
<1>0. /\ JobShape /\ TryShape /\ (job[w].cost => job[w].at \in {"finish", "answer"})
      /\ Opened(try[w]) => job[w].at \in Quiet \/ Trying(w, "done")
      BY DEF CostInv, TicketInv, Opened
<1>1. CASE \E b \in Browser : CreateUserSession(w, b)
  <2>1. PICK b \in Browser : job' = [job EXCEPT ![w] = Job("seal", b, 0)]
        BY <1>1 DEF CreateUserSession, After
  <2>2. JobNow(w, "seal", 0, <<>>, FALSE)
        BY <1>0, <2>1, JobBegun
  <2>3. UNCHANGED try /\ "own" \in offered
        BY <1>1 DEF CreateUserSession, loginVars
  <2>4. offered = OwnKinds
        BY <2>3, SMTT(30) DEF TicketInv, PasswordKinds, FlowKinds
  <2>5. try[w].kind # "passwordBearer"
        BY <2>4 DEF TicketInv, TrySound, OwnKinds
  <2> QED BY <2>2, <2>3, <2>5, CostKept DEF Opened
<1>2. CASE \/ \E b \in Browser, k \in offered \cap PasswordKinds : BeginPassword(w, b, k)
           \/ \E b \in Browser, k \in offered \cap FlowKinds : BeginReturn(w, b, k)
  <2>1. PICK b \in Browser : job' = [job EXCEPT ![w] = Job("verifying", b, 0)]
        BY <1>2 DEF BeginPassword, BeginReturn, BeginLogin
  <2>2. PICK k, a, p, n, s : try' = [try EXCEPT ![w] = Try(k, a, p, n, s)]
        BY <1>2, SMTT(30) DEF BeginPassword, BeginReturn
  <2>3. JobNow(w, "verifying", 0, <<>>, FALSE)
        BY <1>0, <2>1, JobBegun
  <2>4. PICK e : TryNow(w, k, a, p, e, s, FALSE)
        BY <1>0, <2>2, TryWrote
  <2>5. ~Opened(try'[w]) /\ \A v \in Worker \ {w} : try'[v] = try[v]
        BY <2>4 DEF TryNow, Opened
  <2> QED BY <2>3, <2>5, CostKept
<1>3. CASE LoginDeliver(w)
  <2>1. job' = [job EXCEPT ![w] = Idle] /\ try' = [try EXCEPT ![w] = Try("none", "none", 0, 0, 0)]
        BY <1>3 DEF LoginDeliver, Deliver, NoTry
  <2>2. JobNow(w, "idle", 0, <<>>, FALSE)
        BY <1>0, <2>1, JobBegun
  <2>3. PICK e : TryNow(w, "none", "none", 0, e, 0, FALSE)
        BY <1>0, <2>1, TryWrote
  <2>4. ~Opened(try'[w]) /\ \A v \in Worker \ {w} : try'[v] = try[v]
        BY <2>3 DEF TryNow, Opened
  <2> QED BY <2>2, <2>4, CostKept
<1>4. CASE BearerDone(w)
  <2>1. /\ Answer(w, Leave) /\ try' = [try EXCEPT ![w].at = "none"] /\ job[w].at = "verifying"
        BY <1>4 DEF BearerDone, Trying, At
  <2>2. JobNow(w, "answer", job[w].sid, job[w].evicted, job[w].cost)
        BY <1>0, <2>1, JobWrote
  <2>3. \A v \in Worker \ {w} : try'[v] = try[v]
        BY <1>0, <2>1, TryWrote DEF TryNow
  <2> QED BY <1>0, <2>1, <2>2, <2>3, CostKept DEF Quiet
<1>5. CASE OpenBearer(w)
  <2>0. job[w].at = "verifying" /\ try[w].at = "open"
        BY <1>5 DEF OpenBearer, Trying, At
  <2>1. CASE try' = [try EXCEPT ![w].at = BearerOrder("open"), ![w].opened = TRUE] /\ UNCHANGED job
    <3>1. BearerOrder("open") = "done"
          BY DEF BearerOrder
    <3>2. try'[w].at = "done" /\ \A v \in Worker \ {w} : try'[v] = try[v]
          BY <1>0, <2>1, <3>1, TryWrote DEF TryNow
    <3>3. JobNow(w, "verifying", job[w].sid, job[w].evicted, job[w].cost)
          BY <1>0, <2>0, <2>1 DEF JobNow, JobShape
    <3> QED BY <1>0, <2>0, <3>2, <3>3, CostKept, SMTT(30)
  <2>2. CASE FaultRefused(w)
    <3>1. GoTo(w, "refused") /\ try' = [try EXCEPT ![w].at = "none"]
          BY <2>2 DEF FaultRefused
    <3>2. JobNow(w, "refused", job[w].sid, job[w].evicted, job[w].cost)
          BY <1>0, <3>1, JobWrote
    <3>3. /\ try'[w].kind = try[w].kind /\ try'[w].opened = try[w].opened
          /\ \A v \in Worker \ {w} : try'[v] = try[v]
          BY <1>0, <3>1, TryWrote DEF TryNow
    <3>4. ~Opened(try[w])
          BY <1>0, <2>0 DEF Trying, Quiet
    <3> QED BY <1>0, <2>0, <3>2, <3>3, <3>4, CostKept, SMTT(30) DEF Opened
  <2> QED BY <1>5, <2>1, <2>2 DEF OpenBearer, sessionVars
<1>6. CASE SessionStep(w) /\ UNCHANGED loginVars
      BY <1>6, SessionCost DEF loginVars
<1> QED BY <1>0, <1>1, <1>2, <1>3, <1>4, <1>5, <1>6, LoginVerifies, VerifyCost DEF LoginStep

LEMMA CostStep == CostInv /\ TicketInv /\ [Next]_vars => CostInv'
<1> SUFFICES ASSUME CostInv, TicketInv, [Next]_vars PROVE CostInv'
    OBVIOUS
<1>1. CASE UNCHANGED <<job, try>>
      BY <1>1 DEF CostInv, JobShape, Trying, At
<1>2. CASE (\E b \in Browser : IssueTicket(b)) \/ ChangePassword \/ RotateKey \/ IntervalPasses
      BY <1>1, <1>2 DEF IssueTicket, ChangePassword, RotateKey, IntervalPasses, sessionVars
<1>3. CASE Tick /\ UNCHANGED loginVars
      BY <1>1, <1>3 DEF Tick, loginVars
<1>4. CASE UNCHANGED vars
      BY <1>1, <1>4 DEF vars, loginVars, sessionVars
<1> QED BY <1>2, <1>3, <1>4, LoginCost DEF Next

LEMMA AlwaysCostInv == Spec => []CostInv
<1> QED BY InitCostInv, AlwaysTicketInv, CostStep, PTL DEF Spec

LEMMA CostFree == CostInv => RefusedLoginCostsNothing
BY DEF CostInv, RefusedLoginCostsNothing, At, Trying, Quiet
-----------------------------------------------------------------------------
(***************************************************************************)
(* The cap.                                                                *)
(***************************************************************************)
\* ListPushTrimOverCap: what it keeps and what it trims of the list it pushed to.
Kept(p) == SubSeq(p, Over(p) + 1, Len(p))
Gone(p) == SubSeq(p, 1, Over(p))

Splits(l, x, p) ==
    /\ Kept(p) \in Seq(Nat) /\ Len(Kept(p)) <= MaxSessionsPerUser
    /\ Range(Kept(p)) \subseteq Range(l) \cup {x}
    /\ \A y \in Range(l) \cup {x} : y \in Range(Kept(p)) \/ y \in Range(Gone(p))
    /\ Over(p) = 0 => Range(Gone(p)) = {}

LEMMA PushKeeps ==
    ASSUME NEW l \in Seq(Nat), NEW x \in Nat
    PROVE  Splits(l, x, Pushed(l, x))
<1> DEFINE p == Pushed(l, x)
           kept == Kept(p)
           gone == Gone(p)
<1>0. kept = SubSeq(p, Over(p) + 1, Len(p)) /\ gone = SubSeq(p, 1, Over(p)) /\ p = Append(l, x)
      BY DEF Kept, Gone, Pushed
<1> SUFFICES /\ kept \in Seq(Nat) /\ Len(kept) <= MaxSessionsPerUser
             /\ Range(kept) \subseteq Range(l) \cup {x}
             /\ \A y \in Range(l) \cup {x} : y \in Range(kept) \/ y \in Range(gone)
             /\ Over(p) = 0 => Range(gone) = {}
      BY DEF Splits
<1> HIDE DEF p, kept, gone
<1> DEFINE over == Over(p)
<1>1. /\ p \in Seq(Nat) /\ Len(p) \in Nat
      /\ \A y \in Range(l) \cup {x} : \E i \in 1..Len(p) : p[i] = y
      /\ \A i \in 1..Len(p) : p[i] \in Range(l) \cup {x}
  <2>0. p = Append(l, x)
        BY <1>0
  <2>1. p \in Seq(Nat) /\ Len(p) = Len(l) + 1 /\ p[Len(l) + 1] = x /\ Len(l) \in Nat
        BY <2>0, SMTT(30)
  <2>2. \A i \in 1..Len(l) : p[i] = l[i] /\ i \in 1..(Len(l) + 1)
        BY <2>0, SMTT(30)
  <2>3. Len(l) + 1 \in 1..(Len(l) + 1) /\ Len(p) \in Nat
        BY <2>1, SMTT(30)
  <2>4. \A i \in 1..(Len(l) + 1) : i = Len(l) + 1 \/ i \in 1..Len(l)
        BY <2>1, SMTT(30)
  <2>5. DOMAIN l = 1..Len(l)
        BY SMTT(30)
  <2>6. \A y \in Range(l) \cup {x} : \E i \in 1..Len(p) : p[i] = y
        BY <2>1, <2>2, <2>3, <2>5 DEF Range
  <2>7. \A i \in 1..Len(p) : p[i] \in Range(l) \cup {x}
        BY <2>1, <2>2, <2>4, <2>5 DEF Range
  <2> QED BY <2>1, <2>3, <2>6, <2>7
<1>2. over \in 0..Len(p) /\ Len(p) - over <= MaxSessionsPerUser
      BY <1>1, ConfValid, SMTT(30) DEF Over
<1>3. kept = SubSeq(p, over + 1, Len(p)) /\ gone = SubSeq(p, 1, over)
      BY <1>0
<1> HIDE DEF over
<1>4. /\ kept \in Seq(Nat) /\ Len(kept) = Len(p) - over
      /\ \A i \in 1..(Len(p) - over) : kept[i] = p[over + i]
  <2> DEFINE k == SubSeq(p, over + 1, Len(p))
  <2>1. p \in Seq(Nat) /\ over \in Nat /\ Len(p) \in Nat /\ over <= Len(p)
        BY <1>1, <1>2, SMTT(30)
  <2>2. k \in Seq(Nat) /\ Len(k) = Len(p) - over
        BY ONLY <2>1, SMTT(30)
  <2>3. \A i \in 1..(Len(p) - over) : k[i] = p[over + i]
        BY ONLY <2>1, SMTT(30)
  <2> HIDE DEF k
  <2>4. kept = k
        BY <1>3 DEF k
  <2> QED BY <2>2, <2>3, <2>4
<1>5. /\ gone \in Seq(Nat) /\ Len(gone) = over
      /\ \A i \in 1..over : gone[i] = p[i]
  <2> DEFINE k == SubSeq(p, 1, over)
  <2>1. p \in Seq(Nat) /\ over \in Nat /\ Len(p) \in Nat /\ over <= Len(p)
        BY <1>1, <1>2, SMTT(30)
  <2>2. k \in Seq(Nat) /\ Len(k) = over
        BY ONLY <2>1, SMTT(30)
  <2>3. \A i \in 1..over : k[i] = p[i]
        BY ONLY <2>1, SMTT(30)
  <2> HIDE DEF k
  <2>4. gone = k
        BY <1>3 DEF k
  <2> QED BY <2>2, <2>3, <2>4
<1>6. DOMAIN kept = 1..(Len(p) - over) /\ DOMAIN gone = 1..over
      BY <1>4, <1>5, SMTT(30)
<1>7. ASSUME NEW i \in 1..Len(p)
      PROVE  p[i] \in Range(kept) \/ p[i] \in Range(gone)
  <2>1. CASE i <= over
    <3>1. i \in 1..over
          BY <1>1, <1>2, <2>1, SMTT(30)
    <3> QED BY <1>5, <1>6, <3>1 DEF Range
  <2>2. CASE ~(i <= over)
    <3>1. i - over \in 1..(Len(p) - over) /\ over + (i - over) = i
          BY <1>1, <1>2, <2>2, SMTT(30)
    <3> QED BY <1>4, <1>6, <3>1 DEF Range
  <2> QED BY <2>1, <2>2
<1>8. Range(kept) \subseteq Range(l) \cup {x}
  <2>1. \A i \in 1..(Len(p) - over) : over + i \in 1..Len(p)
        BY <1>1, <1>2, SMTT(30)
  <2>2. \A i \in DOMAIN kept : kept[i] \in Range(l) \cup {x}
        BY <1>1, <1>4, <1>6, <2>1
  <2> QED BY <2>2 DEF Range
<1>9. over = 0 => Range(gone) = {}
  <2>1. 1..0 = {}
        BY SMTT(30)
  <2> QED BY <1>6, <2>1 DEF Range
<1>10. \A y \in Range(l) \cup {x} : y \in Range(kept) \/ y \in Range(gone)
      BY <1>1, <1>7
<1> QED BY <1>2, <1>4, <1>8, <1>9, <1>10 DEF over

\* ListRemove: the list gets no longer and loses no other id.
Others(l, x) == {i \in DOMAIN l : l[i] # x}
Rest(l, n, kept) == [i \in 1..n |-> l[kept[i]]]

LEMMA RemoveKeeps ==
    ASSUME NEW l \in Seq(Nat), NEW x, NEW n \in 0..Len(l), NEW kept \in [1..n -> Others(l, x)],
           Range(kept) = Others(l, x)
    PROVE  /\ Rest(l, n, kept) \in Seq(Nat) /\ Len(Rest(l, n, kept)) <= Len(l)
           /\ Range(Rest(l, n, kept)) \subseteq Range(l)
           /\ \A y \in Range(l) : y # x => y \in Range(Rest(l, n, kept))
<1> DEFINE rest == [i \in 1..n |-> l[kept[i]]]
           others == {i \in DOMAIN l : l[i] # x}
<1>0. rest = Rest(l, n, kept) /\ kept \in [1..n -> others] /\ Range(kept) = others
      BY DEF Rest, Others
<1>1. Len(l) \in Nat /\ n \in Nat /\ n <= Len(l) /\ DOMAIN l = 1..Len(l)
      BY SMTT(30)
<1>2. \A i \in 1..n : kept[i] \in DOMAIN l
      BY <1>0
<1>3. \A i \in DOMAIN l : l[i] \in Nat
      BY SMTT(30)
<1>4. rest \in [1..n -> Nat]
      BY <1>2, <1>3
<1>5. rest \in Seq(Nat) /\ Len(rest) = n
      BY <1>1, <1>4, SMTT(30)
<1>6. Range(rest) \subseteq Range(l)
      BY <1>2 DEF Range
<1>7. ASSUME NEW y \in Range(l), y # x
      PROVE  y \in Range(rest)
  <2>1. PICK i \in DOMAIN l : l[i] = y
        BY <1>7 DEF Range
  <2>2. i \in Range(kept)
        BY <1>0, <1>7, <2>1
  <2>3. PICK m \in 1..n : kept[m] = i
        BY <2>2 DEF Range
  <2>4. rest[m] = y /\ DOMAIN rest = 1..n
        BY <2>1, <2>3
  <2> QED BY <2>3, <2>4 DEF Range
<1> QED BY <1>0, <1>1, <1>5, <1>6, <1>7

LEMMA EmptyRange == Range(<<>>) = {}
BY SMTT(30) DEF Range

LEMMA InitRowInv == Init => RowInv
<1> SUFFICES ASSUME Init PROVE RowInv
    OBVIOUS
<1>1. /\ born = 0 /\ ttl = [s \in Session |-> 0] /\ list = <<>> /\ listTTL = 0 /\ faults = 0
      /\ job = [w \in Worker |-> Idle]
      BY DEF Init, SessionInit
<1>2. Range(list) = {} /\ list \in Seq(Nat) /\ Len(list) = 0
      BY <1>1, SMTT(30) DEF Range
<1>3. \A w \in Worker : job[w].at = "idle"
      BY <1>1 DEF Idle, Job
<1>4. ExpireIn \in Nat /\ MaxSessionsPerUser \in Nat /\ 0 <= ExpireIn /\ 0 <= MaxSessionsPerUser
      BY ConfValid, SMTT(30)
<1>5. ttl \in [Session -> Nat] /\ \A s \in Session : ttl[s] = 0
      BY <1>1, SMTT(30)
<1>6. RowTypes
      BY <1>1, <1>2, <1>3, <1>4, <1>5, SMTT(30) DEF RowTypes, At
<1>7. Listed
      BY <1>2, <1>5, SMTT(30) DEF Listed
<1> QED BY <1>6, <1>7 DEF RowInv

\* A fault leaves nothing to say but the types.
LEMMA FaultCounts ==
    ASSUME faults \in Nat
    PROVE  /\ faults' = faults + 1 => faults' \in Nat /\ faults' # 0
           /\ faults' = faults => faults' \in Nat
BY SMTT(30)

LEMMA RowAside ==
    ASSUME RowInv, NEW w \in Worker, Aside(w)
    PROVE  RowInv'
<1>0. RowTypes /\ faults \in Nat
      BY DEF RowInv, RowTypes
<1>1. PICK a, s, e, c :
        /\ JobNow(w, a, s, e, c) /\ a # "push"
        /\ faults' = faults + 1 \/ job[w].at \notin {"push", "evict", "delete", "expireList"}
      BY DEF Aside
<1>2. UNCHANGED <<born, ttl, list, listTTL>> /\ (faults' = faults \/ faults' = faults + 1)
      BY DEF Aside, rows
<1>3. job'[w].at = a /\ \A v \in Worker \ {w} : job'[v] = job[v]
      BY <1>1 DEF JobNow
<1>4. faults' \in Nat
      BY <1>0, <1>2, FaultCounts
<1>5. RowTypes'
      BY <1>0, <1>1, <1>2, <1>3, <1>4 DEF RowTypes, At
<1>6. ASSUME faults' = 0
      PROVE  Listed'
  <2>1. Listed /\ job[w].at \notin {"push", "evict", "delete", "expireList"}
        BY <1>0, <1>1, <1>2, <1>6, FaultCounts DEF RowInv
  <2>2. \A v \in Worker : \A x : Covers(job[v], x) => Covers(job'[v], x)
        BY <1>3, <2>1 DEF Covers
  <2>3. \A v \in Worker : At(v, "expireList") => At(v, "expireList")'
        BY <1>3, <2>1 DEF At
  <2>4. \A x \in Session : ttl[x] > 0 =>
          x \in Range(list) \/ \E v \in Worker : Covers(job'[v], x)
        BY <2>1, <2>2 DEF Listed
  <2>5. \/ \E v \in Worker : At(v, "expireList")'
        \/ \A x \in Session : x \in Range(list) => ttl[x] <= listTTL
        BY <2>1, <2>3 DEF Listed
  <2> QED BY <1>2, <2>4, <2>5 DEF Listed, Covers, At
<1> QED BY <1>5, <1>6 DEF RowInv

\* Rows are deleted by a request that holds no others.
LEMMA RowDeleted ==
    ASSUME RowInv, NEW w \in Worker, NEW a, NEW s, NEW e, NEW c, JobNow(w, a, s, e, c), a # "push",
           job[w].at # "expireList", UNCHANGED <<born, list, listTTL>>, NEW R, Deleted(R),
           \A x : Covers(job[w], x) => x \in R
    PROVE  RowInv'
<1>0. RowTypes /\ faults \in Nat /\ ttl \in [Session -> Nat]
      BY DEF RowInv, RowTypes
<1>1. job'[w].at = a /\ \A v \in Worker \ {w} : job'[v] = job[v]
      BY DEF JobNow
<1>2. \/ faults' = faults /\ ttl' = [x \in Session |-> IF x \in R THEN 0 ELSE ttl[x]]
      \/ faults' = faults + 1 /\ ttl' = ttl
      BY DEF Deleted, Fault, Unfaulted
<1>3. faults' \in Nat
      BY <1>0, <1>2, FaultCounts
<1>4. /\ ttl' \in [Session -> Nat]
      /\ \A x \in Session : ttl'[x] <= ttl[x] /\ ttl'[x] <= ExpireIn
  <2>1. ExpireIn \in Nat /\ \A x \in Session : ttl[x] \in Nat /\ ttl[x] <= ExpireIn
        BY <1>0, ConfValid DEF RowTypes
  <2>2. \A x \in Session : 0 <= ttl[x] /\ 0 <= ExpireIn /\ ttl[x] <= ttl[x]
        BY <2>1, SMTT(30)
  <2>3. 0 \in Nat
        BY SMTT(30)
  <2> QED BY <1>0, <1>2, <2>1, <2>2, <2>3
<1>5. RowTypes'
      BY <1>0, <1>1, <1>3, <1>4 DEF RowTypes, At
<1>6. ASSUME faults' = 0
      PROVE  Listed'
  <2>1. Listed /\ ttl' = [x \in Session |-> IF x \in R THEN 0 ELSE ttl[x]]
        BY <1>0, <1>2, <1>6, FaultCounts DEF RowInv
  <2>2. ASSUME NEW x \in Session, ttl'[x] > 0
        PROVE  x \in Range(list) \/ \E v \in Worker : Covers(job'[v], x)
    <3>1. x \notin R /\ ttl[x] > 0
          BY <1>0, <2>1, <2>2, SMTT(30)
    <3>2. \A v \in Worker : Covers(job[v], x) => Covers(job'[v], x)
          BY <1>1, <3>1
    <3> QED BY <2>1, <3>1, <3>2 DEF Listed
  <2>3. \A v \in Worker : At(v, "expireList") => At(v, "expireList")'
        BY <1>1 DEF At
  <2>4. ASSUME NEW x \in Session, ttl[x] <= listTTL
        PROVE  ttl'[x] <= listTTL
    <3>1. ttl[x] \in Nat /\ ttl'[x] \in Nat /\ listTTL \in Nat /\ ttl'[x] <= ttl[x]
          BY <1>0, <1>4 DEF RowTypes
    <3> QED BY <2>4, <3>1, SMTT(30)
  <2>5. \/ \E v \in Worker : At(v, "expireList")'
        \/ \A x \in Session : x \in Range(list) => ttl'[x] <= listTTL
        BY <2>1, <2>3, <2>4 DEF Listed
  <2> QED BY <2>2, <2>5 DEF Listed, Covers, At
<1> QED BY <1>5, <1>6 DEF RowInv

\* StoreUserSession writes the row of a new id, which no list names yet.
LEMMA RowStored ==
    ASSUME RowInv, JobShape, NEW w \in Worker, StoreUserSession(w) \/ StoreUserSessionFails(w)
    PROVE  RowInv'
<1>0. RowTypes /\ faults \in Nat /\ born \in Nat /\ ttl \in [Session -> Nat]
      BY DEF RowInv, RowTypes
<1> DEFINE n == born + 1
<1>1. /\ job[w].at = "store" /\ born' = n /\ UNCHANGED <<list, listTTL>>
      /\ ttl' = ttl \/ ttl' = [ttl EXCEPT ![n] = ExpireIn]
      BY DEF StoreUserSession, StoreUserSessionFails, At
<1>2. /\ n \in Nat /\ n \in 1..n /\ n \notin 1..born /\ \A x \in 1..born : x \in 1..n
      BY <1>0, SMTT(30)
<1>3. \E a, s : /\ JobNow(w, a, s, job[w].evicted, job[w].cost)
                /\ a = "push" => s = n
                /\ StoreUserSession(w) => a = "push"
  <2>1. CASE StoreUserSession(w)
        BY <2>1, JobWrote DEF StoreUserSession
  <2>2. CASE StoreUserSessionFails(w) /\ ~StoreUserSession(w)
    <3>1. JobNow(w, "refused", job[w].sid, job[w].evicted, job[w].cost)
          BY <2>2, JobWrote DEF StoreUserSessionFails
    <3>2. /\ "refused" = "push" => job[w].sid = n
          /\ StoreUserSession(w) => "refused" = "push"
          BY <2>2
    <3> QED BY ONLY <3>1, <3>2, ZenonT(30)
  <2> QED BY <2>1, <2>2
<1>4. PICK a, s : /\ JobNow(w, a, s, job[w].evicted, job[w].cost)
                  /\ a = "push" => s = n
                  /\ StoreUserSession(w) => a = "push"
      BY <1>3
<1>5. job'[w].at = a /\ job'[w].sid = s /\ \A v \in Worker \ {w} : job'[v] = job[v]
      BY <1>4 DEF JobNow
<1>6. /\ faults' = faults \/ faults' = faults + 1
      /\ ~StoreUserSession(w) => faults' = faults + 1
      BY DEF StoreUserSession, StoreUserSessionFails, Fault
<1>7. faults' \in Nat
      BY <1>0, <1>6, FaultCounts
<1> HIDE DEF n
<1>8. ttl' \in [Session -> Nat] /\ \A x \in Session : ttl'[x] <= ExpireIn
  <2>1. ExpireIn \in Nat /\ ExpireIn <= ExpireIn
        BY ConfValid, SMTT(30)
  <2>2. \A x \in Session : ttl[x] <= ExpireIn
        BY <1>0 DEF RowTypes
  <2> QED BY <1>0, <1>1, <2>1, <2>2
<1>9. RowTypes'
  <2>1. \A v \in Worker : At(v, "push")' => job'[v].sid \in 1..n
        BY <1>0, <1>2, <1>4, <1>5 DEF RowTypes, At
  <2>2. Range(list) \subseteq 1..n
        BY <1>0, <1>2 DEF RowTypes
  <2> QED BY <1>0, <1>1, <1>2, <1>7, <1>8, <2>1, <2>2 DEF RowTypes
<1>10. ASSUME faults' = 0
       PROVE  Listed'
  <2>1. Listed /\ StoreUserSession(w)
        BY <1>0, <1>6, <1>10, FaultCounts DEF RowInv
  <2>2. \A v \in Worker : \A x : Covers(job[v], x) => Covers(job'[v], x)
        BY <1>1, <1>5 DEF Covers
  <2>3. Covers(job'[w], n)
        BY <1>4, <1>5, <2>1 DEF Covers
  <2>4. \A x \in Session : x # n => ttl'[x] = ttl[x]
        BY <1>0, <1>1
  <2>5. \A x \in Session : ttl'[x] > 0 =>
          x \in Range(list) \/ \E v \in Worker : Covers(job'[v], x)
        BY <2>1, <2>2, <2>3, <2>4 DEF Listed
  <2>6. \A v \in Worker : At(v, "expireList") => At(v, "expireList")'
        BY <1>1, <1>5 DEF At
  <2>7. n \notin Range(list)
        BY <1>0, <1>2 DEF RowTypes
  <2>8. \/ \E v \in Worker : At(v, "expireList")'
        \/ \A x \in Session : x \in Range(list) => ttl'[x] <= listTTL
        BY <2>1, <2>4, <2>6, <2>7 DEF Listed
  <2> QED BY <1>1, <2>5, <2>8 DEF Listed, Covers, At
<1> QED BY <1>9, <1>10 DEF RowInv

\* PushEvictOverCap: what the push trims is in the hands of the login that pushed.
LEMMA RowPushed ==
    ASSUME RowInv, JobShape, NEW w \in Worker, PushEvictOverCap(w)
    PROVE  RowInv'
<1>0. /\ RowTypes /\ faults \in Nat /\ born \in Nat /\ list \in Seq(Nat)
      /\ Range(list) \subseteq 1..born /\ \A x \in 1..born : x \in Nat
      /\ ExpireIn \in Nat /\ ExpireIn # 0
      BY ConfValid, SMTT(30) DEF RowInv, RowTypes
<1> DEFINE x == job[w].sid
           once == Pushed(list, x)
           kept == Kept(once)
           gone == Gone(once)
           twice == Pushed(kept, x)
           kept2 == Kept(twice)
           gone2 == Gone(twice)
<1>1. job[w].at = "push" /\ x \in 1..born /\ x \in Nat
      BY <1>0 DEF PushEvictOverCap, At, RowTypes
<1>2. /\ kept \in Seq(Nat) /\ Len(kept) <= MaxSessionsPerUser
      /\ Range(kept) \subseteq Range(list) \cup {x}
      /\ \A y \in Range(list) \cup {x} : y \in Range(kept) \/ y \in Range(gone)
      /\ Over(once) = 0 => Range(gone) = {}
  <2>1. Splits(list, x, once)
        BY <1>0, <1>1, PushKeeps
  <2> QED BY <2>1 DEF Splits
<1>3. /\ kept2 \in Seq(Nat) /\ Len(kept2) <= MaxSessionsPerUser
      /\ Range(kept2) \subseteq Range(kept) \cup {x}
  <2> HIDE DEF kept
  <2>1. Splits(kept, x, twice)
        BY <1>1, <1>2, PushKeeps
  <2> QED BY <2>1 DEF Splits
<1>4. /\ UNCHANGED <<born, ttl>> /\ listTTL' = ExpireIn
      /\ \/ /\ faults' = faults /\ list' = kept
            /\ job' = [job EXCEPT ![w].evicted = gone,
                                  ![w].at = IF Over(once) = 0 THEN "finish" ELSE "evict"]
         \/ /\ faults' = faults + 1 /\ list' = kept2
            /\ job' = [job EXCEPT ![w].evicted = gone2,
                                  ![w].at = IF Over(twice) = 0 THEN "finish" ELSE "evict"]
  <2>1. After("push") = "finish" /\ 2 # 1
        BY SMTT(30) DEF After
  <2>2. CASE PushTimes(w, 1) /\ Unfaulted
        BY <2>1, <2>2 DEF PushTimes, Unfaulted, Kept, Gone
  <2>3. CASE PushTimes(w, 2) /\ Fault
        BY <2>1, <2>3 DEF PushTimes, Fault, Kept, Gone
  <2> QED BY <2>2, <2>3 DEF PushEvictOverCap
<1> HIDE DEF once, twice, kept, kept2, gone, gone2, x
<1>5. /\ list' \in Seq(Nat) /\ Len(list') <= MaxSessionsPerUser /\ Range(list') \subseteq 1..born
      /\ faults' = faults => list' = kept
  <2>1. list' = kept \/ list' = kept2
        BY <1>4
  <2>2. faults + 1 # faults
        BY <1>0, SMTT(30)
  <2> QED BY <1>0, <1>1, <1>2, <1>3, <1>4, <2>1, <2>2
<1>6. PICK a, e : /\ JobNow(w, a, job[w].sid, e, job[w].cost) /\ a \in {"finish", "evict"}
                  /\ faults' = faults => e = gone /\ (Over(once) # 0 => a = "evict")
  <2>2. faults + 1 # faults
        BY <1>0, SMTT(30)
  <2>3. CASE faults' = faults
        BY <1>4, <2>2, <2>3, JobWrote
  <2>4. CASE faults' = faults + 1
        BY <1>4, <2>2, <2>4, JobWrote
  <2> QED BY <1>4, <2>3, <2>4
<1>7. /\ job'[w].at = a /\ job'[w].evicted = e
      /\ \A v \in Worker \ {w} : job'[v] = job[v]
      BY <1>6 DEF JobNow
<1>8. faults' \in Nat /\ listTTL' \in Nat /\ listTTL' # 0
      BY <1>0, <1>4, FaultCounts
<1>9. RowTypes'
  <2>1. \A v \in Worker : At(v, "push")' => job'[v].sid \in 1..born
        BY <1>0, <1>6, <1>7 DEF RowTypes, At
  <2> QED BY <1>0, <1>4, <1>5, <1>8, <2>1 DEF RowTypes
<1>10. ASSUME faults' = 0
       PROVE  Listed'
  <2>1. Listed /\ faults' = faults
        BY <1>0, <1>4, <1>10, FaultCounts DEF RowInv
  <2>2. \A y \in Range(gone) : Covers(job'[w], y)
        BY <1>2, <1>6, <1>7, <2>1 DEF Covers
  <2>3. \A v \in Worker : \A y : Covers(job[v], y) /\ y # x => Covers(job'[v], y)
        BY <1>1, <1>7 DEF Covers, x
  <2>4. \A y \in Session : ttl[y] > 0 =>
          y \in Range(kept) \/ \E v \in Worker : Covers(job'[v], y)
        BY <1>2, <2>1, <2>2, <2>3 DEF Listed
  <2>5. \A y \in Session : ttl[y] <= ExpireIn
        BY <1>0 DEF RowTypes
  <2> QED BY <1>4, <1>5, <2>1, <2>4, <2>5 DEF Listed, Covers, At
<1> QED BY <1>9, <1>10 DEF RowInv

\* A push that fails, executed or not.
LEMMA RowUnpushed ==
    ASSUME RowInv, JobShape, NEW w \in Worker, PushFails(w)
    PROVE  RowInv'
<1>0. /\ RowTypes /\ faults \in Nat /\ born \in Nat /\ list \in Seq(Nat)
      /\ Range(list) \subseteq 1..born /\ \A x \in 1..born : x \in Nat
      /\ ExpireIn \in Nat /\ ExpireIn # 0
      BY ConfValid, SMTT(30) DEF RowInv, RowTypes
<1> DEFINE x == job[w].sid
           once == Pushed(list, x)
           kept == Kept(once)
           gone == Gone(once)
<1>1. /\ job[w].at = "push" /\ x \in 1..born /\ x \in Nat
      BY <1>0 DEF PushFails, At, RowTypes
<1>2. /\ kept \in Seq(Nat) /\ Len(kept) <= MaxSessionsPerUser
      /\ Range(kept) \subseteq Range(list) \cup {x}
  <2>1. Splits(list, x, once)
        BY <1>0, <1>1, PushKeeps
  <2> QED BY <2>1 DEF Splits
<1>3. /\ UNCHANGED <<born, ttl>> /\ faults' = faults + 1
      /\ (list' = kept /\ listTTL' = ExpireIn) \/ UNCHANGED <<list, listTTL>>
      BY DEF PushFails, Fault, Kept
<1>4. JobNow(w, "undo", job[w].sid, job[w].evicted, job[w].cost)
      BY JobWrote DEF PushFails
<1>5. \A v \in Worker : At(v, "push")' => job'[v].sid \in 1..born
      BY <1>0, <1>4 DEF RowTypes, At, JobNow
<1> HIDE DEF once, kept, gone, x
<1>6. faults' \in Nat /\ faults' # 0
      BY <1>0, <1>3, FaultCounts
<1>7. /\ list' \in Seq(Nat) /\ Len(list') <= MaxSessionsPerUser /\ Range(list') \subseteq 1..born
      /\ listTTL' \in Nat /\ (listTTL' = 0 => list' = <<>>)
      BY <1>0, <1>1, <1>2, <1>3 DEF RowTypes
<1>8. RowTypes'
      BY <1>0, <1>3, <1>5, <1>6, <1>7 DEF RowTypes
<1> QED BY <1>6, <1>8 DEF RowInv

LEMMA RowRemoved ==
    ASSUME RowInv, JobShape, NEW w \in Worker, Undo(w) \/ Evict(w) \/ DeleteRow(w)
    PROVE  RowInv'
<1>1. CASE Undo(w)
  <2>1. /\ job[w].at = "undo" /\ UNCHANGED <<born, list, listTTL>> /\ Deleted({job[w].sid})
        /\ GoTo(w, "refused")
        BY <1>1 DEF Undo, At
  <2>2. JobNow(w, "refused", job[w].sid, job[w].evicted, job[w].cost)
        BY <2>1, JobWrote
  <2>3. \A x : Covers(job[w], x) => x \in {job[w].sid}
        BY <2>1 DEF Covers
  <2>4. job[w].at # "expireList" /\ "refused" # "push"
        BY <2>1
  <2> QED BY <2>1, <2>2, <2>3, <2>4, RowDeleted
<1>2. CASE Evict(w)
  <2>1. /\ job[w].at = "evict" /\ UNCHANGED <<born, list, listTTL>>
        /\ Deleted(Range(job[w].evicted))
        /\ job' = [job EXCEPT ![w].at = "finish", ![w].evicted = <<>>, ![w].cost = ttl' # ttl]
        BY <1>2 DEF Evict, At, After
  <2>2. JobNow(w, "finish", job[w].sid, <<>>, ttl' # ttl)
        BY <2>1, JobWrote
  <2>3. \A x : Covers(job[w], x) => x \in Range(job[w].evicted)
        BY <2>1 DEF Covers
  <2>4. job[w].at # "expireList" /\ "finish" # "push"
        BY <2>1
  <2> QED BY <2>1, <2>2, <2>3, <2>4, RowDeleted
<1>3. CASE DeleteRow(w)
  <2>1. /\ job[w].at = "delete" /\ UNCHANGED <<born, list, listTTL>> /\ Deleted({job[w].sid})
        /\ Answer(w, 0)
        BY <1>3 DEF DeleteRow, At
  <2>2. JobNow(w, "answer", job[w].sid, job[w].evicted, job[w].cost)
        BY <2>1, JobWrote
  <2>3. \A x : Covers(job[w], x) => x \in {job[w].sid}
        BY <2>1 DEF Covers
  <2>4. job[w].at # "expireList" /\ "answer" # "push"
        BY <2>1
  <2> QED BY <2>1, <2>2, <2>3, <2>4, RowDeleted
<1> QED BY <1>1, <1>2, <1>3

\* The first Expire: the row outlives its list until the second one.
LEMMA RowExtended ==
    ASSUME RowInv, JobShape, NEW w \in Worker, ExtendRow(w)
    PROVE  RowInv'
<1>0. RowTypes /\ faults \in Nat /\ ttl \in [Session -> Nat]
      BY DEF RowInv, RowTypes
<1>1. /\ job[w].at = "expireRow" /\ UNCHANGED <<born, list, listTTL>>
      /\ faults' = faults \/ faults' = faults + 1
      /\ ttl' = ttl \/ ttl' = [ttl EXCEPT ![job[w].sid] = Renewed(ttl[job[w].sid])]
      BY DEF ExtendRow, At, Fault, Unfaulted
<1>2. JobNow(w, "expireList", job[w].sid, job[w].evicted, job[w].cost)
      BY JobWrote DEF ExtendRow
<1>3. job'[w].at = "expireList" /\ \A v \in Worker \ {w} : job'[v] = job[v]
      BY <1>2 DEF JobNow
<1>4. faults' \in Nat
      BY <1>0, <1>1, FaultCounts
<1>5. /\ ttl' \in [Session -> Nat]
      /\ \A x \in Session : ttl'[x] <= ExpireIn /\ (ttl'[x] > 0 => ttl[x] > 0)
  <2>1. /\ ExpireIn \in Nat /\ 0 \in Nat /\ ExpireIn <= ExpireIn /\ 0 <= ExpireIn /\ ~(0 > 0)
        /\ \A x \in Session : ttl[x] <= ExpireIn
        BY <1>0, ConfValid, SMTT(30) DEF RowTypes
  <2>2. \A x \in Session : /\ Renewed(ttl[x]) \in Nat /\ Renewed(ttl[x]) <= ExpireIn
                           /\ Renewed(ttl[x]) > 0 => ttl[x] > 0
        BY <2>1 DEF Renewed
  <2>3. \A x \in Session : ttl'[x] = ttl[x] \/ ttl'[x] = Renewed(ttl[x])
        BY <1>0, <1>1
  <2>4. ttl' \in [Session -> Nat]
        BY <1>0, <1>1, <2>2
  <2> QED BY <2>1, <2>2, <2>3, <2>4
<1>6. RowTypes'
      BY <1>0, <1>1, <1>3, <1>4, <1>5 DEF RowTypes, At
<1>7. ASSUME faults' = 0
      PROVE  Listed'
  <2>1. Listed
        BY <1>0, <1>1, <1>7, FaultCounts DEF RowInv
  <2>2. \A v \in Worker : \A x : Covers(job[v], x) => Covers(job'[v], x)
        BY <1>1, <1>3 DEF Covers
  <2>3. \A x \in Session : ttl'[x] > 0 =>
          x \in Range(list) \/ \E v \in Worker : Covers(job'[v], x)
        BY <1>5, <2>1, <2>2 DEF Listed
  <2> QED BY <1>1, <1>3, <2>3 DEF Listed, Covers, At
<1> QED BY <1>6, <1>7 DEF RowInv

\* The second Expire: the list lives as long as any row it names, or names none.
LEMMA ListExtended ==
    ASSUME RowInv, JobShape, NEW w \in Worker, ExtendList(w)
    PROVE  RowInv'
<1>0. RowTypes /\ faults \in Nat /\ listTTL \in Nat
      BY DEF RowInv, RowTypes
<1>1. /\ job[w].at = "expireList" /\ UNCHANGED <<born, ttl, list>>
      /\ \/ faults' = faults /\ listTTL' = Renewed(listTTL)
         \/ faults' = faults + 1 /\ listTTL' = listTTL
      BY DEF ExtendList, At, Fault, Unfaulted
<1>2. JobNow(w, "inner", job[w].sid, job[w].evicted, job[w].cost)
      BY JobWrote DEF ExtendList
<1>3. job'[w].at = "inner" /\ \A v \in Worker \ {w} : job'[v] = job[v]
      BY <1>2 DEF JobNow
<1>4. faults' \in Nat
      BY <1>0, <1>1, FaultCounts
<1>5. ExpireIn \in Nat /\ ExpireIn # 0 /\ (listTTL > 0 \/ listTTL = 0) /\ ~(0 > 0) /\ 0 \in Nat
      BY <1>0, ConfValid, SMTT(30)
<1>6. listTTL' \in Nat /\ (listTTL' = 0 => list = <<>>)
      BY <1>0, <1>1, <1>5 DEF RowTypes, Renewed
<1>7. RowTypes'
      BY <1>0, <1>1, <1>3, <1>4, <1>6 DEF RowTypes, At
<1>8. ASSUME faults' = 0
      PROVE  Listed'
  <2>1. Listed /\ listTTL' = Renewed(listTTL)
        BY <1>0, <1>1, <1>8, FaultCounts DEF RowInv
  <2>2. \A v \in Worker : \A x : Covers(job[v], x) => Covers(job'[v], x)
        BY <1>1, <1>3 DEF Covers
  <2>3. \A x \in Session : ttl[x] > 0 =>
          x \in Range(list) \/ \E v \in Worker : Covers(job'[v], x)
        BY <2>1, <2>2 DEF Listed
  <2>4. \A x \in Session : x \in Range(list) => ttl[x] <= listTTL'
    <3>1. CASE listTTL > 0
          BY <1>0, <2>1, <3>1 DEF RowTypes, Renewed
    <3>2. CASE listTTL = 0
      <4>1. list = <<>>
            BY <1>0, <3>2 DEF RowTypes
      <4> QED BY <4>1, EmptyRange
    <3> QED BY <1>5, <3>1, <3>2
  <2> QED BY <1>1, <2>3, <2>4 DEF Listed, Covers, At
<1> QED BY <1>7, <1>8 DEF RowInv

\* A logout takes its session off the list before it deletes the row.
LEMMA RowUnlisted ==
    ASSUME RowInv, JobShape, NEW w \in Worker, Unlist(w)
    PROVE  RowInv'
<1>0. RowTypes /\ faults \in Nat /\ list \in Seq(Nat) /\ listTTL \in Nat
      BY DEF RowInv, RowTypes
<1> DEFINE x == job[w].sid
           others == {i \in DOMAIN list : list[i] # x}
<1>1. job[w].at = "unlist" /\ UNCHANGED <<born, ttl>> /\ GoTo(w, "delete")
      BY DEF Unlist, At
<1>2. JobNow(w, "delete", job[w].sid, job[w].evicted, job[w].cost)
      BY <1>1, JobWrote
<1>3. job'[w].at = "delete" /\ job'[w].sid = x /\ \A v \in Worker \ {w} : job'[v] = job[v]
      BY <1>2 DEF JobNow
<1>4. \/ /\ \E n \in 0..Len(list) : \E kept \in [1..n -> others] :
              Range(kept) = others /\ list' = [i \in 1..n |-> list[kept[i]]]
         /\ listTTL' = IF list' = <<>> THEN 0 ELSE listTTL
         /\ faults' = faults
      \/ UNCHANGED <<list, listTTL>> /\ faults' = faults + 1
      BY DEF Unlist, Fault, Unfaulted
<1>5. faults' \in Nat
      BY <1>0, <1>4, FaultCounts
<1>6. /\ list' \in Seq(Nat) /\ Len(list') <= Len(list) /\ Range(list') \subseteq Range(list)
      /\ \A y \in Range(list) : y # x => y \in Range(list')
  <2>1. CASE UNCHANGED list
        BY <1>0, <2>1, SMTT(30)
  <2>2. CASE \E n \in 0..Len(list) : \E kept \in [1..n -> others] :
               Range(kept) = others /\ list' = [i \in 1..n |-> list[kept[i]]]
    <3>1. PICK n \in 0..Len(list) : \E kept \in [1..n -> others] :
               Range(kept) = others /\ list' = [i \in 1..n |-> list[kept[i]]]
          BY <2>2
    <3>2. PICK kept \in [1..n -> others] :
               Range(kept) = others /\ list' = [i \in 1..n |-> list[kept[i]]]
          BY <3>1
    <3>3. list' = Rest(list, n, kept) /\ others = Others(list, x)
          BY <3>2 DEF Rest, Others
    <3> HIDE DEF others, x
    <3>4. kept \in [1..n -> Others(list, x)] /\ Range(kept) = Others(list, x)
          BY <3>2, <3>3
    <3>5. /\ Rest(list, n, kept) \in Seq(Nat) /\ Len(Rest(list, n, kept)) <= Len(list)
          /\ Range(Rest(list, n, kept)) \subseteq Range(list)
          /\ \A y \in Range(list) : y # x => y \in Range(Rest(list, n, kept))
          BY <1>0, <3>4, RemoveKeeps
    <3> QED BY <3>3, <3>5
  <2> QED BY <1>4, <2>1, <2>2
<1>7. /\ Len(list') <= MaxSessionsPerUser /\ listTTL' \in Nat /\ (listTTL' = 0 => list' = <<>>)
  <2>1. Len(list) <= MaxSessionsPerUser /\ Len(list) \in Nat /\ Len(list') \in Nat
        BY <1>0, <1>6, SMTT(30) DEF RowTypes
  <2>2. Len(list') <= MaxSessionsPerUser /\ 0 \in Nat
        BY <1>6, <2>1, ConfValid, SMTT(30)
  <2>3. listTTL' = 0 \/ listTTL' = listTTL
        BY <1>4
  <2>4. listTTL' = 0 => list' = <<>>
    <3>1. listTTL = 0 => list = <<>>
          BY <1>0 DEF RowTypes
    <3>2. list = <<>> => list' = <<>>
      <4>1. list = <<>> => Len(list') = 0
            BY <1>6, <2>1, SMTT(30)
      <4> QED BY <1>6, <4>1, SMTT(30)
    <3> QED BY <1>4, <3>1, <3>2
  <2> QED BY <1>0, <2>2, <2>3, <2>4
<1>8. RowTypes'
      BY <1>0, <1>1, <1>3, <1>5, <1>6, <1>7 DEF RowTypes, At
<1>9. ASSUME faults' = 0
      PROVE  Listed'
  <2>1. Listed
        BY <1>0, <1>4, <1>9, FaultCounts DEF RowInv
  <2>2. \A v \in Worker : \A y : Covers(job[v], y) => Covers(job'[v], y)
        BY <1>1, <1>3 DEF Covers
  <2>3. Covers(job'[w], x)
        BY <1>3 DEF Covers
  <2>4. \A y \in Session : ttl[y] > 0 =>
          y \in Range(list') \/ \E v \in Worker : Covers(job'[v], y)
        BY <1>6, <2>1, <2>2, <2>3 DEF Listed
  <2>5. \A v \in Worker : At(v, "expireList") => At(v, "expireList")'
        BY <1>1, <1>3 DEF At
  <2>6. CASE list' = <<>>
    <3>1. \A y \in Session : y \notin Range(list')
          BY <2>6, EmptyRange
    <3> QED BY <1>1, <2>4, <3>1 DEF Listed, Covers, At
  <2>7. CASE list' # <<>>
    <3>1. listTTL' = listTTL
          BY <1>4, <2>7
    <3>2. \/ \E v \in Worker : At(v, "expireList")'
          \/ \A y \in Session : y \in Range(list') => ttl[y] <= listTTL
          BY <1>6, <2>1, <2>5 DEF Listed
    <3> QED BY <1>1, <2>4, <3>1, <3>2 DEF Listed, Covers, At
  <2> QED BY <2>6, <2>7
<1> QED BY <1>8, <1>9 DEF RowInv

\* A list dies with or after the last of its rows.
LEMMA RowTicked ==
    ASSUME RowInv, Tick
    PROVE  RowInv'
<1>0. RowTypes /\ faults \in Nat /\ ttl \in [Session -> Nat] /\ listTTL \in Nat /\ born \in Nat
      BY DEF RowInv, RowTypes
<1>1. /\ \A w \in Worker : ~At(w, "expireList")
      /\ UNCHANGED <<born, job, faults>>
      /\ ttl' = [s \in Session |-> IF ttl[s] > TickLength THEN ttl[s] - TickLength ELSE 0]
      /\ listTTL' = IF listTTL > TickLength THEN listTTL - TickLength ELSE 0
      /\ list' = IF listTTL' = 0 THEN <<>> ELSE list
      BY DEF Tick
<1>2. TickLength \in Nat /\ ExpireIn \in Nat /\ MaxSessionsPerUser \in Nat
      BY ConfValid, SMTT(30)
<1>3. \A n \in Nat :
         LET m == IF n > TickLength THEN n - TickLength ELSE 0 IN
         m \in Nat /\ (m > 0 => n > 0) /\ (n <= ExpireIn => m <= ExpireIn)
      BY <1>2, SMTT(30)
<1>4. listTTL' \in Nat
      BY <1>0, <1>1, <1>3
<1>5. /\ ttl' \in [Session -> Nat]
      /\ \A s \in Session : ttl'[s] <= ExpireIn /\ (ttl'[s] > 0 => ttl[s] > 0)
      /\ \A s \in Session : ttl'[s] = IF ttl[s] > TickLength THEN ttl[s] - TickLength ELSE 0
      BY <1>0, <1>1, <1>3 DEF RowTypes
<1>6. \A s \in Session : ttl[s] <= listTTL => ttl'[s] <= listTTL'
  <2>1. \A m, n \in Nat : m <= n =>
          (IF m > TickLength THEN m - TickLength ELSE 0)
            <= (IF n > TickLength THEN n - TickLength ELSE 0)
        BY <1>2, SMTT(30)
  <2> QED BY <1>0, <1>1, <1>5, <2>1
<1>7. /\ list' \in Seq(Nat) /\ Len(list') <= MaxSessionsPerUser /\ Range(list') \subseteq 1..born
      /\ listTTL' = 0 => list' = <<>>
  <2>1. <<>> \in Seq(Nat) /\ Len(<<>>) <= MaxSessionsPerUser
        BY <1>2, SMTT(30)
  <2> QED BY <1>0, <1>1, <2>1, EmptyRange DEF RowTypes
<1>8. RowTypes'
      BY <1>0, <1>1, <1>4, <1>5, <1>7 DEF RowTypes, At
<1>9. ASSUME faults' = 0
      PROVE  Listed'
  <2>1. Listed
        BY <1>1, <1>9 DEF RowInv
  <2>2. \A s \in Session : s \in Range(list) => ttl'[s] <= listTTL'
        BY <1>1, <1>6, <2>1 DEF Listed
  <2>3. \A s \in Session : s \in Range(list') => ttl'[s] <= listTTL'
        BY <1>1, <2>2, EmptyRange
  <2>4. ASSUME NEW s \in Session, ttl'[s] > 0
        PROVE  s \in Range(list') \/ \E v \in Worker : Covers(job[v], s)
    <3>1. s \in Range(list) \/ \E v \in Worker : Covers(job[v], s)
          BY <1>5, <2>1, <2>4 DEF Listed
    <3>2. ASSUME s \in Range(list)
          PROVE  listTTL' # 0
          BY <1>4, <1>5, <2>2, <2>4, <3>2, SMTT(30)
    <3> QED BY <1>1, <3>1, <3>2
  <2> QED BY <1>1, <2>3, <2>4 DEF Listed, Covers, At
<1> QED BY <1>8, <1>9 DEF RowInv

\* A login's own steps leave the rows alone.
LEMMA LoginRows ==
    ASSUME RowInv, JobShape, TryShape, NEW w \in Worker,
           \/ \E b \in Browser : CreateUserSession(w, b)
           \/ \E b \in Browser : BeginLogin(w, b)
           \/ LoginDeliver(w) \/ BearerDone(w) \/ OpenBearer(w) \/ Verifies(w)
    PROVE  RowInv'
<1>1. CASE UNCHANGED <<job, faults>> /\ UNCHANGED rows
      BY <1>1 DEF RowInv, RowTypes, Listed, Covers, At, rows
<1>2. ASSUME NEW a, GoTo(w, a), a # "push", UNCHANGED rows,
             faults' = faults \/ faults' = faults + 1, At(w, "verifying")
      PROVE  RowInv'
  <2>1. JobNow(w, a, job[w].sid, job[w].evicted, job[w].cost)
        BY <1>2, JobWrote
  <2>2. job[w].at = "verifying"
        BY <1>2 DEF At
  <2>3. Aside(w)
        BY <1>2, <2>1, <2>2, AsideTo
  <2> QED BY <2>3, RowAside
<1>3. ASSUME NEW a, NEW b, job' = [job EXCEPT ![w] = Job(a, b, 0)], a # "push", UNCHANGED rows,
             faults' = faults, job[w].at \in {"idle", "answer", "refused"}
      PROVE  RowInv'
  <2>1. JobNow(w, a, 0, <<>>, FALSE)
        BY <1>3, JobBegun
  <2>2. Aside(w)
        BY <1>3, <2>1, AsideTo
  <2> QED BY <2>2, RowAside
<1>4. CASE \E b \in Browser : CreateUserSession(w, b)
  <2>1. PICK b \in Browser : CreateUserSession(w, b)
        BY <1>4
  <2>2. /\ job' = [job EXCEPT ![w] = Job("seal", b, 0)] /\ UNCHANGED rows /\ faults' = faults
        /\ job[w].at = "idle"
        BY <2>1 DEF CreateUserSession, After, At, rows
  <2> QED BY <1>3, <2>2
<1>5. CASE \E b \in Browser : BeginLogin(w, b)
  <2>1. PICK b \in Browser : BeginLogin(w, b)
        BY <1>5
  <2>2. /\ job' = [job EXCEPT ![w] = Job("verifying", b, 0)] /\ UNCHANGED rows
        /\ faults' = faults /\ job[w].at = "idle"
        BY <2>1 DEF BeginLogin, At, rows
  <2> QED BY <1>3, <2>2
<1>6. CASE LoginDeliver(w)
  <2>1. /\ job' = [job EXCEPT ![w] = Job("idle", CHOOSE b \in Browser : TRUE, 0)]
        /\ UNCHANGED rows /\ faults' = faults /\ job[w].at \in {"answer", "refused"}
        BY <1>6 DEF LoginDeliver, Deliver, Idle, rows
  <2> QED BY <1>3, <2>1
<1>7. CASE BearerDone(w)
  <2>1. /\ Answer(w, Leave) /\ UNCHANGED rows /\ faults' = faults /\ job[w].at = "verifying"
        BY <1>7 DEF BearerDone, Trying, At, rows
  <2>2. JobNow(w, "answer", job[w].sid, job[w].evicted, job[w].cost)
        BY <2>1, JobWrote
  <2>3. Aside(w)
        BY <2>1, <2>2, AsideTo
  <2> QED BY <2>3, RowAside
<1>8. CASE OpenBearer(w)
  <2>1. CASE FaultRefused(w)
    <3>1. GoTo(w, "refused") /\ UNCHANGED rows /\ faults' = faults + 1 /\ At(w, "verifying")
          BY <1>8, <2>1 DEF OpenBearer, Trying, FaultRefused, Fault, rows
    <3> QED BY <1>2, <3>1
  <2>2. CASE UNCHANGED sessionVars
        BY <1>1, <2>2 DEF sessionVars, rows
  <2> QED BY <1>8, <2>1, <2>2 DEF OpenBearer
<1>9. CASE Verifies(w)
  <2>1. /\ UNCHANGED rows /\ At(w, "verifying")
        /\ \/ UNCHANGED <<job, faults>>
           \/ GoTo(w, "refused") /\ (faults' = faults \/ faults' = faults + 1)
           \/ GoTo(w, "seal") /\ faults' = faults
        BY <1>9 DEF Verifies
  <2> QED BY <1>1, <1>2, <2>1
<1> QED BY <1>4, <1>5, <1>6, <1>7, <1>8, <1>9

LEMMA SessionRows ==
    ASSUME RowInv, JobShape, NEW w \in Worker, SessionStep(w)
    PROVE  RowInv'
<1>1. CASE \/ NewUserSessionID(w) \/ FinishLogin(w) \/ \E b \in Browser : Request(w, b)
           \/ AuthenticateCookieSession(w) \/ SlidingExpHandler(w) \/ Inner(w)
           \/ DeleteUserSessionKVDB(w) \/ Cut(w)
  <2>1. Aside(w)
        BY <1>1, SessionAside
  <2> QED BY <2>1, RowAside
<1>2. CASE StoreUserSession(w) \/ StoreUserSessionFails(w)
      BY <1>2, RowStored
<1>3. CASE PushEvictOverCap(w)
      BY <1>3, RowPushed
<1>4. CASE PushFails(w)
      BY <1>4, RowUnpushed
<1>5. CASE Undo(w) \/ Evict(w) \/ DeleteRow(w)
      BY <1>5, RowRemoved
<1>6. CASE ExtendRow(w)
      BY <1>6, RowExtended
<1>7. CASE ExtendList(w)
      BY <1>7, ListExtended
<1>8. CASE Unlist(w)
      BY <1>8, RowUnlisted
<1> QED BY <1>1, <1>2, <1>3, <1>4, <1>5, <1>6, <1>7, <1>8 DEF SessionStep

LEMMA RowStep == RowInv /\ CostInv /\ TicketInv /\ [Next]_vars => RowInv'
<1> SUFFICES ASSUME RowInv, CostInv, TicketInv, [Next]_vars PROVE RowInv'
    OBVIOUS
<1>0. JobShape /\ TryShape
      BY DEF CostInv, TicketInv
<1>1. CASE UNCHANGED sessionVars
      BY <1>1 DEF RowInv, RowTypes, Listed, Covers, At, sessionVars
<1>2. CASE (\E b \in Browser : IssueTicket(b)) \/ ChangePassword \/ RotateKey \/ IntervalPasses
      BY <1>1, <1>2 DEF IssueTicket, ChangePassword, RotateKey, IntervalPasses, sessionVars
<1>3. CASE Tick
      BY <1>3, RowTicked
<1>4. CASE UNCHANGED vars
      BY <1>1, <1>4 DEF vars
<1>5. ASSUME NEW w \in Worker, LoginStep(w)
      PROVE  RowInv'
  <2>1. CASE SessionStep(w)
        BY <1>0, <2>1, SessionRows
  <2>2. CASE \/ Lookup(w) \/ TakeSlot(w) \/ CheckPassword(w) \/ StoreRehash(w)
             \/ ConsumeTicket(w) \/ Forward(w) \/ Exchange(w) \/ KeyByKID(w)
             \/ Resolve(w) \/ Prepare(w) \/ SignIDToken(w) \/ VerifyDelegated(w)
    <3>1. Verifies(w)
          BY <1>0, <2>2, LoginVerifies
    <3> QED BY <1>0, <3>1, LoginRows
  <2>3. CASE \E b \in Browser : CreateUserSession(w, b)
        BY <1>0, <2>3, LoginRows
  <2>4. CASE \E b \in Browser :
               \/ \E k \in offered \cap PasswordKinds : BeginPassword(w, b, k)
               \/ \E k \in offered \cap FlowKinds : BeginReturn(w, b, k)
    <3>1. \E b \in Browser : BeginLogin(w, b)
          BY <2>4 DEF BeginPassword, BeginReturn
    <3> QED BY <1>0, <3>1, LoginRows
  <2>5. CASE LoginDeliver(w) \/ BearerDone(w) \/ OpenBearer(w)
        BY <1>0, <2>5, LoginRows
  <2> QED BY <1>5, <2>1, <2>2, <2>3, <2>4, <2>5 DEF LoginStep
<1> QED BY <1>2, <1>3, <1>4, <1>5 DEF Next

LEMMA ListBounds ==
    ASSUME RowInv
    PROVE  CapHolds
<1> SUFFICES ASSUME faults = 0, \A w \in Worker : job[w].at \notin {"push", "evict", "delete"}
             PROVE  Cardinality({s \in Session : ttl[s] > 0}) <= MaxSessionsPerUser
    BY DEF CapHolds
<1> DEFINE up == {s \in Session : ttl[s] > 0}
           len == Len(list)
<1>1. list \in Seq(Nat) /\ len \in Nat /\ len <= MaxSessionsPerUser
      BY SMTT(30) DEF RowInv, RowTypes
<1>2. up \subseteq Range(list)
  <2>1. \A w \in Worker : \A s : ~Covers(job[w], s)
        BY DEF Covers
  <2> QED BY <2>1 DEF RowInv, Listed
<1>3. list \in Surjection(1..len, Range(list))
      BY <1>1, SMTT(30) DEF Surjection, Range
<1> HIDE DEF up, len
<1>4. IsFiniteSet(1..len) /\ Cardinality(1..len) = len
  <2>1. len \in Int /\ 1 \in Int /\ (IF 1 > len THEN 0 ELSE len - 1 + 1) = len
        BY ONLY <1>1, SMTT(30)
  <2> QED BY <2>1, FS_Interval
<1>5. IsFiniteSet(Range(list)) /\ Cardinality(Range(list)) <= len
      BY <1>3, <1>4, FS_Surjection, SMTT(30)
<1>6. Cardinality(up) <= Cardinality(Range(list)) /\ IsFiniteSet(up)
      BY <1>2, <1>5, FS_Subset
<1>7. Cardinality(up) \in Nat /\ Cardinality(Range(list)) \in Nat
      BY <1>5, <1>6, FS_CardinalityType
<1>8. Cardinality(up) <= MaxSessionsPerUser
      BY <1>1, <1>5, <1>6, <1>7, ConfValid, SMTT(30)
<1> QED BY <1>8 DEF up

LEMMA AlwaysRowInv == Spec => []RowInv
<1> QED BY InitRowInv, AlwaysCostInv, AlwaysTicketInv, RowStep, PTL DEF Spec

\* The cap holds while no command fails, for any cap and any number of concurrent
\* logins, extensions, logouts and expiries, and a refused login has cost the user
\* nothing: what evicts and what opens a bearer session is followed only by the
\* answer, so no failure comes after it, with whatever failures.
THEOREM CapServesLoginsHolds == Spec => []CapServesLogins
<1>1. RowInv /\ CostInv => CapServesLogins
      BY ListBounds, CostFree DEF CapServesLogins
<1> QED BY <1>1, AlwaysRowInv, AlwaysCostInv, PTL

\* What a step may do to the rows of the sessions there are.
Ends == \A s \in Session : s <= born /\ ttl[s] = 0 => ttl'[s] = 0

LEMMA SessionEnds ==
    ASSUME born \in Nat, ttl \in [Session -> Nat], NEW w \in Worker, SessionStep(w)
    PROVE  Ends
<1>0. ~(0 > 0) /\ \A s \in Session : s <= born => s # born + 1
      BY SMTT(30) DEF Session
<1>1. CASE UNCHANGED ttl
      BY <1>1 DEF Ends
<1>2. CASE StoreUserSession(w) \/ StoreUserSessionFails(w)
  <2>1. ttl' = ttl \/ ttl' = [ttl EXCEPT ![born + 1] = ExpireIn]
        BY <1>2 DEF StoreUserSession, StoreUserSessionFails
  <2>2. \A s \in Session : s # born + 1 => ttl'[s] = ttl[s]
        BY <2>1
  <2> QED BY <1>0, <2>2 DEF Ends
<1>3. ASSUME NEW R, Deleted(R)
      PROVE  Ends
  <2>1. ttl' = ttl \/ ttl' = [s \in Session |-> IF s \in R THEN 0 ELSE ttl[s]]
        BY <1>3 DEF Deleted
  <2> QED BY <2>1 DEF Ends
<1>4. CASE Undo(w) \/ Evict(w) \/ DeleteRow(w)
      BY <1>3, <1>4 DEF Undo, Evict, DeleteRow
<1>5. CASE ExtendRow(w)
  <2>1. ttl' = ttl \/ ttl' = [ttl EXCEPT ![job[w].sid] = Renewed(ttl[job[w].sid])]
        BY <1>5 DEF ExtendRow
  <2>2. \A s \in Session : ttl'[s] = ttl[s] \/ ttl'[s] = Renewed(ttl[s])
        BY <2>1
  <2>3. Renewed(0) = 0
        BY <1>0 DEF Renewed
  <2> QED BY <2>2, <2>3 DEF Ends
<1>6. CASE PushEvictOverCap(w) \/ PushFails(w)
      BY <1>1, <1>6 DEF PushEvictOverCap, PushTimes, PushFails
<1>7. CASE \/ NewUserSessionID(w) \/ FinishLogin(w) \/ \E b \in Browser : Request(w, b)
           \/ AuthenticateCookieSession(w) \/ SlidingExpHandler(w) \/ Inner(w)
           \/ DeleteUserSessionKVDB(w) \/ Cut(w) \/ ExtendList(w) \/ Unlist(w)
      BY <1>1, <1>7 DEF NewUserSessionID, FinishLogin, Request, AuthenticateCookieSession,
         SlidingExpHandler, Inner, DeleteUserSessionKVDB, Cut, ExtendList, Unlist
<1> QED BY <1>2, <1>4, <1>5, <1>6, <1>7 DEF SessionStep

LEMMA EndsStep ==
    ASSUME RowInv, CostInv, TicketInv, [Next]_vars
    PROVE  Ends
<1>0. JobShape /\ TryShape /\ born \in Nat /\ ttl \in [Session -> Nat]
      BY DEF CostInv, TicketInv, RowInv, RowTypes
<1>1. CASE UNCHANGED ttl
      BY <1>1 DEF Ends
<1>2. CASE (\E b \in Browser : IssueTicket(b)) \/ ChangePassword \/ RotateKey \/ IntervalPasses
      BY <1>1, <1>2 DEF IssueTicket, ChangePassword, RotateKey, IntervalPasses, sessionVars
<1>3. CASE Tick
  <2>1. \A s \in Session : ttl'[s] = IF ttl[s] > TickLength THEN ttl[s] - TickLength ELSE 0
        BY <1>3 DEF Tick
  <2>2. ~(0 > TickLength)
        BY ConfValid, SMTT(30)
  <2> QED BY <2>1, <2>2 DEF Ends
<1>4. CASE UNCHANGED vars
      BY <1>1, <1>4 DEF vars, sessionVars
<1>5. ASSUME NEW w \in Worker, LoginStep(w)
      PROVE  Ends
  <2>1. CASE SessionStep(w)
        BY <1>0, <2>1, SessionEnds
  <2>2. CASE \/ Lookup(w) \/ TakeSlot(w) \/ CheckPassword(w) \/ StoreRehash(w)
             \/ ConsumeTicket(w) \/ Forward(w) \/ Exchange(w) \/ KeyByKID(w)
             \/ Resolve(w) \/ Prepare(w) \/ SignIDToken(w) \/ VerifyDelegated(w)
    <3>1. Verifies(w)
          BY <1>0, <2>2, LoginVerifies
    <3> QED BY <1>1, <3>1 DEF Verifies, rows
  <2>3. CASE \E b \in Browser : CreateUserSession(w, b)
        BY <1>1, <2>3 DEF CreateUserSession
  <2>4. CASE \E b \in Browser :
               \/ \E k \in offered \cap PasswordKinds : BeginPassword(w, b, k)
               \/ \E k \in offered \cap FlowKinds : BeginReturn(w, b, k)
    <3>1. \E b \in Browser : BeginLogin(w, b)
          BY <2>4 DEF BeginPassword, BeginReturn
    <3> QED BY <1>1, <3>1 DEF BeginLogin
  <2>5. CASE LoginDeliver(w) \/ BearerDone(w) \/ OpenBearer(w)
        BY <1>1, <2>5 DEF LoginDeliver, Deliver, BearerDone, OpenBearer, FaultRefused, sessionVars
  <2> QED BY <1>5, <2>1, <2>2, <2>3, <2>4, <2>5 DEF LoginStep
<1> QED BY <1>2, <1>3, <1>4, <1>5 DEF Next

\* A session that ended never lives again, whatever extensions of it were under way,
\* and for any number of requests: only StoreUserSession makes a row, of a new id, and
\* an Expire of a row that is gone does nothing.
THEOREM EndedStaysEndedHolds == Spec => EndedStaysEnded
<1>1. RowInv /\ CostInv /\ TicketInv /\ [Next]_vars
        => [\A s \in Session : s <= born /\ ttl[s] = 0 => ttl'[s] = 0]_sessionVars
      BY EndsStep DEF Ends
<1> QED BY <1>1, AlwaysRowInv, AlwaysCostInv, AlwaysTicketInv, PTL DEF Spec, EndedStaysEnded
=============================================================================
