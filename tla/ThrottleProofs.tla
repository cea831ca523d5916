--------------------------- MODULE ThrottleProofs ---------------------------
(***************************************************************************)
(* Proofs about Throttle: for any number of instances and workers, any     *)
(* rate and burst, an instance that answers from a remembered refusal      *)
(* refuses only while the bucket in the store is empty.                    *)
(*                                                                         *)
(* What is remembered was read by a request, and the bucket it read cannot *)
(* change before its refill moment: an empty bucket is swapped by nobody,  *)
(* and, unless a request is about to extend it, lives at least a refill    *)
(* period longer (Kept).  Honest says so of the requests that are about to *)
(* judge and of the instances that remember.                               *)
(***************************************************************************)
EXTENDS Throttle, FiniteSetTheorems, TLAPS

\* The prover of every step that names no other.
USE ZenonT(30)

IsBucket(b) ==
    /\ b = [held |-> b.held, tokens |-> b.tokens, last |-> b.last, until |-> b.until]
    /\ b.held \in BOOLEAN /\ b.tokens \in Nat /\ b.last \in Nat /\ b.until \in Nat

IsJob(j) ==
    /\ j = [at |-> j.at, now |-> j.now, object |-> j.object, raw |-> j.raw, tries |-> j.tries]
    /\ j.now \in Nat /\ IsBucket(j.raw)

Types ==
    /\ clock \in Nat /\ loose \in Nat /\ faults \in Nat
    /\ skew \in [Instance -> Nat] /\ \E i \in Instance : skew[i] = 0
    /\ askAfter \in [Instance -> Nat]
    /\ IsBucket(store)
    /\ job = [w \in Worker |-> job[w]] /\ \A w \in Worker : IsJob(job[w])
    /\ \A w \in Worker : job[w].at = "swap" => Refilled(job[w].raw, job[w].now).tokens > 0

\* Nothing went wrong with a command, and the clocks agree.
Calm == faults = 0 /\ loose = 0 /\ \A i, j \in Instance : skew[i] = skew[j]

\* The bucket of refill moment l is empty in the store.
EmptyAt(l) == store.held /\ store.tokens = 0 /\ store.last = l

\* A request judges by a time that has come.
Timely == \A w \in Worker : job[w].now <= clock

\* A bucket nobody is about to extend lives long enough to be full.
Kept ==
    store.held =>
        /\ store.last <= clock
        /\ (\A w \in Worker : job[w].at # "expire") => store.last + idleTTL <= store.until

\* What was read empty, and what is remembered as empty, is empty until its refill moment.
Honest ==
    /\ \A w \in Worker : job[w].at = "judge" /\ job[w].raw.tokens = 0 /\ clock < job[w].raw.last + IncrPeriod
          => EmptyAt(job[w].raw.last)
    /\ \A i \in Instance : clock < askAfter[i] => EmptyAt(askAfter[i] - IncrPeriod)

Inv == Types /\ (Calm => Timely /\ Kept /\ Honest)

-----------------------------------------------------------------------------
LEMMA Conf ==
    /\ Burst \in Nat \ {0} /\ Increment \in Nat \ {0} /\ IncrPeriod \in Nat \ {0}
    /\ IsFiniteSet(Worker) /\ At \in [Worker -> Instance] /\ MaxSkew \in Nat
BY ConfAssumption

\* A bucket that is kept long enough to be full is kept for a period.
LEMMA TTLBound == idleTTL \in Nat /\ idleTTL >= IncrPeriod
<1> DEFINE k == (Burst + Increment - 1) \div Increment
<1>1. k \in Nat /\ k >= 1
      BY Conf, SMTT(30)
<1>2. idleTTL = k * IncrPeriod
      BY DEF idleTTL
<1> HIDE DEF k
<1> QED BY <1>1, <1>2, Conf, SMTT(30)

\* Refilling gives a token, once a period has passed, and nothing before.
LEMMA RefillGives ==
    ASSUME NEW b, IsBucket(b), NEW now \in Nat
    PROVE  /\ now < b.last + IncrPeriod => Refilled(b, now) = b
           /\ now >= b.last + IncrPeriod => Refilled(b, now).tokens > 0
           /\ IsBucket(Refilled(b, now))
           /\ Refilled(b, now).last <= now \/ Refilled(b, now) = b
<1> DEFINE times == (now - b.last) \div IncrPeriod
           sum == b.tokens + times * Increment
           m == Min({Burst, sum})
<1>0. b.last \in Nat /\ b.tokens \in Nat
      BY DEF IsBucket
<1>1. CASE now < b.last + IncrPeriod
      BY <1>0, <1>1, Conf, SMTT(30) DEF Refilled
<1>2. CASE now >= b.last + IncrPeriod
  <2>1. times \in Nat /\ times >= 1 /\ b.last + times * IncrPeriod <= now /\ times * IncrPeriod \in Nat
        BY <1>0, <1>2, Conf, SMTT(30)
  <2> HIDE DEF times
  <2>2. sum \in Nat /\ sum > 0
    <3>1. times * Increment \in Nat /\ times * Increment > 0
          BY <2>1, Conf, SMTT(30)
    <3> QED BY <3>1, <1>0, SMTT(30)
  <2> HIDE DEF sum
  <2>3. m \in {Burst, sum}
    <3>1. \E x \in {Burst, sum} : \A y \in {Burst, sum} : x <= y
          BY <2>2, Conf, SMTT(30)
    <3> QED BY <3>1 DEF Min
  <2>4. m \in Nat /\ m > 0
        BY <2>2, <2>3, Conf, SMTT(30)
  <2> HIDE DEF m
  <2>5. Refilled(b, now) = [b EXCEPT !.tokens = m, !.last = b.last + times * IncrPeriod]
        BY <1>0, <1>2, Conf, SMTT(30) DEF Refilled, m, sum, times
  <2>6. Refilled(b, now) = [held |-> b.held, tokens |-> m, last |-> b.last + times * IncrPeriod, until |-> b.until]
        BY <2>5 DEF IsBucket
  <2>7. b.last + times * IncrPeriod \in Nat
        BY <1>0, <2>1, SMTT(30)
  <2> QED BY <1>0, <1>2, <2>1, <2>4, <2>6, <2>7, Conf, SMTT(30) DEF IsBucket
<1> QED BY <1>0, <1>1, <1>2, Conf, SMTT(30)

-----------------------------------------------------------------------------
\* The request of w is at a, judges by n what it read as r; no other request moved.
Now(w, a, n, r) ==
    /\ job' = [v \in Worker |-> job'[v]] /\ IsJob(job'[w])
    /\ job'[w].at = a /\ job'[w].now = n /\ job'[w].raw = r
    /\ \A v \in Worker \ {w} : job'[v] = job[v]

LEMMA IdleJob == IsJob(Idle) /\ IsBucket(Absent)
BY DEF IsJob, IsBucket, Idle, Absent

\* The writes of job[w].
LEMMA Wrote ==
    ASSUME Types, NEW w \in Worker
    PROVE  /\ Answer(w) => Now(w, "idle", 0, Absent)
           /\ \A a : \A n \in Nat : job' = [job EXCEPT ![w] = [Idle EXCEPT !.at = a, !.now = n]]
                => Now(w, a, n, Absent)
           /\ \A a : job' = [job EXCEPT ![w].at = a] => Now(w, a, job[w].now, job[w].raw)
           /\ \A a, x : job' = [job EXCEPT ![w].at = a, ![w].tries = x]
                => Now(w, a, job[w].now, job[w].raw)
           /\ \A a, x : job' = [job EXCEPT ![w].at = a, ![w].object = x]
                => Now(w, a, job[w].now, job[w].raw)
           /\ \A a, r : IsBucket(r) /\ job' = [job EXCEPT ![w].raw = r, ![w].at = a]
                => Now(w, a, job[w].now, r)
<1>0. job = [v \in Worker |-> job[v]] /\ IsJob(job[w])
      BY DEF Types
<1>1. Answer(w) => Now(w, "idle", 0, Absent)
      BY <1>0, IdleJob, SMTT(30) DEF Answer, Now, Idle
<1>2. ASSUME NEW a, NEW n \in Nat, job' = [job EXCEPT ![w] = [Idle EXCEPT !.at = a, !.now = n]]
      PROVE  Now(w, a, n, Absent)
  <2>1. [Idle EXCEPT !.at = a, !.now = n]
          = [at |-> a, now |-> n, object |-> 0, raw |-> Absent, tries |-> 0]
    <3> DEFINE e == [Idle EXCEPT !.at = a]
    <3>1. e = [at |-> a, now |-> 0, object |-> 0, raw |-> Absent, tries |-> 0]
          BY SMTT(30) DEF Idle
    <3>2. [Idle EXCEPT !.at = a, !.now = n] = [e EXCEPT !.now = n]
          OBVIOUS
    <3> HIDE DEF e
    <3> QED BY <3>1, <3>2, SMTT(30)
  <2>2. IsJob([at |-> a, now |-> n, object |-> 0, raw |-> Absent, tries |-> 0])
        BY IdleJob DEF IsJob
  <2> QED BY <1>0, <1>2, <2>1, <2>2 DEF Now
<1>3. ASSUME NEW a, job' = [job EXCEPT ![w].at = a]
      PROVE  Now(w, a, job[w].now, job[w].raw)
      BY <1>0, <1>3 DEF Now, IsJob
<1>4. ASSUME NEW a, NEW x, job' = [job EXCEPT ![w].at = a, ![w].tries = x]
      PROVE  Now(w, a, job[w].now, job[w].raw)
  <2> DEFINE mid == [job EXCEPT ![w].at = a]
  <2>1. /\ mid = [v \in Worker |-> mid[v]] /\ IsJob(mid[w]) /\ mid[w].at = a
        /\ mid[w].now = job[w].now /\ mid[w].raw = job[w].raw
        /\ \A v \in Worker \ {w} : mid[v] = job[v]
        BY <1>0 DEF IsJob
  <2>2. job' = [mid EXCEPT ![w].tries = x]
        BY <1>4
  <2> HIDE DEF mid
  <2> QED BY <2>1, <2>2 DEF Now, IsJob
<1>5. ASSUME NEW a, NEW x, job' = [job EXCEPT ![w].at = a, ![w].object = x]
      PROVE  Now(w, a, job[w].now, job[w].raw)
  <2> DEFINE mid == [job EXCEPT ![w].at = a]
  <2>1. /\ mid = [v \in Worker |-> mid[v]] /\ IsJob(mid[w]) /\ mid[w].at = a
        /\ mid[w].now = job[w].now /\ mid[w].raw = job[w].raw
        /\ \A v \in Worker \ {w} : mid[v] = job[v]
        BY <1>0 DEF IsJob
  <2>2. job' = [mid EXCEPT ![w].object = x]
        BY <1>5
  <2> HIDE DEF mid
  <2> QED BY <2>1, <2>2 DEF Now, IsJob
<1>6. ASSUME NEW a, NEW r, IsBucket(r), job' = [job EXCEPT ![w].raw = r, ![w].at = a]
      PROVE  Now(w, a, job[w].now, r)
  <2> DEFINE mid == [job EXCEPT ![w].raw = r]
  <2>1. /\ mid = [v \in Worker |-> mid[v]] /\ IsJob(mid[w])
        /\ mid[w].now = job[w].now /\ mid[w].raw = r
        /\ \A v \in Worker \ {w} : mid[v] = job[v]
        BY <1>0, <1>6 DEF IsJob
  <2>2. job' = [mid EXCEPT ![w].at = a]
        BY <1>6
  <2> HIDE DEF mid
  <2> QED BY <2>1, <2>2 DEF Now, IsJob
<1> QED BY <1>1, <1>2, <1>3, <1>4, <1>5, <1>6

\* A step that fails a command, or drops the bucket under a request, is past what the rest says.
LEMMA Past ==
    ASSUME Types', ~Calm'
    PROVE  Inv'
BY DEF Inv

\* A request moves, and the bucket stays as it is.
LEMMA MoveKeeps ==
    ASSUME Inv, NEW w \in Worker, NEW a, NEW n, NEW r, Now(w, a, n, r),
           UNCHANGED <<clock, skew, askAfter, store, loose, faults>>,
           Calm => n <= clock,
           a = "swap" => Refilled(r, n).tokens > 0,
           a = "judge" => r = store /\ store.held,
           job[w].at # "expire"
    PROVE  Inv'
<1>0. Types /\ (Calm => Timely /\ Kept /\ Honest)
      BY DEF Inv
<1>1. Types'
  <2>1. \A v \in Worker : IsJob(job'[v])
        BY <1>0 DEF Types, Now
  <2>2. \A v \in Worker : job'[v].at = "swap" => Refilled(job'[v].raw, job'[v].now).tokens > 0
        BY <1>0 DEF Types, Now
  <2> QED BY <1>0, <2>1, <2>2 DEF Types, Now, Refilled
<1>2. ASSUME Calm' PROVE (Timely /\ Kept /\ Honest)'
  <2>0. Calm /\ Timely /\ Kept /\ Honest
        BY <1>0, <1>2 DEF Calm
  <2>1. Timely'
        BY <2>0 DEF Timely, Now
  <2>2. Kept'
    <3>1. (\A v \in Worker : job'[v].at # "expire") => \A v \in Worker : job[v].at # "expire"
          BY DEF Now
    <3> QED BY <2>0, <3>1 DEF Kept, idleTTL
  <2>3. Honest'
    <3>1. ASSUME NEW v \in Worker, job'[v].at = "judge", job'[v].raw.tokens = 0,
                 clock < job'[v].raw.last + IncrPeriod
          PROVE  EmptyAt(job'[v].raw.last)
          BY <2>0, <3>1 DEF Now, Honest, EmptyAt
    <3>2. \A l : EmptyAt(l)' <=> EmptyAt(l)
          BY DEF EmptyAt
    <3> QED BY <2>0, <3>1, <3>2 DEF Honest, EmptyAt
  <2> QED BY <2>1, <2>2, <2>3
<1> QED BY <1>1, <1>2 DEF Inv

\* A step that moves no request and leaves the bucket alone.
LEMMA StillKeeps ==
    ASSUME Inv, UNCHANGED <<clock, skew, askAfter, store, job, faults>>, loose' \in Nat, loose <= loose'
    PROVE  Inv'
<1>0. Types /\ (Calm => Timely /\ Kept /\ Honest)
      BY DEF Inv
<1>1. Types'
      BY <1>0 DEF Types, Refilled
<1>2. Calm' => Calm
      BY <1>0, SMTT(30) DEF Calm, Types
<1>3. Timely' <=> Timely
      BY DEF Timely
<1>4. Kept' <=> Kept
      BY DEF Kept, idleTTL
<1>5. Honest' <=> Honest
      BY DEF Honest, EmptyAt
<1> QED BY <1>0, <1>1, <1>2, <1>3, <1>4, <1>5 DEF Inv

\* While the clocks agree they are the real one.
LEMMA RightClock ==
    ASSUME Types, Calm, NEW i \in Instance
    PROVE  Local(i) = clock
BY SMTT(30) DEF Types, Calm, Local

\* A request asks, and takes its token in memory.
LEMMA AskKeeps ==
    ASSUME Inv, NEW w \in Worker, Ask(w) \/ LoadOrCreateBucket(w) \/ Take(w)
    PROVE  Inv'
<1>0. Types
      BY DEF Inv
<1>1. CASE Ask(w)
  <2>1. Local(At[w]) \in Nat /\ At[w] \in Instance
        BY <1>0, Conf, SMTT(30) DEF Types, Local
  <2>2. CASE UNCHANGED job
        BY <1>0, <1>1, <2>2, StillKeeps, SMTT(30) DEF Ask, boot, Types
  <2>3. CASE job' = [job EXCEPT ![w] =
                [Idle EXCEPT !.at = IF mode = "InProc" THEN "load" ELSE "get", !.now = Local(At[w])]]
    <3>1. PICK a : /\ a \in {"load", "get"}
                   /\ job' = [job EXCEPT ![w] = [Idle EXCEPT !.at = a, !.now = Local(At[w])]]
          BY <2>3
    <3>2. Now(w, a, Local(At[w]), Absent)
          BY <1>0, <2>1, <3>1, Wrote
    <3>3. Calm => Local(At[w]) <= clock
          BY <1>0, <2>1, RightClock, SMTT(30) DEF Types
    <3>4. UNCHANGED <<clock, skew, askAfter, store, loose, faults>> /\ job[w].at # "expire"
          BY <1>1 DEF Ask, boot
    <3> QED BY <3>1, <3>2, <3>3, <3>4, MoveKeeps
  <2> QED BY <1>1, <2>2, <2>3 DEF Ask
<1>2. Calm => job[w].now <= clock
      BY DEF Inv, Timely
<1>3. CASE LoadOrCreateBucket(w)
  <2>1. Now(w, "take", job[w].now, job[w].raw)
        BY <1>0, <1>3, Wrote DEF LoadOrCreateBucket
  <2>2. UNCHANGED <<clock, skew, askAfter, store, loose, faults>> /\ job[w].at # "expire"
        BY <1>3 DEF LoadOrCreateBucket, boot
  <2> QED BY <1>2, <2>1, <2>2, MoveKeeps
<1>4. CASE Take(w)
  <2>1. Now(w, "idle", 0, Absent)
        BY <1>0, <1>4, Wrote DEF Take
  <2>2. UNCHANGED <<clock, skew, askAfter, store, loose, faults>> /\ job[w].at # "expire"
        BY <1>4 DEF Take, boot
  <2>3. 0 <= clock
        BY <1>0, SMTT(30) DEF Types
  <2> QED BY <2>1, <2>2, <2>3, MoveKeeps
<1> QED BY <1>1, <1>3, <1>4

\* The read, and one more turn of the loop.
LEMMA AgainKeeps ==
    ASSUME Inv, NEW w \in Worker, Again(w), job[w].at # "expire",
           UNCHANGED <<clock, skew, askAfter, store, loose, faults>>
    PROVE  Inv'
<1>0. Types /\ 0 <= clock
      BY SMTT(30) DEF Inv, Types
<1>1. Calm => job[w].now <= clock
      BY DEF Inv, Timely
<1>2. CASE Answer(w)
      BY <1>0, <1>2, Wrote, MoveKeeps
<1>3. CASE job' = [job EXCEPT ![w].at = "get", ![w].tries = @ + 1]
  <2>1. Now(w, "get", job[w].now, job[w].raw)
        BY <1>0, <1>3, Wrote
  <2> QED BY <1>1, <2>1, MoveKeeps
<1> QED BY <1>2, <1>3 DEF Again

LEMMA GetKeeps ==
    ASSUME Inv, NEW w \in Worker, GetValue(w)
    PROVE  Inv'
<1>0. Types /\ IsBucket(store)
      BY DEF Inv, Types
<1>1. PICK a : /\ a = IF store.held THEN "judge" ELSE "create"
               /\ job' = [job EXCEPT ![w].raw = store, ![w].at = a]
      BY DEF GetValue
<1>2. Now(w, a, job[w].now, store)
      BY <1>0, <1>1, Wrote
<1>3. Calm => job[w].now <= clock
      BY DEF Inv, Timely
<1>4. UNCHANGED <<clock, skew, askAfter, store, loose, faults>> /\ job[w].at # "expire"
      BY DEF GetValue, boot
<1> QED BY <1>1, <1>2, <1>3, <1>4, MoveKeeps

-----------------------------------------------------------------------------
\* What a step does to the types, whatever it writes in the store.
LEMMA TypesKept ==
    ASSUME Types, NEW w \in Worker, NEW a, NEW n, NEW r, Now(w, a, n, r),
           a # "swap", IsBucket(store'), faults' \in Nat, loose' \in Nat,
           askAfter' \in [Instance -> Nat], UNCHANGED <<clock, skew>>
    PROVE  Types'
<1>1. \A v \in Worker : IsJob(job'[v])
      BY DEF Types, Now
<1>2. \A v \in Worker : job'[v].at = "swap" => Refilled(job'[v].raw, job'[v].now).tokens > 0
      BY DEF Types, Now
<1> QED BY <1>1, <1>2 DEF Types, Now, Refilled

\* The two values a conditional write puts in the store.
LEMMA WritesBuckets ==
    ASSUME Types, NEW w \in Worker
    PROVE  /\ LET p == Put([tokens |-> Burst - 1, last |-> job[w].now]) IN
              IsBucket(p) /\ p.held /\ p.last = job[w].now /\ p.until = clock + idleTTL
           /\ job[w].at = "swap" =>
              /\ IsBucket(Spent(w)) /\ Spent(w).held = store.held
              /\ Spent(w).last = Refilled(job[w].raw, job[w].now).last
<1>0. clock \in Nat /\ job[w].now \in Nat /\ IsBucket(store) /\ IsBucket(job[w].raw)
      BY DEF Types, IsJob
<1>1. IsBucket(Put([tokens |-> Burst - 1, last |-> job[w].now]))
  <2>1. clock + idleTTL \in Nat /\ Burst - 1 \in Nat
        BY <1>0, TTLBound, Conf, SMTT(30)
  <2> QED BY <1>0, <2>1 DEF Put, IsBucket
<1>2. ASSUME job[w].at = "swap"
      PROVE  /\ IsBucket(Spent(w)) /\ Spent(w).held = store.held
             /\ Spent(w).last = Refilled(job[w].raw, job[w].now).last
  <2> DEFINE b == Refilled(job[w].raw, job[w].now)
  <2>1. IsBucket(b) /\ b.tokens > 0
        BY <1>0, <1>2, RefillGives DEF Types
  <2>2. Spent(w) = [store EXCEPT !.tokens = b.tokens - 1, !.last = b.last]
        BY DEF Spent
  <2> HIDE DEF b
  <2>3. Spent(w) = [held |-> store.held, tokens |-> b.tokens - 1, last |-> b.last, until |-> store.until]
        BY <1>0, <2>2 DEF IsBucket
  <2>4. b.tokens - 1 \in Nat /\ b.last \in Nat
        BY <2>1, SMTT(30) DEF IsBucket
  <2>5. IsBucket(Spent(w)) /\ Spent(w).held = store.held /\ Spent(w).last = b.last
        BY <1>0, <2>3, <2>4, SMTT(30) DEF IsBucket
  <2> QED BY <2>5 DEF b
<1> QED BY <1>1, <1>2 DEF Put

\* SetValueIfNotExists, on a key that no refusal is remembered of any more.
LEMMA CreateKeeps ==
    ASSUME Inv, NEW w \in Worker, Create(w)
    PROVE  Inv'
<1>0. Types /\ (Calm => Timely /\ Kept /\ Honest) /\ clock \in Nat
      BY DEF Inv, Types
<1>1. CASE store.held
      BY <1>1, AgainKeeps DEF Create, boot
<1>2. CASE ~store.held
  <2>1. /\ store' = Put([tokens |-> Burst - 1, last |-> job[w].now]) /\ Answer(w)
        /\ UNCHANGED <<clock, skew, askAfter, loose, faults>>
        BY <1>2 DEF Create, boot
  <2>2. Now(w, "idle", 0, Absent)
        BY <1>0, <2>1, Wrote
  <2>3. IsBucket(store') /\ store'.held /\ store'.last = job[w].now /\ store'.until = clock + idleTTL
        BY <1>0, <2>1, WritesBuckets
  <2>4. Types'
        BY <1>0, <2>1, <2>2, <2>3, TypesKept DEF Types
  <2>5. ASSUME Calm' PROVE (Timely /\ Kept /\ Honest)'
    <3>0. Timely /\ Honest
          BY <1>0, <2>1, <2>5 DEF Calm
    <3>1. job[w].now <= clock /\ job[w].now \in Nat
          BY <1>0, <3>0 DEF Timely, Types, IsJob
    <3>2. Timely'
          BY <1>0, <2>1, <2>2, <3>0, SMTT(30) DEF Timely, Now
    <3>3. Kept'
      <4>1. store'.last + idleTTL <= store'.until /\ store'.last <= clock'
            BY <1>0, <2>1, <2>3, <3>1, TTLBound, SMTT(30)
      <4> QED BY <4>1 DEF Kept, idleTTL
    <3>4. Honest'
          BY <1>2, <2>1, <2>2, <3>0 DEF Honest, EmptyAt, Now
    <3> QED BY <3>2, <3>3, <3>4
  <2> QED BY <2>4, <2>5 DEF Inv
<1> QED BY <1>1, <1>2

\* The verdict on the value read: a refusal is remembered until the refill moment
\* of a bucket that is still empty.
LEMMA JudgeKeeps ==
    ASSUME Inv, NEW w \in Worker, Judge(w)
    PROVE  Inv'
<1> DEFINE b == Refilled(job[w].raw, job[w].now)
<1>0. Types /\ (Calm => Timely /\ Kept /\ Honest)
      BY DEF Inv
<1>1. /\ clock \in Nat /\ job[w].now \in Nat /\ IsBucket(job[w].raw) /\ IsBucket(b)
      /\ At[w] \in Instance /\ job[w].at = "judge" /\ b.tokens \in Nat
      BY <1>0, RefillGives, Conf DEF Types, IsJob, Judge, IsBucket
<1>2. UNCHANGED <<clock, skew, store, loose, faults>>
      BY DEF Judge, boot
<1>3. CASE b.tokens > 0
  <2>1. job' = [job EXCEPT ![w].at = "swap"] /\ UNCHANGED askAfter
        BY <1>1, <1>3, SMTT(30) DEF Judge
  <2>2. Now(w, "swap", job[w].now, job[w].raw)
        BY <1>0, <2>1, Wrote
  <2>3. Calm => job[w].now <= clock
        BY <1>0 DEF Timely
  <2> QED BY <1>1, <1>2, <1>3, <2>1, <2>2, <2>3, MoveKeeps
<1>4. CASE b.tokens = 0
  <2>1. askAfter' = [askAfter EXCEPT ![At[w]] = b.last + IncrPeriod] /\ Answer(w)
        BY <1>1, <1>4, SMTT(30) DEF Judge, RefusalUntil
  <2>2. job[w].now < job[w].raw.last + IncrPeriod /\ b = job[w].raw
    <3>1. ~(job[w].now >= job[w].raw.last + IncrPeriod)
          BY <1>1, <1>4, RefillGives, SMTT(30)
    <3>2. job[w].raw.last \in Nat
          BY <1>1 DEF IsBucket
    <3>3. job[w].now < job[w].raw.last + IncrPeriod
          BY <1>1, <3>1, <3>2, Conf, SMTT(30)
    <3> QED BY <1>1, <3>3, RefillGives
  <2>3. job[w].raw.tokens = 0 /\ b.last = job[w].raw.last /\ job[w].raw.last \in Nat
        BY <1>1, <1>4, <2>2 DEF IsBucket
  <2> HIDE DEF b
  <2>4. Now(w, "idle", 0, Absent)
        BY <1>0, <2>1, Wrote
  <2>5. askAfter' \in [Instance -> Nat]
        BY <1>0, <2>1, <2>3, Conf, SMTT(30) DEF Types
  <2>6. Types'
        BY <1>0, <1>2, <2>4, <2>5, TypesKept DEF Types
  <2>7. ASSUME Calm' PROVE (Timely /\ Kept /\ Honest)'
    <3>0. Timely /\ Kept /\ Honest
          BY <1>0, <1>2, <2>7 DEF Calm
    <3>1. Timely'
          BY <1>1, <1>2, <2>4, <3>0, SMTT(30) DEF Timely, Now
    <3>2. Kept'
          BY <1>1, <1>2, <2>4, <3>0 DEF Kept, Now, idleTTL
    <3>3. ASSUME NEW i \in Instance, clock < askAfter'[i] PROVE EmptyAt(askAfter'[i] - IncrPeriod)
      <4>1. CASE i = At[w]
        <5>1. askAfter'[i] = job[w].raw.last + IncrPeriod
              BY <1>0, <2>1, <2>3, <4>1 DEF Types
        <5>2. EmptyAt(job[w].raw.last)
              BY <1>1, <2>3, <3>0, <3>3, <5>1 DEF Honest
        <5>3. askAfter'[i] - IncrPeriod = job[w].raw.last
              BY <2>3, <5>1, Conf, SMTT(30)
        <5> QED BY <5>2, <5>3
      <4>2. CASE i # At[w]
            BY <1>0, <2>1, <3>0, <3>3, <4>2 DEF Honest, Types
      <4> QED BY <4>1, <4>2
    <3>4. Honest'
      <4>1. \A v \in Worker : job'[v].at = "judge" => job[v].at = "judge" /\ job'[v].raw = job[v].raw
            BY <2>4 DEF Now
      <4> QED BY <1>2, <3>0, <3>3, <4>1 DEF Honest, EmptyAt
    <3> QED BY <3>1, <3>2, <3>4
  <2> QED BY <2>6, <2>7 DEF Inv
<1> QED BY <1>1, <1>3, <1>4, SMTT(30)

\* SetValueIfEquals: an empty bucket before its refill moment is never the one
\* a request holds a token of.
LEMMA SwapKeeps ==
    ASSUME Inv, NEW w \in Worker, Swap(w)
    PROVE  Inv'
<1> DEFINE b == Refilled(job[w].raw, job[w].now)
<1>0. Types /\ (Calm => Timely /\ Kept /\ Honest) /\ job[w].at = "swap"
      BY DEF Inv, Swap
<1>1. CASE ~Unmoved(w)
      BY <1>0, <1>1, AgainKeeps DEF Swap, boot
<1>2. CASE Unmoved(w)
  <2>1. /\ store' = Spent(w) /\ job' = [job EXCEPT ![w].at = "expire"]
        /\ UNCHANGED <<clock, skew, askAfter, loose, faults>>
        BY <1>2 DEF Swap, boot
  <2>2. Now(w, "expire", job[w].now, job[w].raw)
        BY <1>0, <2>1, Wrote
  <2>3. IsBucket(store') /\ store'.held /\ store'.last = b.last
        BY <1>0, <1>2, <2>1, WritesBuckets DEF Unmoved
  <2>4. Types'
        BY <1>0, <2>1, <2>2, <2>3, TypesKept DEF Types
  <2>5. /\ clock \in Nat /\ job[w].now \in Nat /\ IsBucket(job[w].raw) /\ job[w].raw.last \in Nat
        /\ b.tokens > 0
        BY <1>0 DEF Types, IsJob, IsBucket
  <2>6. ASSUME Calm' PROVE (Timely /\ Kept /\ Honest)'
    <3>0. Timely /\ Kept /\ Honest /\ job[w].now <= clock
          BY <1>0, <2>1, <2>6 DEF Calm, Timely
    <3>1. Timely'
          BY <2>1, <2>2, <3>0 DEF Timely, Now
    <3>2. Kept'
      <4>1. job[w].raw.last <= clock
            BY <1>2, <3>0 DEF Unmoved, Kept
      <4>2. b.last <= job[w].now \/ b = job[w].raw
            BY <2>5, RefillGives
      <4>3. IsBucket(b)
            BY <2>5, RefillGives
      <4>4. b.last \in Nat
            BY <4>3 DEF IsBucket
      <4>5. b.last <= clock
            BY <2>5, <3>0, <4>1, <4>2, <4>4, SMTT(30)
      <4>6. job'[w].at = "expire"
            BY <2>2 DEF Now
      <4> QED BY <2>1, <2>3, <4>5, <4>6 DEF Kept
    <3>3. ASSUME NEW l \in Nat, EmptyAt(l) PROVE ~(clock < l + IncrPeriod)
      <4>1. job[w].raw.tokens = 0 /\ job[w].raw.last = l
            BY <1>2, <3>3 DEF Unmoved, EmptyAt
      <4>2. ASSUME clock < l + IncrPeriod PROVE FALSE
        <5>1. job[w].now < job[w].raw.last + IncrPeriod
              BY <2>5, <3>0, <4>1, <4>2, Conf, SMTT(30)
        <5>2. b = job[w].raw
              BY <2>5, <5>1, RefillGives
        <5> QED BY <2>5, <4>1, <5>2, SMTT(30)
      <4> QED BY <4>2
    <3>4. \A i \in Instance : ~(clock < askAfter[i])
      <4>1. SUFFICES ASSUME NEW i \in Instance, clock < askAfter[i] PROVE FALSE
            OBVIOUS
      <4>2. EmptyAt(askAfter[i] - IncrPeriod)
            BY <3>0, <4>1 DEF Honest
      <4>3. askAfter[i] - IncrPeriod \in Nat
            BY <1>0, <4>2 DEF EmptyAt, Types, IsBucket
      <4>4. askAfter[i] \in Nat
            BY <1>0 DEF Types
      <4>5. clock < (askAfter[i] - IncrPeriod) + IncrPeriod
            BY <4>1, <4>4, Conf, SMTT(30)
      <4> QED BY <3>3, <4>2, <4>3, <4>5
    <3>5. ASSUME NEW v \in Worker, job'[v].at = "judge", job'[v].raw.tokens = 0,
                 clock < job'[v].raw.last + IncrPeriod
          PROVE  FALSE
      <4>1. job'[v] = job[v]
            BY <2>2, <3>5 DEF Now
      <4>2. EmptyAt(job[v].raw.last) /\ job[v].raw.last \in Nat
            BY <1>0, <3>0, <3>5, <4>1 DEF Honest, Types, IsJob, IsBucket
      <4> QED BY <3>3, <3>5, <4>1, <4>2
    <3>6. Honest'
          BY <2>1, <3>4, <3>5 DEF Honest
    <3> QED BY <3>1, <3>2, <3>6
  <2> QED BY <2>4, <2>6 DEF Inv
<1> QED BY <1>1, <1>2

\* Expire: the bucket lives an idle bucket's life from now.
LEMMA ExpireKeeps ==
    ASSUME Inv, NEW w \in Worker, Expire(w)
    PROVE  Inv'
<1>0. Types /\ (Calm => Timely /\ Kept /\ Honest) /\ clock \in Nat /\ IsBucket(store)
      BY DEF Inv, Types
<1>1. Answer(w) /\ UNCHANGED <<clock, skew, askAfter, loose, faults>>
      BY DEF Expire, boot
<1>2. Now(w, "idle", 0, Absent)
      BY <1>0, <1>1, Wrote
<1>3. /\ IsBucket(store') /\ store'.held = store.held /\ store'.tokens = store.tokens
      /\ store'.last = store.last /\ (store.held => store'.until = clock + idleTTL)
  <2>1. CASE store.held
    <3>1. store' = [store EXCEPT !.until = clock + idleTTL] /\ clock + idleTTL \in Nat
          BY <1>0, <2>1, TTLBound, SMTT(30) DEF Expire
    <3> QED BY <1>0, <3>1 DEF IsBucket
  <2>2. CASE ~store.held
        BY <1>0, <2>2 DEF Expire
  <2> QED BY <2>1, <2>2
<1>4. Types'
      BY <1>0, <1>1, <1>2, <1>3, TypesKept DEF Types
<1>5. ASSUME Calm' PROVE (Timely /\ Kept /\ Honest)'
  <2>0. Timely /\ Kept /\ Honest
        BY <1>0, <1>1, <1>5 DEF Calm
  <2>1. Timely'
        BY <1>0, <1>1, <1>2, <2>0, SMTT(30) DEF Timely, Now
  <2>2. Kept'
    <3>1. store.last \in Nat
          BY <1>0 DEF IsBucket
    <3>2. store'.held => store'.last <= clock /\ store'.last + idleTTL <= store'.until
          BY <1>0, <1>3, <2>0, <3>1, TTLBound, SMTT(30) DEF Kept
    <3> QED BY <1>1, <3>2 DEF Kept, idleTTL
  <2>3. Honest'
    <3>1. \A l : EmptyAt(l)' <=> EmptyAt(l)
          BY <1>3 DEF EmptyAt
    <3>2. \A v \in Worker : job'[v].at = "judge" => job[v].at = "judge" /\ job'[v].raw = job[v].raw
          BY <1>2 DEF Now
    <3> QED BY <1>1, <1>3, <2>0, <3>2 DEF Honest, EmptyAt
  <2> QED BY <2>1, <2>2, <2>3
<1> QED BY <1>4, <1>5 DEF Inv

\* A command that failed or was sent twice leaves well-formed state behind.
LEMMA FaultKeeps ==
    ASSUME Inv, NEW w \in Worker, Fails(w) \/ Resent(w)
    PROVE  Inv'
<1>0. Types
      BY DEF Inv
<1>1. UNCHANGED <<clock, skew, askAfter, loose>> /\ faults' = faults + 1
      BY DEF Fails, Resent, boot
<1>2. Answer(w) \/ job' = [job EXCEPT ![w].at = "get", ![w].tries = @ + 1]
      BY DEF Fails, Resent, Again
<1>3. \E a, n, r : Now(w, a, n, r) /\ a # "swap"
  <2>1. CASE Answer(w)
    <3>1. Now(w, "idle", 0, Absent)
          BY <1>0, <2>1, Wrote
    <3> QED BY <3>1, SMTT(30)
  <2>2. CASE job' = [job EXCEPT ![w].at = "get", ![w].tries = @ + 1]
    <3>1. Now(w, "get", job[w].now, job[w].raw)
          BY <1>0, <2>2, Wrote
    <3> QED BY <3>1, SMTT(30)
  <2> QED BY <1>2, <2>1, <2>2
<1>4. IsBucket(store')
      BY <1>0, WritesBuckets DEF Fails, Resent, Written, Types
<1>5. Types'
      BY <1>0, <1>1, <1>3, <1>4, TypesKept, SMTT(30) DEF Types
<1>6. ~Calm'
      BY <1>0, <1>1, SMTT(30) DEF Calm, Types
<1> QED BY <1>5, <1>6, Past

\* The sweep of the in-memory buckets.
LEMMA CleanupKeeps ==
    ASSUME Inv, Cleanup
    PROVE  Inv'
<1> DEFINE L == {w \in Worker : job[w].at = "take" /\ job[w].object = map}
<1>1. Cardinality(L) \in Nat
  <2>1. IsFiniteSet(L)
        BY Conf, FS_Subset
  <2> QED BY <2>1, FS_CardinalityType
<1>2. loose' = loose + Cardinality(L) /\ UNCHANGED <<clock, skew, askAfter, store, job, faults>>
      BY DEF Cleanup, boot
<1> HIDE DEF L
<1>3. loose \in Nat
      BY DEF Inv, Types
<1> QED BY <1>1, <1>2, <1>3, StillKeeps, SMTT(30)

\* Time passes.  A bucket dropped from under no request is one that could be full.
LEMMA AdvanceKeeps ==
    ASSUME Inv, Advance
    PROVE  Inv'
<1> DEFINE L == {w \in Worker : job[w].at = "expire"}
<1>0. Types /\ (Calm => Timely /\ Kept /\ Honest) /\ clock \in Nat /\ loose \in Nat /\ IsBucket(store)
      BY DEF Inv, Types
<1>1. clock' = clock + 1 /\ UNCHANGED <<skew, askAfter, job, faults>>
      BY DEF Advance, boot
<1>2. IsFiniteSet(L) /\ Cardinality(L) \in Nat
  <2>1. IsFiniteSet(L)
        BY Conf, FS_Subset
  <2> QED BY <2>1, FS_CardinalityType
<1>3. \/ /\ store.held /\ store.until <= clock + 1
         /\ store' = Absent /\ loose' = loose + Cardinality(L)
      \/ UNCHANGED <<store, loose>>
      BY DEF Advance
<1>4. Types'
  <2>1. IsBucket(store') /\ loose' \in Nat /\ clock' \in Nat
    <3> HIDE DEF L
    <3> QED BY <1>0, <1>1, <1>2, <1>3, IdleJob, SMTT(30)
  <2> QED BY <1>0, <1>1, <2>1 DEF Types, Refilled
<1>5. ASSUME Calm' PROVE (Timely /\ Kept /\ Honest)'
  <2>1. Calm
    <3> HIDE DEF L
    <3> QED BY <1>0, <1>1, <1>2, <1>3, <1>5, SMTT(30) DEF Calm
  <2>2. Timely /\ Kept /\ Honest
        BY <1>0, <2>1
  <2>3. Timely'
        BY <1>0, <1>1, <2>2, SMTT(30) DEF Timely, Types, IsJob
  <2>4. CASE UNCHANGED <<store, loose>>
    <3>1. Kept'
          BY <1>0, <1>1, <2>2, <2>4, SMTT(30) DEF Kept, IsBucket, idleTTL
    <3>2. \A v \in Worker : job[v].raw.last \in Nat
          BY <1>0 DEF Types, IsJob, IsBucket
    <3>3. \A i \in Instance : askAfter[i] \in Nat
          BY <1>0 DEF Types
    <3>4. \A n \in Nat : clock + 1 < n => clock < n
          BY <1>0, SMTT(30)
    <3>5. \A n \in Nat : n + IncrPeriod \in Nat
          BY Conf, SMTT(30)
    <3>6. Honest'
          BY <1>1, <2>2, <2>4, <3>2, <3>3, <3>4, <3>5 DEF Honest, EmptyAt
    <3> QED BY <2>3, <3>1, <3>6
  <2>5. CASE /\ store.held /\ store.until <= clock + 1
             /\ store' = Absent /\ loose' = loose + Cardinality(L)
    <3>1. Cardinality(L) = 0
      <4> HIDE DEF L
      <4> QED BY <1>0, <1>2, <1>5, <2>1, <2>5, SMTT(30) DEF Calm
    <3>2. L = {}
      <4> HIDE DEF L
      <4> QED BY <1>2, <3>1, FS_EmptySet
    <3>3. store.last + idleTTL <= store.until
          BY <2>2, <2>5, <3>2 DEF Kept
    <3>4. ASSUME NEW l \in Nat, EmptyAt(l) PROVE ~(clock + 1 < l + IncrPeriod)
      <4>1. store.last = l /\ store.until \in Nat
            BY <1>0, <3>4 DEF EmptyAt, IsBucket
      <4> QED BY <1>0, <2>5, <3>3, <4>1, TTLBound, Conf, SMTT(30)
    <3>5. \A i \in Instance : ~(clock + 1 < askAfter[i])
      <4>1. SUFFICES ASSUME NEW i \in Instance, clock + 1 < askAfter[i] PROVE FALSE
            OBVIOUS
      <4>2. askAfter[i] \in Nat
            BY <1>0 DEF Types
      <4>3. EmptyAt(askAfter[i] - IncrPeriod)
            BY <1>0, <2>2, <4>1, <4>2, SMTT(30) DEF Honest
      <4>4. askAfter[i] - IncrPeriod \in Nat
            BY <1>0, <4>3 DEF EmptyAt, IsBucket
      <4>5. clock + 1 < (askAfter[i] - IncrPeriod) + IncrPeriod
            BY <4>1, <4>2, Conf, SMTT(30)
      <4> QED BY <3>4, <4>3, <4>4, <4>5
    <3>6. \A v \in Worker : job[v].at = "judge" /\ job[v].raw.tokens = 0
             => ~(clock + 1 < job[v].raw.last + IncrPeriod)
      <4>1. SUFFICES ASSUME NEW v \in Worker, job[v].at = "judge", job[v].raw.tokens = 0,
                            clock + 1 < job[v].raw.last + IncrPeriod
                     PROVE  FALSE
            OBVIOUS
      <4>2. job[v].raw.last \in Nat
            BY <1>0 DEF Types, IsJob, IsBucket
      <4>3. clock < job[v].raw.last + IncrPeriod
            BY <1>0, <4>1, <4>2, Conf, SMTT(30)
      <4>4. EmptyAt(job[v].raw.last)
            BY <2>2, <4>1, <4>3 DEF Honest
      <4> QED BY <3>4, <4>1, <4>2, <4>4
    <3>7. Honest'
          BY <1>1, <3>5, <3>6 DEF Honest
    <3>8. Kept'
          BY <2>5 DEF Kept, Absent
    <3> QED BY <2>3, <3>7, <3>8
  <2> QED BY <1>3, <2>4, <2>5
<1> QED BY <1>4, <1>5 DEF Inv

-----------------------------------------------------------------------------
LEMMA InitInv == Init => Inv
<1> SUFFICES ASSUME Init PROVE Inv
    OBVIOUS
<1>1. /\ clock = 0 /\ loose = 0 /\ faults = 0 /\ store = Absent
      /\ skew \in [Instance -> 0..MaxSkew] /\ 0 \in Range(skew)
      /\ askAfter = [i \in Instance |-> 0] /\ job = [w \in Worker |-> Idle]
      BY DEF Init
<1>2. \E i \in Instance : skew[i] = 0
      BY <1>1 DEF Range
<1>3. \A w \in Worker : job[w] = Idle
      BY <1>1
<1>4. job = [w \in Worker |-> job[w]]
      BY <1>1
<1>5. Idle.at = "idle" /\ Idle.now = 0 /\ ~Absent.held
      BY DEF Idle, Absent
<1>6. skew \in [Instance -> Nat] /\ askAfter \in [Instance -> Nat]
      BY <1>1, Conf, SMTT(30)
<1>7. Types
      BY <1>1, <1>2, <1>3, <1>4, <1>5, <1>6, IdleJob DEF Types
<1>8. Timely /\ Kept /\ Honest
      BY <1>1, <1>3, <1>5, SMTT(30) DEF Timely, Kept, Honest
<1> QED BY <1>7, <1>8 DEF Inv

LEMMA StepInv == Inv /\ [Next]_vars => Inv'
<1> SUFFICES ASSUME Inv, [Next]_vars PROVE Inv'
    OBVIOUS
<1>0. loose \in Nat
      BY DEF Inv, Types
<1>1. CASE SetBucketGroup \/ Start \/ Stop \/ Terminate \/ UNCHANGED vars
  <2>1. UNCHANGED <<clock, skew, askAfter, store, job, faults, loose>>
        BY <1>1 DEF SetBucketGroup, Start, Stop, Terminate, vars, boot
  <2> QED BY <1>0, <2>1, StillKeeps, SMTT(30)
<1>2. CASE Cleanup
      BY <1>2, CleanupKeeps
<1>3. CASE Advance
      BY <1>3, AdvanceKeeps
<1>4. ASSUME NEW w \in Worker,
             \/ Ask(w) \/ LoadOrCreateBucket(w) \/ Take(w)
             \/ GetValue(w) \/ Create(w) \/ Judge(w) \/ Swap(w) \/ Expire(w)
             \/ Fails(w) \/ Resent(w)
      PROVE  Inv'
      BY <1>4, AskKeeps, GetKeeps, CreateKeeps, JudgeKeeps, SwapKeeps, ExpireKeeps, FaultKeeps
<1> QED BY <1>1, <1>2, <1>3, <1>4 DEF Next

\* rememberRefusal, refused: with the instances' clocks in step, no command failed
\* and no bucket lost to its expiry under a request, an instance that answers from
\* memory refuses only while the bucket in the store is empty, whatever the
\* instances, the requests, the rate and the order of their commands.
THEOREM RefusalHonestHolds == Spec => []RefusalHonest
<1>1. Inv => RefusalHonest
  <2> SUFFICES ASSUME Inv, Calm, NEW i \in Instance, Local(i) < askAfter[i]
               PROVE  store.held /\ Refilled(store, Local(i)).tokens = 0
      BY DEF RefusalHonest, Calm
  <2>1. Types /\ Honest /\ Local(i) = clock
        BY RightClock DEF Inv
  <2>2. clock \in Nat /\ askAfter[i] \in Nat /\ IsBucket(store)
        BY <2>1 DEF Types
  <2>3. EmptyAt(askAfter[i] - IncrPeriod)
        BY <2>1 DEF Honest
  <2>4. clock < store.last + IncrPeriod
        BY <2>1, <2>2, <2>3, Conf, SMTT(30) DEF EmptyAt
  <2>5. Refilled(store, clock) = store
        BY <2>2, <2>4, RefillGives
  <2> QED BY <2>1, <2>3, <2>5 DEF EmptyAt
<1> QED BY <1>1, InitInv, StepInv, PTL DEF Spec
=============================================================================
