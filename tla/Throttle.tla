------------------------------ MODULE Throttle ------------------------------
(***************************************************************************)
(* gw/throttle: one token bucket, kept in the memory of the one process of   *)
(* an InProc app (LimiterInMemBuckets) or in the KVDB that the instances of  *)
(* a CrossProc app share (LimiterKVDBBuckets), and the request path in front *)
(* of it (handlerwrappers.serveThrottled).  A request reads its clock once,  *)
(* on entry, and is judged by that time however late its commands run.       *)
(***************************************************************************)
EXTENDS Integers, Sequences, FiniteSets, FiniteSetsExt, Functions

CONSTANTS
    Worker,            \* request goroutines
    Instance, At,      \* processes of the app; At[w]: the one that serves worker w
    Burst, Increment, IncrPeriod,  \* the BucketConf of the group
    CleanupOlderThan,  \* of the in-memory limiter
    CasAttempts,       \* casAttempts
    MaxSkew,           \* bound: how far the clocks of two instances disagree, the slowest one right
    MaxLag,            \* bound: how long a request takes to its verdict
    MaxTime,           \* bound: the last instant
    MaxObjects,        \* bound: buckets created in memory
    MaxRequests,       \* bound: requests
    MaxFaults          \* bound: commands that failed or were sent twice

\* Conf.Validate: the numbers of a group describe a rate.
ASSUME ConfAssumption ==
    /\ {Burst, Increment, IncrPeriod, CleanupOlderThan, CasAttempts} \subseteq Nat \ {0}
    /\ At \in [Worker -> Instance] /\ IsFiniteSet(Worker)
    /\ {MaxSkew, MaxLag, MaxTime, MaxObjects, MaxRequests, MaxFaults} \subseteq Nat

VARIABLES
    mode,      \* the app's coordination mode, which picks the limiter
    state,     \* the limiter's lifecycle state
    grouped,   \* the bucket group is registered
    clock,     \* the real time
    skew,      \* skew[i]: instance i's clock minus the real one
    map,       \* in memory: the bucket registered under the id, 0 for none
    bucket,    \* in memory: every bucket made, its tokens and refill moment
    store,     \* in the KVDB: the value under the key, and when it expires
    askAfter,  \* askAfter[i]: the refusal instance i remembers, 0 for none
    job,       \* job[w]: what the request of worker w is at
    asked,     \* requests so far
    spent,     \* spent[t]: tokens taken at instant t
    loose,     \* requests under way when the bucket was dropped under them
    faults     \* faults so far

vars == <<mode, state, grouped, clock, skew, map, bucket, store, askAfter, job, asked, spent, loose, faults>>
boot == <<mode, grouped, skew>>

Absent == [held |-> FALSE, tokens |-> 0, last |-> 0, until |-> 0]
Idle == [at |-> "idle", now |-> 0, object |-> 0, raw |-> Absent, tries |-> 0]

Local(i) == clock + skew[i]

\* newLimiter: the limiter follows from the coordination mode.
Init ==
    /\ mode \in {"InProc", "CrossProc"} /\ state = "READY" /\ grouped = FALSE
    /\ clock = 0
    /\ skew \in [Instance -> 0..MaxSkew] /\ 0 \in Range(skew)
    /\ mode = "InProc" => skew = [i \in Instance |-> 0]
    /\ map = 0 /\ bucket = <<>> /\ store = Absent
    /\ askAfter = [i \in Instance |-> 0]
    /\ job = [w \in Worker |-> Idle] /\ asked = 0 /\ loose = 0
    /\ spent = [t \in 0..MaxTime |-> 0]
    /\ faults = 0

-----------------------------------------------------------------------------
\* SetBucketGroup: the in-memory limiter takes it only in READY, with an empty
\* bucket map; the other one in any state.
SetBucketGroup ==
    /\ ~grouped
    /\ mode = "InProc" => state = "READY"
    /\ grouped' = TRUE /\ map' = 0
    /\ UNCHANGED <<mode, state, clock, skew, bucket, store, askAfter, job, asked, spent, loose, faults>>

\* Start, Stop, Terminate: the buckets stay what and where they are.
Start ==
    /\ state = "READY" /\ state' = "RUNNING"
    /\ UNCHANGED <<boot, clock, map, bucket, store, askAfter, job, asked, spent, loose, faults>>

Stop ==
    /\ state = "RUNNING" /\ state' = "READY"
    /\ UNCHANGED <<boot, clock, map, bucket, store, askAfter, job, asked, spent, loose, faults>>

Terminate ==
    /\ state # "TERMINATING" /\ state' = "TERMINATING"
    /\ UNCHANGED <<boot, clock, map, bucket, store, askAfter, job, asked, spent, loose, faults>>

-----------------------------------------------------------------------------
\* refill and refilled: whole periods only, capped at the burst, the refill
\* moment advanced by exactly the periods counted; an older time changes nothing.
Refilled(b, now) ==
    LET times == (now - b.last) \div IncrPeriod IN
    IF now - b.last < IncrPeriod THEN b
    ELSE [b EXCEPT !.tokens = Min({Burst, @ + times * Increment}),
                   !.last = @ + times * IncrPeriod]

\* idleTTL: from empty to full.
idleTTL == ((Burst + Increment - 1) \div Increment) * IncrPeriod

Answer(w) == job' = [job EXCEPT ![w] = Idle]
Spend == spent' = [spent EXCEPT ![clock] = @ + 1]

\* serveThrottled: a limiter that is not admitted answers 503 and a key that cannot
\* be had 429, with no effect; else the request asks at its own time.  An unknown
\* group, and a refusal the instance still remembers, are answered at once.
Ask(w) ==
    LET now == Local(At[w]) IN
    /\ job[w].at = "idle" /\ asked < MaxRequests
    /\ state = "RUNNING"
    /\ asked' = asked + 1
    /\ IF ~grouped \/ (mode = "CrossProc" /\ now < askAfter[At[w]])
         THEN UNCHANGED job
         ELSE job' = [job EXCEPT ![w] =
                        [Idle EXCEPT !.at = IF mode = "InProc" THEN "load" ELSE "get", !.now = now]]
    /\ UNCHANGED <<boot, state, clock, map, bucket, store, askAfter, spent, loose, faults>>

-----------------------------------------------------------------------------
\* loadOrCreateBucket: the bucket under the id, a full one if there is none.
LoadOrCreateBucket(w) ==
    /\ job[w].at = "load"
    /\ IF map # 0 THEN UNCHANGED <<map, bucket>>
       ELSE /\ Len(bucket) < MaxObjects
            /\ map' = Len(bucket) + 1
            /\ bucket' = Append(bucket, [tokens |-> Burst, last |-> job[w].now])
    /\ job' = [job EXCEPT ![w].at = "take", ![w].object = map']
    /\ UNCHANGED <<boot, state, clock, store, askAfter, asked, spent, loose, faults>>

\* Bucket.TryAdmit, under the bucket's mutex; the bucket may have been swept.
Take(w) ==
    /\ job[w].at = "take"
    /\ LET b == Refilled(bucket[job[w].object], job[w].now) IN
         IF b.tokens <= 0
           THEN bucket' = [bucket EXCEPT ![job[w].object] = b] /\ Answer(w) /\ UNCHANGED spent
           ELSE bucket' = [bucket EXCEPT ![job[w].object] = [b EXCEPT !.tokens = @ - 1]] /\ Spend /\ Answer(w)
    /\ UNCHANGED <<boot, state, clock, map, store, askAfter, asked, loose, faults>>

\* cleanup: the ticker's sweep, while the limiter runs.
Cleanup ==
    /\ mode = "InProc" /\ state = "RUNNING" /\ map # 0
    /\ clock - bucket[map].last > CleanupOlderThan
    /\ map' = 0
    /\ loose' = loose + Cardinality({w \in Worker : job[w].at = "take" /\ job[w].object = map})
    /\ UNCHANGED <<boot, state, clock, bucket, store, askAfter, job, asked, spent, faults>>

-----------------------------------------------------------------------------
\* GetValue and parseBucket: what the store holds, as of now.
GetValue(w) ==
    /\ job[w].at = "get"
    /\ job' = [job EXCEPT ![w].raw = store,
                          ![w].at = IF store.held THEN "judge" ELSE "create"]
    /\ UNCHANGED <<boot, state, clock, map, bucket, store, askAfter, asked, spent, loose, faults>>

\* One more turn of the loop, or no verdict after casAttempts of them.
Again(w) ==
    IF job[w].tries + 1 < CasAttempts
      THEN job' = [job EXCEPT ![w].at = "get", ![w].tries = @ + 1]
      ELSE Answer(w)

Put(b) == [held |-> TRUE, tokens |-> b.tokens, last |-> b.last, until |-> clock + idleTTL]

\* SetValueIfNotExists: of many that met no bucket one creates it and is admitted.
Create(w) ==
    /\ job[w].at = "create"
    /\ IF store.held THEN Again(w) /\ UNCHANGED <<store, spent>>
       ELSE store' = Put([tokens |-> Burst - 1, last |-> job[w].now]) /\ Spend /\ Answer(w)
    /\ UNCHANGED <<boot, state, clock, map, bucket, askAfter, asked, loose, faults>>

\* Mutant of RefusalUntil: a whole period from the refusal, not from the refill moment.
RefusalUntilNow(w, b) == job[w].now + IncrPeriod

\* rememberRefusal keeps the moment the bucket can hold a token again.
RefusalUntil(w, b) == b.last + IncrPeriod

\* The refill is computed on the value read; empty is a refusal, remembered.
Judge(w) ==
    /\ job[w].at = "judge"
    /\ LET b == Refilled(job[w].raw, job[w].now) IN
         IF b.tokens <= 0
           THEN askAfter' = [askAfter EXCEPT ![At[w]] = RefusalUntil(w, b)] /\ Answer(w)
           ELSE job' = [job EXCEPT ![w].at = "swap"] /\ UNCHANGED askAfter
    /\ UNCHANGED <<boot, state, clock, map, bucket, store, asked, spent, loose, faults>>

\* Mutant of Unmoved: any bucket that is still there is overwritten.
UnmovedAny(w) == store.held

\* The value in the store is the one this request read.
Unmoved(w) ==
    /\ store.held
    /\ store.tokens = job[w].raw.tokens /\ store.last = job[w].raw.last

\* What SetValueIfEquals writes: one token less, the key's lifetime unchanged.
Spent(w) ==
    LET b == Refilled(job[w].raw, job[w].now) IN
    [store EXCEPT !.tokens = b.tokens - 1, !.last = b.last]

Swap(w) ==
    /\ job[w].at = "swap"
    /\ IF Unmoved(w) THEN store' = Spent(w) /\ Spend /\ job' = [job EXCEPT ![w].at = "expire"]
       ELSE Again(w) /\ UNCHANGED <<store, spent>>
    /\ UNCHANGED <<boot, state, clock, map, bucket, askAfter, asked, loose, faults>>

\* Expire: the lifetime is that of an idle bucket again; the request is admitted.
Expire(w) ==
    /\ job[w].at = "expire"
    /\ store' = IF store.held THEN [store EXCEPT !.until = clock + idleTTL] ELSE store
    /\ Answer(w)
    /\ UNCHANGED <<boot, state, clock, map, bucket, askAfter, asked, spent, loose, faults>>

\* The conditional write of request w took effect, whatever w is told of it.
Written(w) ==
    /\ \/ /\ job[w].at = "create" /\ ~store.held
          /\ store' = Put([tokens |-> Burst - 1, last |-> job[w].now])
       \/ job[w].at = "swap" /\ Unmoved(w) /\ store' = Spent(w)
    /\ Spend

\* A command failed, executed or not: no verdict, 503.
Fails(w) ==
    /\ job[w].at \in {"get", "create", "swap", "expire"} /\ faults < MaxFaults
    /\ UNCHANGED <<store, spent>> \/ Written(w)
    /\ Answer(w)
    /\ faults' = faults + 1
    /\ UNCHANGED <<boot, state, clock, map, bucket, askAfter, asked, loose>>

\* A conditional write sent twice because its answer was lost: the second
\* execution finds the first one's value and answers "not written".
Resent(w) ==
    /\ job[w].at \in {"create", "swap"} /\ faults < MaxFaults
    /\ Written(w)
    /\ Again(w)
    /\ faults' = faults + 1
    /\ UNCHANGED <<boot, state, clock, map, bucket, askAfter, asked, loose>>

\* Time passes; the store drops a bucket whose lifetime ran out.
Advance ==
    /\ clock < MaxTime
    /\ \A w \in Worker : job[w].at # "idle" => Local(At[w]) < job[w].now + MaxLag
    /\ clock' = clock + 1
    /\ IF store.held /\ store.until <= clock + 1
         THEN store' = Absent /\ loose' = loose + Cardinality({w \in Worker : job[w].at = "expire"})
         ELSE UNCHANGED <<store, loose>>
    /\ UNCHANGED <<boot, state, map, bucket, askAfter, job, asked, spent, faults>>

Next ==
    \/ SetBucketGroup \/ Start \/ Stop \/ Terminate \/ Cleanup \/ Advance
    \/ \E w \in Worker :
         \/ Ask(w) \/ LoadOrCreateBucket(w) \/ Take(w)
         \/ GetValue(w) \/ Create(w) \/ Judge(w) \/ Swap(w) \/ Expire(w)
         \/ Fails(w) \/ Resent(w)

Spec == Init /\ [][Next]_vars

-----------------------------------------------------------------------------
\* BucketConf: a bucket holds at most Burst tokens and gains Increment of them
\* every IncrPeriod.  In no stretch of time are more tokens taken than that allows,
\* however the requests of one process, or of several with clocks of their own,
\* interleave, fail, are repeated, and meet the sweep or the expiry of the bucket,
\* but for one token for each request that is under way at that moment.
RateBound ==
    \A a \in 0..clock : \A b \in a..clock :
        SumFunctionOnSet(spent, a..b) <=
            Burst + Increment * (((b - a + MaxSkew + MaxLag) \div IncrPeriod) + 1) + loose

\* "This never refuses what the store would have admitted": while an instance
\* answers from a remembered refusal, the bucket in the store is empty by its clock.
\* Where the instances' clocks agree (one ahead refills the bucket for all of them),
\* and no bucket expired between a request's SetValueIfEquals and its Expire: that
\* request, or one beside it, remembers the refill moment of a bucket that is gone,
\* and refuses what the store's new, full one would admit.
RefusalHonest ==
    faults = 0 /\ loose = 0 /\ (\A i, j \in Instance : skew[i] = skew[j]) => \A i \in Instance :
        Local(i) < askAfter[i] => store.held /\ Refilled(store, Local(i)).tokens = 0
=============================================================================
