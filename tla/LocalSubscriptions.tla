------------------------ MODULE LocalSubscriptions ------------------------
(***************************************************************************)
(* pubsubs.LocalSubscriptionManager: the subscriptions of one process.     *)
(* The manager's set of all subscriptions and every topic's shard have a   *)
(* mutex of their own; a subscription joins and leaves its topics one      *)
(* shard at a time, so that its end, a message and its own Subscribe call  *)
(* interleave.  An action is one critical section.                         *)
(*                                                                         *)
(* Who calls the manager is module RedisBroker.                            *)
(***************************************************************************)
EXTENDS Integers, FiniteSets, SequencesExt

CONSTANTS
    Sub,             \* subscriptions, each made once
    Topic,
    Named,           \* Named[s]: the topics the subscriber of s names
    QueueCapacity

ASSUME ConfValid ==
    /\ QueueCapacity \in Nat \ {0}
    /\ \A s \in Sub : Named[s] # <<>> /\ Range(Named[s]) \subseteq Topic

\* distinctTopics: repeats are dropped, the first-seen order kept.
Distinct(named) ==
    SelectSeq([i \in DOMAIN named |-> <<i, named[i]>>],
              LAMBDA e : \A j \in 1..(e[1] - 1) : named[j] # e[2])
Topics == [s \in Sub |-> LET d == Distinct(Named[s]) IN [i \in DOMAIN d |-> d[i][2]]]

VARIABLES
    all,          \* subscriptions the manager manages
    terminated,   \* set by EndAll
    shard,        \* shard[t]: subscriptions entered on topic t
    updates,      \* updates[t]: the count noted since the last take, or None
    notice,       \* a notice of count updates waits
    join,         \* join[s]: topics entered so far, of those Subscribe enters
    end,          \* end[s]: NotEnded, topics left so far, or Ended
    queue,        \* queue[s]: messages waiting
    owed          \* owed[s]: a message of s was lost, and no miss notice has been put since

unowed == <<all, terminated, shard, updates, notice, join, end, queue>>
managerVars == <<unowed, owed>>

None == -1
NotEnded == -1
Ended == 1 + Cardinality(Topic)

ManagerInit ==
    /\ all = {} /\ terminated = FALSE
    /\ shard = [t \in Topic |-> {}]
    /\ updates = [t \in Topic |-> None] /\ notice = FALSE
    /\ join = [s \in Sub |-> 0]
    /\ end = [s \in Sub |-> NotEnded]
    /\ queue = [s \in Sub |-> 0]
    /\ owed = [s \in Sub |-> FALSE]

HasEnded(s) == end[s] # NotEnded
Joined(s) == join[s] = Len(Topics[s])

\* noteCount, under the shard's mutex the count changed under.
NoteCountSilent(t) == updates' = [updates EXCEPT ![t] = Cardinality(shard'[t])] /\ UNCHANGED notice

NoteCount(t) ==
    /\ updates' = [updates EXCEPT ![t] = Cardinality(shard'[t])]
    /\ notice' = TRUE

-----------------------------------------------------------------------------
(***************************************************************************)
(* Subscribe.                                                              *)
(***************************************************************************)
Register(s) ==
    /\ ~terminated
    /\ all' = all \cup {s}
    /\ UNCHANGED <<terminated, shard, updates, notice, join, end, queue, owed>>

\* An end that ran meanwhile set ended before it left the shards: nothing is entered then.
MayEnterAlways(s) == TRUE
MayEnter(s) == ~HasEnded(s)

JoinShard(s) ==
    LET t == Topics[s][join[s] + 1] IN
    /\ s \in all \/ HasEnded(s)
    /\ ~Joined(s)
    /\ join' = [join EXCEPT ![s] = @ + 1]
    /\ IF MayEnter(s)
       THEN shard' = [shard EXCEPT ![t] = @ \cup {s}] /\ NoteCount(t)
       ELSE UNCHANGED <<shard, updates, notice>>
    /\ UNCHANGED <<all, terminated, end, queue, owed>>

-----------------------------------------------------------------------------
(***************************************************************************)
(* end, once per subscription: ended is set, the shards are left one by    *)
(* one, then the manager's set, then the queue is drained.                 *)
(***************************************************************************)
BeginEnd(s) ==
    /\ end[s] = NotEnded
    /\ end' = [end EXCEPT ![s] = 0]
    /\ UNCHANGED <<all, terminated, shard, updates, notice, join, queue, owed>>

\* Behind its last shard follow the manager's set and the drain: ended, the subscription is the same
\* to every other with or without them.
LeaveShard(s) ==
    LET t == Topics[s][end[s] + 1]
        last == end[s] + 1 = Len(Topics[s]) IN
    /\ end[s] \in 0..(Len(Topics[s]) - 1)
    /\ end' = [end EXCEPT ![s] = IF last THEN Ended ELSE @ + 1]
    /\ shard' = [shard EXCEPT ![t] = @ \ {s}]
    /\ IF s \in shard[t] THEN NoteCount(t) ELSE UNCHANGED <<updates, notice>>
    /\ all' = IF last THEN all \ {s} ELSE all
    /\ queue' = IF last THEN [queue EXCEPT ![s] = 0] ELSE queue
    /\ owed' = [owed EXCEPT ![s] = FALSE]
    /\ UNCHANGED <<terminated, join>>

-----------------------------------------------------------------------------
(***************************************************************************)
(* Messages and notices.                                                   *)
(***************************************************************************)
\* Deliver under the shard's mutex; the subscriptions of Full(t) are to be ended by the caller.
Puttable(t) == {s \in shard[t] : ~HasEnded(s)}
Full(t) == {s \in Puttable(t) : queue[s] = QueueCapacity}

Deliver(t) ==
    /\ queue' = [s \in Sub |-> IF s \in Puttable(t) \ Full(t) THEN queue[s] + 1 ELSE queue[s]]
    /\ UNCHANGED <<all, terminated, shard, updates, notice, join, end, owed>>

\* A notice that was not taken yet already says this: with or without a put, one waits.
PutMissNoticeToAll == owed' = [s \in Sub |-> owed[s] /\ s \notin all]

\* The subscriber takes a message.
Take(s) ==
    /\ queue[s] > 0
    /\ queue' = [queue EXCEPT ![s] = @ - 1]
    /\ UNCHANGED <<all, terminated, shard, updates, notice, join, end, owed>>

\* EndAll up to its ends, which the caller runs over what was in all.
Terminated ==
    /\ terminated' = TRUE
    /\ UNCHANGED <<all, shard, updates, notice, join, end, queue, owed>>

\* TakeTopicSubscriptionCountUpdates: what is taken, and the taking.
Changed == {t \in Topic : updates[t] # None}
TakeUpdates == updates' = [t \in Topic |-> None]

Stats == [t \in Topic |-> Cardinality(shard[t])]

(***************************************************************************)
(* Properties.                                                             *)
(***************************************************************************)
\* When a subscription's end and its own Subscribe call are over, nothing of it is left: it is on no
\* topic, not in the manager's set, and its queue is empty for good, whatever messages, joins and
\* ends of others came between their steps (Subscribe: "skipping here leaves nothing behind"; end:
\* "No put can reach ms any more").
NothingLeftBehind ==
    \A s \in Sub : end[s] = Ended =>
        /\ s \notin all /\ queue[s] = 0
        /\ Joined(s) => \A t \in Topic : s \notin shard[t]
=============================================================================
