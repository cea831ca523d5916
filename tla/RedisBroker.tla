---------------------------- MODULE RedisBroker ----------------------------
(***************************************************************************)
(* pubsubs/redis.BrokerWithLocalSubscriptions: one process's broker over   *)
(* its local subscriptions.  Its loop keeps the subscriber connection on   *)
(* the topics that have local subscriptions, hands messages to them and    *)
(* tells them of misses; Subscribe waits for Redis to confirm its topics;  *)
(* Start, Stop and Terminate come from one goroutine.                      *)
(*                                                                         *)
(* External: Redis executes the connection's commands in order and sends   *)
(* a topic's messages while it is subscribed; go-redis restores a lost     *)
(* connection and subscribes again to every topic it holds, which are the  *)
(* topics of the loop.  A message is its topic.                            *)
(***************************************************************************)
EXTENDS LocalSubscriptions

CONSTANTS MaxCycles, MaxEvents    \* bounds

VARIABLES
    state,      \* svc state
    life,       \* where the lifecycle call is: "idle" between calls
    cycle,      \* cycles started
    canceled,   \* the cycle's context
    loop,       \* "off", "on", or "ending": inside Deliver, ending subscriptions
    full,       \* the subscriptions that Deliver still has to end
    toEnd,      \* those that EndAll still has to end
    counts,     \* the loop's latest counts
    topics,     \* topics[t]: where t stands on the connection
    waiters,    \* subscriptions whose Subscribe waits for the loop's reply
    due,        \* missNoticeDue
    conn,       \* the subscriber connection: "none", "up", "down", or "restored": up again
    cmds,       \* commands sent and not executed: <<"sub" or "unsub", topics>>
    server,     \* topics Redis has subscribed on the connection
    inbox,      \* what Redis sent and the loop has not received: <<"msg", topic>>, <<"conf", topic, count>>
    ask,        \* ask[s]: where the Subscribe call of s is
    since,      \* since[s]: the cycle whose end that call watches
    events      \* messages published, connections lost, stops and deadlines so far

loopVars == <<loop, counts, topics, waiters, due>>
connVars == <<conn, cmds, server, inbox>>
lifeVars == <<state, life, cycle, canceled>>
askVars == <<ask, since>>
brokerVars == <<managerVars, lifeVars, loopVars, full, toEnd, connVars, askVars, events>>

Off == "off"
TopicSubscribing == "subscribing"
TopicSubscribed == "subscribed"

BrokerInit ==
    /\ ManagerInit
    /\ state = "READY" /\ life = "idle" /\ cycle = 0 /\ canceled = FALSE
    /\ loop = "off" /\ full = {} /\ toEnd = {}
    /\ counts = [t \in Topic |-> 0] /\ topics = [t \in Topic |-> Off]
    /\ waiters = {} /\ due = FALSE
    /\ conn = "none" /\ cmds = <<>> /\ server = {} /\ inbox = <<>>
    /\ ask = [s \in Sub |-> "none"] /\ since = [s \in Sub |-> 0]
    /\ events = 0

Event == events < MaxEvents /\ events' = events + 1

\* The subscriptions their subscribers hold.
Returned(s) == ask[s] = "returned" /\ ~HasEnded(s)

\* The messages of the topics lost never reach their subscriptions.
Lose(lost) ==
    owed' = [s \in Sub |-> owed[s] \/ (Returned(s) /\ Range(Topics[s]) \cap lost # {})]

MessagesIn(q) == {q[i][2] : i \in {j \in DOMAIN q : q[j][1] = "msg"}}

-----------------------------------------------------------------------------
(***************************************************************************)
(* Redis and the connection.                                               *)
(***************************************************************************)
Connected == conn \in {"up", "restored"}

\* One command names several topics and is one step of Redis; a SUBSCRIBE is confirmed topic by topic,
\* each time with the number of topics the connection has by then.
RedisExecutes ==
    LET named == Head(cmds)[2] IN
    /\ Connected /\ cmds # <<>>
    /\ IF Head(cmds)[1] = "sub"
       THEN /\ server' = server \cup Range(named)
            /\ inbox' = inbox \o [i \in DOMAIN named |->
                   <<"conf", named[i], Cardinality(server \cup {named[j] : j \in 1..i})>>]
       ELSE server' = server \ Range(named) /\ UNCHANGED inbox
    /\ cmds' = Tail(cmds)
    /\ UNCHANGED <<managerVars, lifeVars, loopVars, full, toEnd, conn, askVars, events>>

\* Someone publishes on t, this process or another.
Publish(t) ==
    /\ Event
    /\ IF t \in server
       THEN inbox' = Append(inbox, <<"msg", t>>) /\ UNCHANGED owed
       ELSE Lose({t}) /\ UNCHANGED inbox
    /\ UNCHANGED <<unowed, lifeVars, loopVars, full, toEnd, conn, cmds, server, askVars>>

\* The connection breaks; what the process has received of the inbox stays.
ConnectionLost ==
    /\ Connected /\ Event
    /\ conn' = "down" /\ cmds' = <<>> /\ server' = {}
    /\ \E k \in 0..Len(inbox) :
          /\ inbox' = SubSeq(inbox, 1, k)
          /\ Lose(MessagesIn(SubSeq(inbox, k + 1, Len(inbox))))
    /\ UNCHANGED <<unowed, lifeVars, loopVars, full, toEnd, askVars>>

\* One command for all of set, in the order of a map's iteration; none for none.
Command(kind, set) == IF set = {} THEN {<<>>} ELSE {<<<<kind, q>>>> : q \in SetToSeqs(set)}

Reconnect ==
    /\ conn = "down"
    /\ conn' = "restored"
    /\ cmds' \in Command("sub", {t \in Topic : topics[t] # Off})
    /\ UNCHANGED <<managerVars, lifeVars, loopVars, full, toEnd, server, inbox, askVars, events>>

-----------------------------------------------------------------------------
(***************************************************************************)
(* The loop.                                                               *)
(***************************************************************************)
\* apply, on the changed topics: what it subscribes and unsubscribes.  A topic being subscribed waits
\* for its confirmation.
Unsubscribable(tp) == {t \in Topic : tp[t] = TopicSubscribed}
ToSubscribe(changed, cnt, tp) == {t \in changed : cnt[t] > 0 /\ tp[t] = Off}
ToUnsubscribe(changed, cnt, tp) == {t \in changed \cap Unsubscribable(tp) : cnt[t] = 0}

AppliedTopics(changed, cnt, tp) ==
    [t \in Topic |-> IF t \in ToSubscribe(changed, cnt, tp) THEN TopicSubscribing
                     ELSE IF t \in ToUnsubscribe(changed, cnt, tp) THEN Off ELSE tp[t]]

\* On a lost connection nothing is sent: what go-redis holds is subscribed when it is restored.
AppliedSends(changed, cnt, tp) ==
    \E up \in Command("sub", ToSubscribe(changed, cnt, tp)),
       down \in Command("unsub", ToUnsubscribe(changed, cnt, tp)) :
        cmds' = IF Connected THEN cmds \o up \o down ELSE cmds

ConfirmedSent(s, tp) == \A t \in Range(Topics[s]) : tp[t] # Off
Confirmed(s, tp) == \A t \in Range(Topics[s]) : tp[t] = TopicSubscribed

\* answerWaiters, and with it the end of every turn of the loop: topics, commands, replies.
Turn(changed, cnt, tp, asking) ==
    LET after == AppliedTopics(changed, cnt, tp)
        answered == {s \in asking : ~HasEnded(s) /\ Confirmed(s, after)} IN
    /\ counts' = cnt
    /\ topics' = after
    /\ AppliedSends(changed, cnt, tp)
    /\ waiters' = {s \in asking : ~HasEnded(s)} \ answered
    /\ since' = [s \in Sub |-> IF s \in answered THEN 0 ELSE since[s]]
    /\ ask' = [s \in Sub |-> IF s \in answered THEN "returned"
                             ELSE IF s \in asking /\ ask[s] = "asking" THEN "waiting" ELSE ask[s]]

\* takeCounts.
Taken == [t \in Topic |-> IF t \in Changed THEN updates[t] ELSE counts[t]]

LoopOn == loop = "on"

ReceiveNotice ==
    /\ LoopOn /\ notice
    /\ notice' = FALSE
    /\ TakeUpdates
    /\ Turn(Changed, Taken, topics, waiters)
    /\ UNCHANGED <<all, terminated, shard, join, end, queue, owed, lifeVars, loop, due, full, toEnd,
                   conn, server, inbox, events>>

\* The subscribe behind a wait request is counted by the time the request is received.
ReceiveWaitRequest(s) ==
    /\ LoopOn /\ ask[s] = "asking"
    /\ TakeUpdates
    /\ Turn(Changed, Taken, topics, waiters \cup {s})
    /\ UNCHANGED <<all, terminated, shard, notice, join, end, queue, owed, lifeVars, loop, due, full,
                   toEnd, conn, server, inbox, events>>

\* Deliver, and then the end of every subscription whose queue was full, before the loop goes on.
ReceiveMessage ==
    /\ LoopOn /\ inbox # <<>> /\ Head(inbox)[1] = "msg"
    /\ Deliver(Head(inbox)[2])
    /\ full' = Full(Head(inbox)[2])
    /\ loop' = IF full' = {} THEN "on" ELSE "ending"
    /\ inbox' = Tail(inbox)
    /\ UNCHANGED <<lifeVars, counts, topics, waiters, due, toEnd, conn, cmds, server, askVars,
                   events>>

\* A second confirmation: go-redis subscribed again, and what was published in between is lost.
SubscribedAgainNever(t) == FALSE
SubscribedAgain(t) == topics[t] = TopicSubscribed

\* A confirmation, of a SUBSCRIBE the loop sent or, the second for its topic, of one go-redis sent on
\* a restored connection.  Once every topic of the connection is confirmed, all are told of the miss.
ReceiveConfirmation ==
    LET t == Head(inbox)[2]
        first == topics[t] = TopicSubscribing
        tp == IF first THEN [topics EXCEPT ![t] = TopicSubscribed] ELSE topics
        changed == IF first /\ counts[t] = 0 THEN {t} ELSE {}
        missed == due \/ SubscribedAgain(t) IN
    /\ LoopOn /\ inbox # <<>> /\ Head(inbox)[1] = "conf"
    /\ Turn(changed, counts, tp, waiters)
    /\ IF missed /\ Head(inbox)[3] >= Cardinality({u \in Topic : topics'[u] # Off})
       THEN /\ PutMissNoticeToAll
            /\ due' = FALSE
       ELSE due' = missed /\ UNCHANGED owed
    /\ inbox' = Tail(inbox)
    /\ UNCHANGED <<all, terminated, shard, updates, notice, join, end, queue, lifeVars, loop, full,
                   toEnd, conn, server, events>>

\* Deliver ends the subscriptions; an end that another began is waited for.
EndsFull(s) ==
    /\ s \in full
    /\ \/ BeginEnd(s) /\ UNCHANGED <<full, loop>>
       \/ /\ end[s] = Ended
          /\ full' = full \ {s}
          /\ loop' = IF full' = {} THEN "on" ELSE loop
          /\ UNCHANGED managerVars
    /\ UNCHANGED <<lifeVars, counts, topics, waiters, due, toEnd, connVars, askVars, events>>

LoopEnds ==
    /\ LoopOn /\ canceled
    /\ loop' = "off"
    /\ counts' = [t \in Topic |-> 0] /\ topics' = [t \in Topic |-> Off]
    /\ waiters' = {} /\ due' = FALSE
    /\ conn' = "none" /\ cmds' = <<>> /\ server' = {} /\ inbox' = <<>>
    /\ Lose(MessagesIn(inbox))
    /\ UNCHANGED <<unowed, lifeVars, full, toEnd, askVars, events>>

LoopStep ==
    \/ ReceiveNotice \/ ReceiveMessage \/ ReceiveConfirmation \/ LoopEnds
    \/ \E s \in Sub : ReceiveWaitRequest(s) \/ EndsFull(s)

-----------------------------------------------------------------------------
(***************************************************************************)
(* Subscribe, and the subscriber.                                          *)
(***************************************************************************)
elsewhere == <<lifeVars, loopVars, full, toEnd, connVars, events>>

\* Refused while the broker is not running; the cycle's stopped channel is read.
BeginSubscribe(s) ==
    /\ ask[s] = "none" /\ state = "RUNNING"
    /\ ask' = [ask EXCEPT ![s] = "begun"] /\ since' = [since EXCEPT ![s] = cycle]
    /\ UNCHANGED <<managerVars, elsewhere>>

RegisterOrRefused(s) ==
    /\ ask[s] = "begun"
    /\ \/ Register(s) /\ ask' = [ask EXCEPT ![s] = "joining"]
       \/ terminated /\ ask' = [ask EXCEPT ![s] = "failed"] /\ UNCHANGED managerVars
    /\ UNCHANGED <<since, elsewhere>>

EnterTopic(s) ==
    /\ ask[s] = "joining"
    /\ JoinShard(s)
    /\ ask' = IF join'[s] = Len(Topics[s]) THEN [ask EXCEPT ![s] = "asking"] ELSE ask
    /\ UNCHANGED <<since, elsewhere>>

\* The select: a request is sent by ReceiveWaitRequest; its reply, the end notice or the cycle's end
\* answers.  A reply is waiting there for good once it is sent, so the call has returned with it; one
\* that sees an end first returns nothing and leaves what EndBySubscriber leaves.
Asking(s) == ask[s] \in {"asking", "waiting"}
Stopped(c) == c < cycle \/ loop = "off"

SubscribeFails(s) ==
    /\ Asking(s)
    /\ \/ HasEnded(s) /\ UNCHANGED managerVars
       \/ Stopped(since[s]) /\ IF HasEnded(s) THEN UNCHANGED managerVars ELSE BeginEnd(s)
    /\ ask' = [ask EXCEPT ![s] = "failed"] /\ since' = [since EXCEPT ![s] = 0]
    /\ UNCHANGED elsewhere

\* The subscription's context is canceled, or its subscriber unsubscribes or drops it.
EndBySubscriber(s) ==
    /\ Asking(s) \/ Returned(s)
    /\ BeginEnd(s)
    /\ UNCHANGED <<askVars, elsewhere>>

EndStep(s) ==
    /\ LeaveShard(s)
    /\ UNCHANGED <<askVars, elsewhere>>

Takes(s) ==
    /\ Returned(s)
    /\ Take(s)
    /\ UNCHANGED <<askVars, elsewhere>>

SubscribeStep(s) ==
    \/ RegisterOrRefused(s) \/ EnterTopic(s) \/ SubscribeFails(s)
    \/ EndStep(s)

-----------------------------------------------------------------------------
(***************************************************************************)
(* Start, Stop, Terminate: never two at a time.                            *)
(***************************************************************************)
\* Start connects and takes the count updates; while it does, a Subscribe of the cycle before may
\* still be entering its topics.
Start ==
    /\ life = "idle" /\ state = "READY" /\ cycle < MaxCycles
    /\ life' = "starting"
    /\ conn' = "up"
    /\ TakeUpdates
    /\ UNCHANGED <<all, terminated, shard, notice, join, end, queue, owed, state, cycle, canceled,
                   loopVars, full, toEnd, cmds, server, inbox, askVars, events>>

\* The counts kept across a Stop, and the loop on them.
Running ==
    LET kept == {t \in Topic : Stats[t] > 0} IN
    /\ life = "starting"
    /\ life' = "idle" /\ state' = "RUNNING" /\ cycle' = cycle + 1 /\ canceled' = FALSE
    /\ loop' = "on" /\ due' = (kept # {})
    /\ Turn(kept, Stats, topics, {})
    /\ UNCHANGED <<managerVars, full, toEnd, conn, server, inbox, events>>

Stop ==
    /\ life = "idle" /\ state = "RUNNING" /\ Event
    /\ life' = "stopping" /\ state' = "STOPPING" /\ canceled' = TRUE
    /\ UNCHANGED <<managerVars, cycle, loopVars, full, toEnd, connVars, askVars>>

\* The cycle is over, or Stop's context is: then the state stays STOPPING.
StopReturns ==
    /\ life = "stopping"
    /\ life' = "idle"
    /\ \/ loop = "off" /\ state' = "READY" /\ UNCHANGED events
       \/ UNCHANGED state /\ Event
    /\ UNCHANGED <<managerVars, cycle, canceled, loopVars, full, toEnd, connVars, askVars>>

Terminate ==
    /\ life = "idle" /\ state # "TERMINATING" /\ Event
    /\ state' = "TERMINATING"
    /\ life' = IF state = "READY" THEN "halted" ELSE "halting"
    /\ canceled' = TRUE
    /\ UNCHANGED <<managerVars, cycle, loopVars, full, toEnd, connVars, askVars>>

Halted ==
    /\ life = "halting"
    /\ life' = "halted"
    /\ (loop = "off" /\ UNCHANGED events) \/ Event
    /\ UNCHANGED <<managerVars, state, cycle, canceled, loopVars, full, toEnd, connVars, askVars>>

EndAll ==
    /\ life = "halted"
    /\ life' = "endAll"
    /\ Terminated /\ toEnd' = all
    /\ UNCHANGED <<state, cycle, canceled, loopVars, full, connVars, askVars, events>>

EndAllEnds(s) ==
    /\ s \in toEnd
    /\ \/ BeginEnd(s) /\ UNCHANGED toEnd
       \/ end[s] = Ended /\ toEnd' = toEnd \ {s} /\ UNCHANGED managerVars
    /\ UNCHANGED <<lifeVars, loopVars, full, connVars, askVars, events>>

LifeStep ==
    \/ Start \/ Running \/ Stop \/ StopReturns \/ Terminate \/ Halted \/ EndAll
    \/ \E s \in Sub : EndAllEnds(s)

BrokerNext ==
    \/ RedisExecutes \/ ConnectionLost \/ Reconnect
    \/ \E t \in Topic : Publish(t)
    \/ LoopStep \/ LifeStep
    \/ \E s \in Sub : BeginSubscribe(s) \/ SubscribeStep(s) \/ EndBySubscriber(s) \/ Takes(s)

BrokerSpec == BrokerInit /\ [][BrokerNext]_brokerVars

-----------------------------------------------------------------------------
(***************************************************************************)
(* Properties.                                                             *)
(***************************************************************************)
\* Redis and the loop owe each other nothing, and the loop has seen every change of the counts.
Caught == Connected /\ loop = "on" /\ cmds = <<>> /\ inbox = <<>>
Settled == Caught /\ ~notice

\* On a connection that was never lost, Redis has every topic of every subscription that Subscribe has
\* returned, so no message passes it by (Subscribe: "from then on, every message published to them
\* reaches it"): no UNSUBSCRIBE of a shared or returning topic overtakes the SUBSCRIBE it needs.
\* Subscriptions kept across a Stop are owed a miss notice instead, until all are back.
SubscribedAtRedis ==
    conn = "up" /\ loop # "off" /\ ~due =>
        \A s \in Sub : Returned(s) => Range(Topics[s]) \subseteq server

\* A message a returned subscription lost, to a broken connection or a Stop, has been followed by a
\* miss notice once the connection is quiet again (run: "puts a miss notice on every subscription once
\* a hole on the connection has closed"), whatever was subscribed and unsubscribed meanwhile.
MissesAreTold == Caught => \A s \in Sub : Returned(s) => ~owed[s]

\* When nothing is on its way, Redis has exactly the topics that have local subscriptions, and no
\* Subscribe of this cycle is left waiting (run: "every SUBSCRIBE and UNSUBSCRIBE is decided here, from the latest
\* topic subscription counts"): no count change, however its notices merged, was lost.
QuietIsExact ==
    Settled => /\ server = {t \in Topic : shard[t] # {}}
               /\ \A s \in Sub : ask[s] = "waiting" => HasEnded(s) \/ Stopped(since[s])
=============================================================================
