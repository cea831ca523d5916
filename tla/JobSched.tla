------------------------------ MODULE JobSched ------------------------------
(***************************************************************************)
(* gw/jobsched: the schedulers of the instances of one app, their one-time   *)
(* and cron jobs, and the ledger in the KVDB that picks one instance for     *)
(* each planned minute of a OncePerApp job.                                  *)
(*                                                                          *)
(* Time is counted in units, U of them to a minute.  Every instance reads    *)
(* its own clock, skew[i] units ahead of the real one; a ticker hands it the *)
(* time a tick was due, which is in the past when the loop comes late.       *)
(***************************************************************************)
EXTENDS Naturals, Sequences, FiniteSets, Functions

CONSTANTS
    Instance,      \* processes of the app
    CoordMode,     \* "InProc" or "CrossProc"
    Job,           \* the jobs the app may register: id, kind, scope, a cron job's bit sets
    Lists,         \* the minutes, hours, days and weekdays the app wants its cron jobs on
    U,             \* units in a minute
    Margin,        \* how far ahead a one-time job must be, the code's 30 seconds
    MarkLifetime,  \* how long a claim's mark is kept, in units
    Exec,          \* the times the app schedules one-time jobs for
    MaxSkew,       \* bound: how far two clocks disagree
    MaxLag,        \* bound: how late a tick is received or a walk still claims
    Epoch,         \* the first instant of the model
    MaxTime,       \* bound: the last instant
    MaxAdds,       \* bound: registrations in one instance
    MaxFaults      \* bound: failed or repeated claims, stops, crashes

ASSUME JobAssumption ==
    /\ CoordMode \in {"InProc", "CrossProc"}
    /\ {U, MarkLifetime} \subseteq Nat \ {0}
    /\ {Margin, MaxSkew, MaxLag, Epoch, MaxTime, MaxAdds, MaxFaults} \subseteq Nat

VARIABLES
    clock,     \* the real time
    skew,      \* skew[i]: instance i's clock minus the real one
    phase,     \* phase[i]: "READY", "RUNNING", "STOPPING"
    due,       \* due[i]: when the ticker's next tick is due, on i's clock
    now,       \* now[i]: the time of the tick being handled
    step,      \* step[i]: what the loop of instance i is at
    todo,      \* todo[i]: jobs taken by the walk and still to be claimed
    oneTime,   \* oneTime[i]: one-time jobs filed, each with its box and minute
    cron,      \* cron[i]: cron jobs filed, each with its box
    ledger,    \* ledger[i]: the ledger is resolved
    marks,     \* the rows in the KVDB: job id, planned minute, end of life
    active,    \* active[i]: how many tasks run, the wait group of instance i
    fired,     \* fired[<<id, minute>>]: how often the app ran a OncePerApp job
    accepted,  \* accepted[i]: OncePerApp one-time jobs registered at i, with their minute
    adds,      \* adds[i]: registrations so far
    faults     \* faults so far

vars == <<clock, skew, phase, due, now, step, todo, oneTime, cron, ledger, marks, active,
          fired, accepted, adds, faults>>
boxes == <<oneTime, cron, ledger, accepted, adds>>
walk == <<due, now, step, todo>>

Local(i) == clock + skew[i]
Minute(t) == t \div U

\* The calendar of an instant, sixty minutes to the hour from the start of a month.
Calendar(t) ==
    LET m == Minute(t) IN
    [minute |-> m % 60, hour |-> (m \div 60) % 24,
     day |-> (m \div 1440) + 1, weekday |-> (m \div 1440) % 7]

\* The bit sets of a cron job, as the set of the bits that are one.
BitsFromMinutes(list) == {v \in Range(list) : 0 <= v /\ v < 60}
BitsFromHours(list) == {v \in Range(list) : 0 <= v /\ v < 24}
BitsFromWeekdays(list) == {v \in Range(list) : 0 <= v /\ v < 7}
BitsFromDaysOfMonth(list) == {v - 1 : v \in {d \in Range(list) : 1 <= d /\ d <= 31}}

\* NewEveryMinEmptyCronJob, the template whose fields an app then narrows.
NewEveryMinEmptyCronJob(id, scope) ==
    [id |-> id, kind |-> "cron", scope |-> scope,
     minutes |-> 0..59, hours |-> 0..23, daysOfMonth |-> 0..30, weekdays |-> 0..6]
ListedCronJob(id, scope) ==
    [NewEveryMinEmptyCronJob(id, scope) EXCEPT
       !.minutes = BitsFromMinutes(Lists.minutes), !.hours = BitsFromHours(Lists.hours),
       !.daysOfMonth = BitsFromDaysOfMonth(Lists.days),
       !.weekdays = BitsFromWeekdays(Lists.weekdays)]

\* Mutant of Matches: the shift of the day is applied to the minute.
MatchesShifted(job, t) ==
    /\ Calendar(t).minute + 1 \in job.minutes
    /\ Calendar(t).hour \in job.hours
    /\ Calendar(t).day - 1 \in job.daysOfMonth
    /\ Calendar(t).weekday \in job.weekdays

Matches(job, t) ==
    /\ Calendar(t).minute \in job.minutes
    /\ Calendar(t).hour \in job.hours
    /\ Calendar(t).day - 1 \in job.daysOfMonth
    /\ Calendar(t).weekday \in job.weekdays

Init ==
    /\ clock = Epoch
    /\ skew \in {f \in [Instance -> 0..MaxSkew] : \E i \in Instance : f[i] = 0}
    /\ phase = [i \in Instance |-> "READY"]
    /\ due = [i \in Instance |-> 0] /\ now = [i \in Instance |-> 0]
    /\ step = [i \in Instance |-> "exited"]
    /\ todo = [i \in Instance |-> <<>>]
    /\ oneTime = [i \in Instance |-> <<>>] /\ cron = [i \in Instance |-> {}]
    /\ ledger = [i \in Instance |-> FALSE]
    /\ marks = {} /\ active = [i \in Instance |-> 0]
    /\ fired = [x \in {} |-> 0]
    /\ accepted = [i \in Instance |-> {}] /\ adds = [i \in Instance |-> 0]
    /\ faults = 0

-----------------------------------------------------------------------------
\* The box a job goes to: under InProc one process is the whole app.
Box(job) ==
    IF CoordMode = "CrossProc" /\ job.scope = "OncePerApp" THEN "perApp" ELSE "perInstance"

\* Only a per-app job asks for the ledger; once resolved it is kept.  (Without
\* one, or with an undeclared scope, the job is refused with no effect.)
ResolveLedger(i, job) == ledger' = [ledger EXCEPT ![i] = @ \/ Box(job) = "perApp"]

\* Mutant of FiringMinute: a job inside a minute is filed under that minute.
FiringMinuteDown(exec) == Minute(exec)

\* storeOneTimeJob: the minute of exec, the next one when exec is inside a minute.
FiringMinute(exec) == IF exec % U > 0 THEN Minute(exec) + 1 ELSE Minute(exec)

AddOneTimeJob(i, job, exec) ==
    /\ job.kind = "oneTime" /\ adds[i] < MaxAdds
    /\ exec >= Local(i) + Margin
    /\ ResolveLedger(i, job)
    /\ LET filed == [job |-> job, box |-> Box(job), exec |-> exec, minute |-> FiringMinute(exec)]
       IN /\ oneTime' = [oneTime EXCEPT ![i] = Append(@, filed)]
          /\ accepted' = IF Box(job) = "perApp"
                           THEN [accepted EXCEPT ![i] = @ \cup {<<job.id, filed.minute>>}]
                           ELSE accepted
    /\ adds' = [adds EXCEPT ![i] = @ + 1]
    /\ UNCHANGED <<clock, skew, phase, walk, cron, marks, active, fired, faults>>

\* storeCronJob: an id is unique across both boxes.
AddCronJob(i, job) ==
    /\ job.kind = "cron" /\ adds[i] < MaxAdds
    /\ \A c \in cron[i] : c.job.id # job.id
    /\ ResolveLedger(i, job)
    /\ cron' = [cron EXCEPT ![i] = @ \cup {[job |-> job, box |-> Box(job)]}]
    /\ adds' = [adds EXCEPT ![i] = @ + 1]
    /\ UNCHANGED <<clock, skew, phase, walk, oneTime, marks, active, fired, accepted, faults>>

DeleteOneTimeJob(i, id) ==
    /\ \E k \in DOMAIN oneTime[i] : oneTime[i][k].job.id = id
    /\ oneTime' = [oneTime EXCEPT ![i] = SelectSeq(@, LAMBDA f : f.job.id # id)]
    /\ accepted' = [accepted EXCEPT ![i] =
                      @ \ {<<id, f.minute>> : f \in Range(oneTime[i])}]
    /\ UNCHANGED <<clock, skew, phase, walk, cron, ledger, marks, active, fired, adds, faults>>

DeleteCronJob(i, id) ==
    /\ \E c \in cron[i] : c.job.id = id
    /\ cron' = [cron EXCEPT ![i] = {c \in @ : c.job.id # id}]
    /\ UNCHANGED <<clock, skew, phase, walk, oneTime, ledger, marks, active, fired, accepted,
                   adds, faults>>

-----------------------------------------------------------------------------
\* A fresh ticker: its first tick is due a minute from now.  (Jobs filed under an
\* earlier minute stay in the box and never run.)
StartSched(i) ==
    /\ phase[i] = "READY" /\ step[i] = "exited"
    /\ phase' = [phase EXCEPT ![i] = "RUNNING"]
    /\ due' = [due EXCEPT ![i] = Local(i) + U]
    /\ step' = [step EXCEPT ![i] = "select"]
    /\ accepted' = [accepted EXCEPT ![i] = {key \in @ : key[2] >= Minute(Local(i) + U)}]
    /\ UNCHANGED <<clock, skew, now, todo, oneTime, cron, ledger, adds, marks, active, fired,
                   faults>>

\* Stop cancels the cycle's context; the loop sees it when it selects.
StopSched(i) ==
    /\ phase[i] = "RUNNING" /\ faults < MaxFaults
    /\ phase' = [phase EXCEPT ![i] = "STOPPING"]
    /\ faults' = faults + 1
    /\ UNCHANGED <<clock, skew, walk, boxes, marks, active, fired>>

\* run, ctx.Done(): the loop waits for its tasks and exits.
Exit(i) ==
    /\ step[i] = "select" /\ phase[i] = "STOPPING" /\ active[i] = 0
    /\ phase' = [phase EXCEPT ![i] = "READY"]
    /\ step' = [step EXCEPT ![i] = "exited"]
    /\ UNCHANGED <<clock, skew, due, now, todo, boxes, marks, active, fired, faults>>

\* The ticker hands over the oldest tick not yet received and skips the ones that
\* passed meanwhile (with both channels ready select may still take the tick).
Tick(i) ==
    /\ step[i] = "select" /\ due[i] <= Local(i)
    /\ now' = [now EXCEPT ![i] = due[i]]
    /\ due' = [due EXCEPT ![i] = @ + U * (1 + ((Local(i) - @) \div U))]
    /\ step' = [step EXCEPT ![i] = "perInstance"]
    /\ UNCHANGED <<clock, skew, phase, todo, boxes, marks, active, fired, faults>>

\* What is claimed and run: a job, and the time it must not run before.
Task(job, exec) == [id |-> job.id, exec |-> exec]

\* The one-time jobs of a box filed under the minute of the tick, and the others.
DueIn(i, box) ==
    SelectSeq(oneTime[i], LAMBDA f : f.box = box /\ f.minute = Minute(now[i]))
Rest(i, box) ==
    SelectSeq(oneTime[i], LAMBDA f : ~(f.box = box /\ f.minute = Minute(now[i])))
CronDue(i, box) ==
    {c \in cron[i] : c.box = box /\ Matches(c.job, now[i])}
CronTask(i, c) == Task(c.job, Minute(now[i]) * U)

\* runOneTimeJob, runCronJob: n goroutines of the wait group run their tasks.
Run(i, n) == active' = [active EXCEPT ![i] = @ + n]

\* runOneTimeJobsPerInstance and runCronJobsPerInstance: no command is sent.
RunOneTimeJobsPerInstance(i) == oneTime' = [oneTime EXCEPT ![i] = Rest(i, "perInstance")]
RunCronJobsPerInstance(i) == CronDue(i, "perInstance")

WalkPerInstance(i) ==
    /\ step[i] = "perInstance"
    /\ RunOneTimeJobsPerInstance(i)
    /\ Run(i, Len(DueIn(i, "perInstance")) + Cardinality(RunCronJobsPerInstance(i)))
    /\ step' = [step EXCEPT ![i] = "oneTimePerApp"]
    /\ UNCHANGED <<clock, skew, phase, due, now, todo, cron, ledger, marks, fired, accepted,
                   adds, faults>>

\* runOneTimeJobsPerApp: the local take, before any claim; without a ledger the
\* jobs taken are dropped.
TakeOneTimeJobsPerApp(i) ==
    /\ step[i] = "oneTimePerApp" /\ todo[i] = <<>>
    /\ oneTime' = [oneTime EXCEPT ![i] = Rest(i, "perApp")]
    /\ todo' = [todo EXCEPT ![i] =
                  IF ledger[i]
                    THEN [k \in DOMAIN DueIn(i, "perApp") |->
                            Task(DueIn(i, "perApp")[k].job, DueIn(i, "perApp")[k].exec)]
                    ELSE <<>>]
    /\ step' = [step EXCEPT ![i] = "claimOneTime"]
    /\ UNCHANGED <<clock, skew, phase, due, now, cron, ledger, marks, active, fired, accepted,
                   adds, faults>>

\* runCronJobsPerApp: a copy of the jobs, in the order of a map's iteration.
TakeCronJobsPerApp(i) ==
    /\ step[i] = "claimOneTime" /\ todo[i] = <<>>
    /\ LET jobs == CronDue(i, "perApp") IN
       \E order \in Bijection(1..Cardinality(jobs), jobs) :
         todo' = [todo EXCEPT ![i] = IF ledger[i] THEN [k \in DOMAIN order |-> CronTask(i, order[k])]
                                     ELSE <<>>]
    /\ step' = [step EXCEPT ![i] = "claimCron"]
    /\ UNCHANGED <<clock, skew, phase, due, now, boxes, marks, active, fired, faults>>

\* The walk of this tick is over.
WalkDone(i) ==
    /\ step[i] = "claimCron" /\ todo[i] = <<>>
    /\ step' = [step EXCEPT ![i] = "select"]
    /\ UNCHANGED <<clock, skew, phase, due, now, todo, boxes, marks, active, fired, faults>>

-----------------------------------------------------------------------------
Planned(i) == <<Head(todo[i]).id, Minute(now[i])>>
Marked(key) == \E m \in marks : m.key = key

\* Mutant of PutMark: the mark is kept for one tick period only.
PutMarkShort(i) ==
    marks' = IF Marked(Planned(i)) THEN marks
             ELSE marks \cup {[key |-> Planned(i), until |-> clock + U]}

\* KVDBLedger.Claim, SetValueIfNotExists: the mark is created if it is absent.
PutMark(i) ==
    marks' = IF Marked(Planned(i)) THEN marks
             ELSE marks \cup {[key |-> Planned(i), until |-> clock + MarkLifetime]}

\* The winner runs the job; a loser leaves it to the holder.
Claim(i) ==
    /\ todo[i] # <<>>
    /\ phase[i] = "RUNNING"
    /\ PutMark(i)
    /\ IF Marked(Planned(i))
         THEN UNCHANGED <<active, fired>>
         ELSE /\ Run(i, 1)
              /\ fired' = [x \in DOMAIN fired \cup {Planned(i)} |->
                             (IF x \in DOMAIN fired THEN fired[x] ELSE 0)
                               + IF x = Planned(i) THEN 1 ELSE 0]
    /\ todo' = [todo EXCEPT ![i] = Tail(@)]
    /\ UNCHANGED <<clock, skew, phase, due, now, step, boxes, faults>>

\* No verdict, the job is not run: the command failed, before or after the KVDB
\* executed it, or was sent twice and the second execution answered "not won".
ClaimFails(i) ==
    /\ todo[i] # <<>> /\ faults < MaxFaults
    /\ PutMark(i) \/ UNCHANGED marks
    /\ todo' = [todo EXCEPT ![i] = Tail(@)]
    /\ faults' = faults + 1
    /\ UNCHANGED <<clock, skew, phase, due, now, step, boxes, active, fired>>

\* A claim on the cancelled context fails by itself, at the latest before it is sent.
ClaimCancelled(i) ==
    /\ todo[i] # <<>> /\ phase[i] = "STOPPING"
    /\ PutMark(i) \/ UNCHANGED marks
    /\ todo' = [todo EXCEPT ![i] = Tail(@)]
    /\ UNCHANGED <<clock, skew, phase, due, now, step, boxes, active, fired, faults>>

\* The task returns, fails or panics, its callbacks run: the goroutine ends.
Finish(i) ==
    /\ active[i] > 0
    /\ active' = [active EXCEPT ![i] = @ - 1]
    /\ UNCHANGED <<clock, skew, phase, walk, boxes, marks, fired, faults>>

-----------------------------------------------------------------------------
\* The process dies: everything in memory is gone, the marks stay.
Crash(i) ==
    /\ phase[i] # "READY" /\ faults < MaxFaults
    /\ phase' = [phase EXCEPT ![i] = "READY"]
    /\ step' = [step EXCEPT ![i] = "exited"]
    /\ todo' = [todo EXCEPT ![i] = <<>>]
    /\ oneTime' = [oneTime EXCEPT ![i] = <<>>]
    /\ cron' = [cron EXCEPT ![i] = {}]
    /\ ledger' = [ledger EXCEPT ![i] = FALSE]
    /\ active' = [active EXCEPT ![i] = 0]
    /\ accepted' = [accepted EXCEPT ![i] = {}]
    /\ faults' = faults + 1
    /\ UNCHANGED <<clock, skew, due, now, marks, fired, adds>>

\* Time passes; the loop of an instance is late by at most MaxLag.
Advance ==
    /\ clock < MaxTime
    /\ \A i \in Instance :
         /\ step[i] = "select" => Local(i) < due[i] + MaxLag
         /\ step[i] \notin {"select", "exited"} => Local(i) < now[i] + MaxLag
    /\ clock' = clock + 1
    /\ marks' = {m \in marks : m.until > clock + 1}
    /\ UNCHANGED <<skew, phase, walk, boxes, active, fired, faults>>

Next ==
    \/ \E i \in Instance :
         \/ StartSched(i) \/ StopSched(i) \/ Exit(i) \/ Crash(i)
         \/ Tick(i) \/ WalkPerInstance(i)
         \/ TakeOneTimeJobsPerApp(i) \/ TakeCronJobsPerApp(i) \/ WalkDone(i)
         \/ Claim(i) \/ ClaimFails(i) \/ ClaimCancelled(i) \/ Finish(i)
         \/ \E job \in Job :
              \/ AddCronJob(i, job) \/ DeleteCronJob(i, job.id) \/ DeleteOneTimeJob(i, job.id)
              \/ \E exec \in Exec : AddOneTimeJob(i, job, exec)
    \/ Advance

Spec == Init /\ [][Next]_vars

-----------------------------------------------------------------------------
\* KVDBLedger: "of all the instances reaching the same planned minute exactly one
\* is told it won".  No planned minute of a OncePerApp job is run twice by the
\* instances of the app, whatever their clocks, failed claims, stops, crashes and
\* registrations: the mark outlives the last instance that can still attempt it.
AtMostOncePerApp == \A key \in DOMAIN fired : fired[key] <= 1

\* An accepted one-time job is run: when an instance has walked past the minute the
\* job was filed under, with no fault anywhere, the app ran it exactly once.  The
\* minute a job is filed under is one whose tick is still to come.
ExactlyOnceUnfaulted ==
    faults = 0 =>
        \A i \in Instance : \A key \in accepted[i] :
            step[i] = "select" /\ Minute(due[i]) > key[2] =>
                key \in DOMAIN fired /\ fired[key] = 1

\* No job runs before its time on the clock of the instance that runs it, be it
\* about to run here or about to be claimed.
NeverEarly ==
    \A i \in Instance :
        /\ \A t \in Range(todo[i]) : t.exec <= Local(i)
        /\ step[i] = "perInstance" =>
             \A f \in Range(DueIn(i, "perInstance")) : f.exec <= Local(i)

\* A cron job is run in minutes that all four of the app's lists name and in no
\* other: the bit sets and the test agree, values no clock shows are ignored, and
\* no late or skewed tick moves a run into another minute.  No job is early.
OnSchedule ==
    /\ NeverEarly
    /\ \A key \in DOMAIN fired : \A job \in Job :
         job.kind = "cron" /\ job.id = key[1] =>
             LET c == Calendar(key[2] * U) IN
             /\ c.minute \in Range(Lists.minutes) /\ c.hour \in Range(Lists.hours)
             /\ c.day \in Range(Lists.days) /\ c.weekday \in Range(Lists.weekdays)

\* markLifetime's comment: an instance "attempts a planned minute only while it is
\* inside it and never computes that key again afterwards".
AttemptedInside ==
    \A i \in Instance : todo[i] # <<>> => Minute(Local(i)) = Minute(now[i])
=============================================================================
