--------------------------- MODULE CookieSession ---------------------------
(***************************************************************************)
(* The cookie sessions of one user: the session rows and the user's cap    *)
(* list in the KVDB, both with a lifetime; the login's last steps, from an *)
(* identity that is verified to the cookie that is set; the gate every     *)
(* protected request passes, with its sliding extension; the logout.       *)
(*                                                                         *)
(* Every action is one command to the KVDB with the code up to the next.   *)
(* How an identity is verified is module Login, which composes its own     *)
(* steps with BeginLogin, Verified and Refuse.                             *)
(***************************************************************************)
EXTENDS Integers, Sequences, FiniteSets, Functions

CONSTANTS
    Worker,       \* requests served at a time, fleet-wide
    Browser,      \* the user's browsers
    ExpireIn,     \* lifetime of a row, in ticks
    ExtendThreshold,
    TickLength,   \* what a tick takes of a lifetime
    Sliding,      \* ExpireMode: sliding or absolute
    MaxSessionsPerUser,
    MaxSessions, MaxFaults    \* bounds

\* UserSessionConf.Validate, with a cap.
ASSUME ConfValid ==
    /\ ExpireIn \in Nat \ {0}
    /\ ExtendThreshold \in 1..(ExpireIn - 1)
    /\ TickLength \in Nat \ {0}
    /\ Sliding \in BOOLEAN
    /\ MaxSessionsPerUser \in Nat \ {0}

VARIABLES
    born,      \* sessions made so far; ids are 1..born
    ttl,       \* ttl[s]: what is left of row s, 0 when there is none
    list,      \* the user's cap list, oldest first
    listTTL,   \* what is left of it
    jar,       \* jar[b]: the session the cookie of browser b names, 0 for none
    job,       \* job[w]: the request worker w serves
    faults

sessionVars == <<born, ttl, list, listTTL, jar, job, faults>>

Session == 1..MaxSessions

\* "set": the session the answer's cookie names: 0 deletes the cookie, -1 leaves it alone.
Leave == -1
Job(at, by, sid) ==
    [at |-> at, by |-> by, sid |-> sid, set |-> Leave, evicted |-> <<>>, cost |-> FALSE]
Idle == Job("idle", CHOOSE b \in Browser : TRUE, 0)

SessionInit ==
    /\ born = 0
    /\ ttl = [s \in Session |-> 0]
    /\ list = <<>> /\ listTTL = 0
    /\ jar = [b \in Browser |-> 0]
    /\ job = [w \in Worker |-> Idle]
    /\ faults = 0

At(w, c) == job[w].at = c
GoTo(w, c) == job' = [job EXCEPT ![w].at = c]
Fault == faults < MaxFaults /\ faults' = faults + 1
Unfaulted == UNCHANGED faults

\* The handler is done, its answer carries the cookie n.
Answer(w, n) == job' = [job EXCEPT ![w].at = "answer", ![w].set = n]

\* The answer reaches the browser.
Deliver(w) ==
    /\ job[w].at \in {"answer", "refused"}
    /\ jar' = IF job[w].set = Leave THEN jar ELSE [jar EXCEPT ![job[w].by] = job[w].set]
    /\ job' = [job EXCEPT ![w] = Idle]
    /\ UNCHANGED <<born, ttl, list, listTTL, faults>>

-----------------------------------------------------------------------------
(***************************************************************************)
(* Login: everything that can fail comes before the row is stored, and the *)
(* eviction is the last write.                                             *)
(***************************************************************************)
\* The step after c.  As a mutant, the id is made, and its cookie sealed, at the end.
AfterSealLast(c) ==
    CASE c = "verifying" -> "store" [] c = "seal" -> "finish" [] c = "push" -> "seal"

After(c) ==
    CASE c = "verifying" -> "seal" [] c = "seal" -> "store" [] c = "push" -> "finish"

\* The bound leaves every login under way its session.
Room == born + Cardinality({w \in Worker : ~At(w, "idle") /\ job[w].sid = 0}) < MaxSessions

BeginLogin(w, b) ==
    /\ At(w, "idle") /\ Room
    /\ job' = [job EXCEPT ![w] = Job("verifying", b, 0)]
    /\ UNCHANGED <<born, ttl, list, listTTL, jar, faults>>

Verified(w) ==
    /\ At(w, "verifying")
    /\ GoTo(w, After("verifying"))
    /\ UNCHANGED <<born, ttl, list, listTTL, jar, faults>>

Refuse(w) ==
    /\ At(w, "verifying")
    /\ GoTo(w, "refused")
    /\ UNCHANGED <<born, ttl, list, listTTL, jar, faults>>

\* Makes the id and seals the cookie value, and the tokens a delegated login keeps; the cipher may
\* fail.  Writes nothing.
NewUserSessionID(w) ==
    /\ At(w, "seal")
    /\ GoTo(w, After("seal")) \/ GoTo(w, "refused")
    /\ UNCHANGED <<born, ttl, list, listTTL, jar, faults>>

\* StoreUserSession, its first command: the row with all its fields and its lifetime.
StoreUserSession(w) ==
    /\ At(w, "store")
    /\ born' = born + 1
    /\ ttl' = [ttl EXCEPT ![born + 1] = ExpireIn]
    /\ job' = [job EXCEPT ![w].at = "push", ![w].sid = born + 1]
    /\ UNCHANGED <<list, listTTL, jar, faults>>

\* It fails, with the row written or not: the login is refused.
StoreUserSessionFails(w) ==
    /\ At(w, "store") /\ Fault
    /\ born' = born + 1
    /\ ttl' \in {ttl, [ttl EXCEPT ![born + 1] = ExpireIn]}
    /\ GoTo(w, "refused")
    /\ UNCHANGED <<list, listTTL, jar>>

\* ListPushTrimOverCap, one act in the store.
Pushed(l, s) == Append(l, s)
Over(l) == IF Len(l) > MaxSessionsPerUser THEN Len(l) - MaxSessionsPerUser ELSE 0

\* PushEvictOverCap up to its delete; the push is executed n times, a resent one evicts what is
\* over the cap then and the answer of the first is lost.
PushTimes(w, n) ==
    LET once == Pushed(list, job[w].sid)
        kept == SubSeq(once, Over(once) + 1, Len(once))
        last == IF n = 1 THEN once ELSE Pushed(kept, job[w].sid) IN
    /\ list' = SubSeq(last, Over(last) + 1, Len(last))
    /\ listTTL' = ExpireIn
    /\ job' = [job EXCEPT ![w].evicted = SubSeq(last, 1, Over(last)),
                          ![w].at = IF Over(last) = 0 THEN After("push") ELSE "evict"]
    /\ UNCHANGED <<born, ttl, jar>>

PushEvictOverCap(w) ==
    /\ At(w, "push")
    /\ \/ PushTimes(w, 1) /\ Unfaulted
       \/ PushTimes(w, 2) /\ Fault

\* The push fails, executed or not: the row is deleted again and the login refused.
PushFails(w) ==
    /\ At(w, "push") /\ Fault
    /\ LET once == Pushed(list, job[w].sid) IN
       \/ list' = SubSeq(once, Over(once) + 1, Len(once)) /\ listTTL' = ExpireIn
       \/ UNCHANGED <<list, listTTL>>
    /\ GoTo(w, "undo")
    /\ UNCHANGED <<born, ttl, jar>>

\* Deletes are best effort: their failure is dropped.
Deleted(rows) ==
    \/ ttl' = [s \in Session |-> IF s \in rows THEN 0 ELSE ttl[s]] /\ Unfaulted
    \/ UNCHANGED ttl /\ Fault

Undo(w) ==
    /\ At(w, "undo")
    /\ Deleted({job[w].sid})
    /\ GoTo(w, "refused")
    /\ UNCHANGED <<born, list, listTTL, jar>>

Evict(w) ==
    /\ At(w, "evict")
    /\ Deleted(Range(job[w].evicted))
    /\ job' = [job EXCEPT ![w].at = After("push"), ![w].evicted = <<>>,
                          ![w].cost = ttl' # ttl]
    /\ UNCHANGED <<born, list, listTTL, jar>>

FinishLogin(w) ==
    /\ At(w, "finish")
    /\ Answer(w, job[w].sid)
    /\ UNCHANGED <<born, ttl, list, listTTL, jar, faults>>

-----------------------------------------------------------------------------
(***************************************************************************)
(* A protected request.                                                    *)
(***************************************************************************)
\* The browser's cookie names a session.  (Without a cookie: to the login, nothing changes.)
Request(w, b) ==
    /\ At(w, "idle") /\ jar[b] # 0
    /\ job' = [job EXCEPT ![w] = Job("fetch", b, jar[b])]
    /\ UNCHANGED <<born, ttl, list, listTTL, jar, faults>>

\* No row: the cookie is deleted.  A row whose identity does not parse is destroyed.
AuthenticateCookieSession(w) ==
    /\ At(w, "fetch")
    /\ \/ /\ ttl[job[w].sid] = 0 /\ Answer(w, 0) /\ Unfaulted
       \/ /\ ttl[job[w].sid] > 0 /\ Unfaulted
          /\ GoTo(w, "destroy") \/ GoTo(w, IF Sliding THEN "ttl" ELSE "inner")
       \/ /\ Answer(w, Leave) /\ Fault
    /\ UNCHANGED <<born, ttl, list, listTTL, jar>>

\* The remaining lifetime is read; an unreadable one extends nothing.
SlidingExpHandler(w) ==
    /\ At(w, "ttl")
    /\ \/ /\ GoTo(w, IF ttl[job[w].sid] \in 1..(ExtendThreshold - 1) THEN "expireRow" ELSE "inner")
          /\ Unfaulted
       \/ GoTo(w, "inner") /\ Fault
    /\ UNCHANGED <<born, ttl, list, listTTL, jar>>

\* Expire gives a row that is there a new lifetime, and does nothing to one that is not.
RenewedAlways(left) == ExpireIn
Renewed(left) == IF left > 0 THEN ExpireIn ELSE 0

\* ExtendUserSessionKVDB, two commands, failures dropped; the cookie is set again with the answer.
ExtendRow(w) ==
    /\ At(w, "expireRow")
    /\ \/ ttl' = [ttl EXCEPT ![job[w].sid] = Renewed(@)] /\ Unfaulted
       \/ UNCHANGED ttl /\ Fault
    /\ GoTo(w, "expireList")
    /\ UNCHANGED <<born, list, listTTL, jar>>

ExtendList(w) ==
    /\ At(w, "expireList")
    /\ \/ listTTL' = Renewed(listTTL) /\ Unfaulted
       \/ UNCHANGED listTTL /\ Fault
    /\ job' = [job EXCEPT ![w].at = "inner", ![w].set = job[w].sid]
    /\ UNCHANGED <<born, ttl, list, jar>>

\* The wrapped handler: it refuses a wrong CSRF token or does the app's work, or it logs out.
Inner(w) ==
    /\ At(w, "inner")
    /\ Answer(w, job[w].set) \/ GoTo(w, "destroy")
    /\ UNCHANGED <<born, ttl, list, listTTL, jar, faults>>

-----------------------------------------------------------------------------
(***************************************************************************)
(* Logout: DeleteUserSessionKVDB, then the cookie is deleted whatever      *)
(* became of the commands.                                                 *)
(***************************************************************************)
DeleteUserSessionKVDB(w) ==
    /\ At(w, "destroy")
    /\ \/ /\ IF ttl[job[w].sid] = 0 THEN Answer(w, 0) ELSE GoTo(w, "unlist")
          /\ Unfaulted
       \/ Answer(w, 0) /\ Fault
    /\ UNCHANGED <<born, ttl, list, listTTL, jar>>

\* ListRemove, count 0: kept takes the positions of the other ids, in their order.  The KVDB drops a
\* list that becomes empty.
Unlist(w) ==
    /\ At(w, "unlist")
    /\ \/ /\ LET others == {i \in DOMAIN list : list[i] # job[w].sid} IN
             \E n \in 0..Len(list) : \E kept \in [1..n -> others] :
                /\ Range(kept) = others
                /\ \A i, j \in 1..n : i < j => kept[i] < kept[j]
                /\ list' = [i \in 1..n |-> list[kept[i]]]
          /\ listTTL' = IF list' = <<>> THEN 0 ELSE listTTL
          /\ Unfaulted
       \/ UNCHANGED <<list, listTTL>> /\ Fault
    /\ GoTo(w, "delete")
    /\ UNCHANGED <<born, ttl, jar>>

DeleteRow(w) ==
    /\ At(w, "delete")
    /\ Deleted({job[w].sid})
    /\ Answer(w, 0)
    /\ UNCHANGED <<born, list, listTTL, jar>>

-----------------------------------------------------------------------------
\* Time passes for rows and list alike; the two Expire commands of one extension are executed
\* within a tick.
Tick ==
    /\ \A w \in Worker : ~At(w, "expireList")
    /\ (\E s \in Session : ttl[s] > 0) \/ listTTL > 0
    /\ ttl' = [s \in Session |-> IF ttl[s] > TickLength THEN ttl[s] - TickLength ELSE 0]
    /\ listTTL' = IF listTTL > TickLength THEN listTTL - TickLength ELSE 0
    /\ list' = IF listTTL' = 0 THEN <<>> ELSE list
    /\ UNCHANGED <<born, jar, job, faults>>

\* The request ends where it is: the process died, the client went away.
Cut(w) ==
    /\ job[w].at \notin {"idle", "verifying"} /\ Fault
    /\ job' = [job EXCEPT ![w] = Idle]
    /\ UNCHANGED <<born, ttl, list, listTTL, jar>>

\* What follows the verification of a login, and everything that is not a login.
SessionStep(w) ==
    \/ NewUserSessionID(w) \/ StoreUserSession(w) \/ StoreUserSessionFails(w)
    \/ PushEvictOverCap(w) \/ PushFails(w) \/ Undo(w) \/ Evict(w) \/ FinishLogin(w)
    \/ \E b \in Browser : Request(w, b)
    \/ AuthenticateCookieSession(w) \/ SlidingExpHandler(w) \/ ExtendRow(w) \/ ExtendList(w)
    \/ Inner(w) \/ DeleteUserSessionKVDB(w) \/ Unlist(w) \/ DeleteRow(w)
    \/ Cut(w)

(***************************************************************************)
(* Properties.                                                             *)
(***************************************************************************)
\* Unless a command failed, the user never has more sessions than the cap once no login or logout is
\* in its last steps: a list that lives as long as its rows remembers them all, whatever logins,
\* extensions, logouts and expiries happen between its commands.
CapHolds ==
    /\ faults = 0
    /\ \A w \in Worker : job[w].at \notin {"push", "evict", "delete"}
    => Cardinality({s \in Session : ttl[s] > 0}) <= MaxSessionsPerUser

\* A session that ended - by logout, eviction or expiry - never lives again, whatever extensions
\* of it were under way.
EndedStaysEnded ==
    [][\A s \in Session : s <= born /\ ttl[s] = 0 => ttl'[s] = 0]_sessionVars
=============================================================================
