--------------------------- MODULE BearerSession ---------------------------
(***************************************************************************)
(* gw/web/session/bearer: SessionManager, and the cap list it shares with   *)
(* the cookie sessions.  A session is an umbrella row keyed by its id; an   *)
(* access and a refresh token row, each keyed by the token's hash, point at *)
(* the id.  The two tokens are generated, written into the umbrella row,    *)
(* rotated and deleted together, so a pair stands for both hashes.          *)
(*                                                                          *)
(* Nothing here takes a lock: every request handler (a worker) is a         *)
(* sequence of single KVDB commands, and any number of them interleave on   *)
(* one session.  One user of one client: all sessions share one cap bucket. *)
(***************************************************************************)
EXTENDS Naturals, Sequences, FiniteSets, Functions

CONSTANTS
    Worker,       \* goroutines that serve requests, on any instance
    Cap,          \* SessionCapConf.Max
    MaxSessions,  \* bound: sessions created
    MaxPairs,     \* bound: token pairs generated
    MaxFaults     \* bound: commands that failed, requests cut short

ASSUME CapAssumption == Cap \in Nat \ {0}
ASSUME BoundAssumption == {MaxSessions, MaxPairs, MaxFaults} \subseteq Nat

Session == 1..MaxSessions
Pair == 1..MaxPairs

VARIABLES
    born,    \* sessions created so far: 1..born are their ids
    made,    \* pairs generated so far: 1..made
    umb,     \* umb[s]: the pair the umbrella row of session s names, 0 when there is no row
    owner,   \* owner[p]: the session id that the token rows of pair p hold
    from,    \* from[p]: the pair presented to get pair p, 0 for a session's first
    at, rt,  \* at[p], rt[p]: the access and the refresh token row of pair p
    list,    \* the cap bucket: session ids, oldest first
    given,   \* pairs returned to a client; it may present them at any time
    job,     \* job[w]: the request that worker w serves, and the command it is at
    faults   \* faults so far

vars == <<born, made, umb, owner, from, at, rt, list, given, job, faults>>

\* What a request remembers between two commands: the session, the pair it
\* presented or read from the umbrella row, the pair it generated, the ids it
\* evicted.
Job == [at : {"idle", "accessRow", "refreshRow", "push", "evict", "fetch", "rotate",
              "retire", "undo", "owned", "destroy", "unlist", "delete"},
        sid : 0..MaxSessions, old : 0..MaxPairs, new : 0..MaxPairs, evicted : Seq(Session)]

\* A request at command c, about session s, pair o presented and pair n generated.
Request(c, s, o, n) == [at |-> c, sid |-> s, old |-> o, new |-> n, evicted |-> <<>>]
Idle == Request("idle", 0, 0, 0)

Init ==
    /\ born = 0 /\ made = 0
    /\ umb = [s \in Session |-> 0]
    /\ owner = [p \in Pair |-> 0] /\ from = [p \in Pair |-> 0]
    /\ at = [p \in Pair |-> "unset"] /\ rt = [p \in Pair |-> "unset"]
    /\ list = <<>> /\ given = {}
    /\ job = [w \in Worker |-> Idle]
    /\ faults = 0

\* Worker w goes on to command c; worker w answers and is free.
GoTo(w, c) == job' = [job EXCEPT ![w].at = c]
Answer(w) == job' = [job EXCEPT ![w] = Idle]

\* Two fresh tokens for session s, in exchange for pair p; no row yet.
Generate(s, p) ==
    /\ made < MaxPairs
    /\ made' = made + 1
    /\ owner' = [owner EXCEPT ![made + 1] = s]
    /\ from' = [from EXCEPT ![made + 1] = p]

-----------------------------------------------------------------------------
\* CreateSession, its first command: the umbrella row, naming a fresh pair.
CreateSession(w) ==
    /\ job[w].at = "idle" /\ born < MaxSessions
    /\ Generate(born + 1, 0)
    /\ born' = born + 1
    /\ umb' = [umb EXCEPT ![born + 1] = made + 1]
    /\ job' = [job EXCEPT ![w] = Request("accessRow", born + 1, 0, made + 1)]
    /\ UNCHANGED <<at, rt, list, given, faults>>

\* The two token rows of a new pair, of CreateSession and of ExtendSession.
AccessRow(w) ==
    /\ job[w].at = "accessRow"
    /\ at' = [at EXCEPT ![job[w].new] = "live"]
    /\ GoTo(w, "refreshRow")
    /\ UNCHANGED <<born, made, umb, owner, from, rt, list, given, faults>>

RefreshRow(w) ==
    /\ job[w].at = "refreshRow"
    /\ rt' = [rt EXCEPT ![job[w].new] = "live"]
    /\ GoTo(w, IF job[w].old = 0 THEN "push" ELSE "rotate")
    /\ UNCHANGED <<born, made, umb, owner, from, at, list, given, faults>>

\* ListPushTrimOverCap: the list after the push and the trim, and what it trimmed.
Pushed(w, l) == Append(l, job[w].sid)
Over(l) == IF Len(l) > Cap THEN Len(l) - Cap ELSE 0
Trimmed(l) == SubSeq(l, Over(l) + 1, Len(l))
Evicted(l) == SubSeq(l, 1, Over(l))

\* PushEvictOverCap up to its delete, the list being l before the last push.
PushOnto(w, l) ==
    LET pushed == Pushed(w, l) IN
    /\ list' = Trimmed(pushed)
    /\ IF Evicted(pushed) = <<>>
         THEN given' = given \cup {job[w].new} /\ Answer(w)
         ELSE /\ job' = [job EXCEPT ![w].at = "evict", ![w].evicted = Evicted(pushed)]
              /\ UNCHANGED given
    /\ UNCHANGED <<born, made, umb, owner, from, at, rt>>

Push(w) ==
    /\ job[w].at = "push"
    /\ PushOnto(w, list)
    /\ UNCHANGED faults

\* The push is sent twice because the first answer was lost: what the first one
\* trimmed is told to nobody.
PushResent(w) ==
    /\ job[w].at = "push" /\ faults < MaxFaults
    /\ PushOnto(w, Trimmed(Pushed(w, list)))
    /\ faults' = faults + 1

\* The umbrella rows of the evicted sessions go, their token rows stay.
Evict(w) ==
    /\ job[w].at = "evict"
    /\ umb' = [s \in Session |-> IF s \in Range(job[w].evicted) THEN 0 ELSE umb[s]]
    /\ given' = given \cup {job[w].new}
    /\ Answer(w)
    /\ UNCHANGED <<born, made, owner, from, at, rt, list, faults>>

-----------------------------------------------------------------------------
\* ExtendSession, STEP 1: a refresh token whose row stands names a session.
\* (One without a row is refused, with no effect.)
ExtendSession(w, p) ==
    /\ job[w].at = "idle" /\ p \in given /\ rt[p] = "live"
    /\ job' = [job EXCEPT ![w] = Request("fetch", owner[p], p, 0)]
    /\ UNCHANGED <<born, made, umb, owner, from, at, rt, list, given, faults>>

\* STEP 1 to 3: the umbrella row.  None, or one that names another pair, ends
\* the request; a chain past its hard cap is destroyed first (the clock may say
\* so at any time); else a new pair is generated.
FetchSession(w) ==
    /\ job[w].at = "fetch"
    /\ \/ /\ umb[job[w].sid] # job[w].old
          /\ Answer(w)
          /\ UNCHANGED <<made, owner, from>>
       \/ /\ umb[job[w].sid] # 0
          /\ GoTo(w, "destroy")
          /\ UNCHANGED <<made, owner, from>>
       \/ /\ umb[job[w].sid] = job[w].old
          /\ Generate(job[w].sid, job[w].old)
          /\ job' = [job EXCEPT ![w].at = "accessRow", ![w].new = made + 1]
    /\ UNCHANGED <<born, umb, at, rt, list, given, faults>>

\* Mutants of Matches: the row need only exist; an absent row matches.
MatchesAny(w) == umb[job[w].sid] # 0
MatchesOrGone(w) == umb[job[w].sid] \in {0, job[w].old}

\* HashSetFieldsWithKeyTTLIfFieldEquals on the umbrella row: it still names the
\* presented pair.  An absent row names none.
Matches(w) == umb[job[w].sid] = job[w].old

\* STEP 5: rotate, if the row still names the presented pair.
Rotate(w) ==
    /\ job[w].at = "rotate"
    /\ IF Matches(w)
         THEN umb' = [umb EXCEPT ![job[w].sid] = job[w].new] /\ GoTo(w, "retire")
         ELSE GoTo(w, "undo") /\ UNCHANGED umb
    /\ UNCHANGED <<born, made, owner, from, at, rt, list, given, faults>>

\* The rotation is sent twice because the first answer was lost: the second
\* time the row names the new pair and the answer is "not rotated".
RotateResent(w) ==
    /\ job[w].at = "rotate" /\ faults < MaxFaults
    /\ umb' = IF Matches(w) THEN [umb EXCEPT ![job[w].sid] = job[w].new] ELSE umb
    /\ GoTo(w, "undo")
    /\ faults' = faults + 1
    /\ UNCHANGED <<born, made, owner, from, at, rt, list, given>>

\* Delete of both token rows of pair p.
DeleteTokenRows(p) ==
    /\ at' = [at EXCEPT ![p] = "deleted"]
    /\ rt' = [rt EXCEPT ![p] = "deleted"]

\* Mutant of Retire: the rows of the new pair go.
RetireNew(w) ==
    /\ job[w].at = "retire"
    /\ DeleteTokenRows(job[w].new)
    /\ given' = given \cup {job[w].new}
    /\ Answer(w)
    /\ UNCHANGED <<born, made, umb, owner, from, list, faults>>

\* STEP 6: the rows of the replaced pair go; the client gets the new one.
Retire(w) ==
    /\ job[w].at = "retire"
    /\ DeleteTokenRows(job[w].old)
    /\ given' = given \cup {job[w].new}
    /\ Answer(w)
    /\ UNCHANGED <<born, made, umb, owner, from, list, faults>>

\* Not rotated: the new pair's rows go again, the client gets an error.
Undo(w) ==
    /\ job[w].at = "undo"
    /\ DeleteTokenRows(job[w].new)
    /\ Answer(w)
    /\ UNCHANGED <<born, made, umb, owner, from, list, given, faults>>

-----------------------------------------------------------------------------
\* TokenRevokeHandler: an access token whose row stands names a session.
Revoke(w, p) ==
    /\ job[w].at = "idle" /\ p \in given /\ at[p] = "live"
    /\ job' = [job EXCEPT ![w] = Request("owned", owner[p], 0, 0)]
    /\ UNCHANGED <<born, made, umb, owner, from, at, rt, list, given, faults>>

\* The handler reads the umbrella row to see whose session it is.
Owned(w) ==
    /\ job[w].at = "owned"
    /\ IF umb[job[w].sid] = 0 THEN Answer(w) ELSE GoTo(w, "destroy")
    /\ UNCHANGED <<born, made, umb, owner, from, at, rt, list, given, faults>>

\* DestroySession: read the umbrella row again, take the id off the cap list,
\* delete the row with the token rows of the pair that was read.
DestroySession(w) ==
    /\ job[w].at = "destroy"
    /\ IF umb[job[w].sid] = 0
         THEN Answer(w)
         ELSE job' = [job EXCEPT ![w].at = "unlist", ![w].old = umb[job[w].sid]]
    /\ UNCHANGED <<born, made, umb, owner, from, at, rt, list, given, faults>>

\* ListRemove, count 0: the list without any occurrence of e.  The i-th position
\* kept is the one with i positions kept up to it.
Without(l, e) ==
    LET kept == {i \in 1..Len(l) : l[i] # e}
        Nth(m) == CHOOSE i \in kept : Cardinality({j \in kept : j <= i}) = m
    IN  [m \in 1..Cardinality(kept) |-> l[Nth(m)]]

Unlist(w) ==
    /\ job[w].at = "unlist"
    /\ list' = Without(list, job[w].sid)
    /\ GoTo(w, "delete")
    /\ UNCHANGED <<born, made, umb, owner, from, at, rt, given, faults>>

DeleteRows(w) ==
    /\ job[w].at = "delete"
    /\ umb' = [umb EXCEPT ![job[w].sid] = 0]
    /\ DeleteTokenRows(job[w].old)
    /\ Answer(w)
    /\ UNCHANGED <<born, made, owner, from, list, given, faults>>

-----------------------------------------------------------------------------
\* A request ends where it is: a command it depends on failed, the client went
\* away, the process died.
Cut(w) ==
    /\ job[w].at # "idle" /\ faults < MaxFaults
    /\ Answer(w)
    /\ faults' = faults + 1
    /\ UNCHANGED <<born, made, umb, owner, from, at, rt, list, given>>

\* A delete or a list removal fails: the error is dropped and the handler goes on.
Ignored(w) ==
    /\ faults < MaxFaults
    /\ \/ job[w].at \in {"evict", "retire"} /\ given' = given \cup {job[w].new} /\ Answer(w)
       \/ job[w].at \in {"undo", "delete"} /\ Answer(w) /\ UNCHANGED given
       \/ job[w].at = "unlist" /\ GoTo(w, "delete") /\ UNCHANGED given
    /\ faults' = faults + 1
    /\ UNCHANGED <<born, made, umb, owner, from, at, rt, list>>

\* The KVDB reclaims rows whose lifetime ran out.
ExpireAccess(p) ==
    /\ at[p] = "live"
    /\ at' = [at EXCEPT ![p] = "expired"]
    /\ UNCHANGED <<born, made, umb, owner, from, rt, list, given, job, faults>>

ExpireRefresh(p) ==
    /\ rt[p] = "live"
    /\ rt' = [rt EXCEPT ![p] = "expired"]
    /\ UNCHANGED <<born, made, umb, owner, from, at, list, given, job, faults>>

ExpireSession(s) ==
    /\ umb[s] # 0
    /\ umb' = [umb EXCEPT ![s] = 0]
    /\ UNCHANGED <<born, made, owner, from, at, rt, list, given, job, faults>>

\* The cap list's lifetime is set after every write that sets an umbrella row's,
\* to the same TTL: it outlives the rows of its sessions unless a command failed.
ExpireList ==
    /\ list # <<>>
    /\ faults > 0 \/ \A s \in Range(list) : umb[s] = 0
    /\ list' = <<>>
    /\ UNCHANGED <<born, made, umb, owner, from, at, rt, given, job, faults>>

Next ==
    \/ \E w \in Worker :
         \/ CreateSession(w) \/ AccessRow(w) \/ RefreshRow(w)
         \/ Push(w) \/ PushResent(w) \/ Evict(w)
         \/ FetchSession(w) \/ Rotate(w) \/ RotateResent(w) \/ Retire(w) \/ Undo(w)
         \/ Owned(w) \/ DestroySession(w) \/ Unlist(w) \/ DeleteRows(w)
         \/ Cut(w) \/ Ignored(w)
         \/ \E p \in 1..made : ExtendSession(w, p) \/ Revoke(w, p)
    \/ \E p \in 1..made : ExpireAccess(p) \/ ExpireRefresh(p)
    \/ \E s \in 1..born : ExpireSession(s)
    \/ ExpireList

Spec == Init /\ [][Next]_vars

-----------------------------------------------------------------------------
\* Pairs given to a client or about to be.
Won == given \cup {job[w].new : w \in {v \in Worker : job[v].at = "retire"}}

\* STEP 5's comment: "Concurrent presentations of ONE refresh token therefore
\* rotate exactly once".  At most one pair is ever given in exchange for any one
\* refresh token, however many requests present it at once, with whatever
\* faults, evictions and revocations between their commands.
OneShot ==
    \A p, q \in Won : from[p] = from[q] /\ from[p] # 0 => p = q

\* A session that ended (revoked, evicted, expired, chain too old) stays ended:
\* the late rotation of a request that read its row earlier does not bring the
\* row back with an empty principal.
NeverRecreated ==
    [][\A s \in 1..born : umb[s] = 0 => umb'[s] = 0]_vars

\* The refresh token row of the pair that a standing session names is never
\* deleted, by its own rotation, by the loser of a race, nor by the destruction
\* of another state of the session: a client that holds the current refresh token
\* can use it until the token or the session ends.
CurrentPairStands ==
    \A s \in 1..born : umb[s] \in given => rt[umb[s]] \in {"live", "expired"}

\* FetchSessionByAccessToken: pair p's access token opens its session.
Opens(p) == at[p] = "live" /\ umb[owner[p]] # 0

\* A superseded access token opens its session only until the request that
\* replaced it, or the one that lost the race with it, has come to its delete.
SupersededClosed ==
    faults = 0 =>
        \A p \in 1..made : Opens(p) /\ umb[owner[p]] # p =>
            \E w \in Worker :
                \/ job[w].at = "retire" /\ job[w].old = p
                \/ job[w].at \in {"refreshRow", "rotate", "undo"} /\ job[w].new = p

\* The cap: with no request under way no more than Cap sessions stand, whatever
\* creations, evictions, rotations and revocations ran at once.
CapHolds ==
    faults = 0 /\ (\A w \in Worker : job[w].at = "idle") =>
        Cardinality({s \in 1..born : umb[s] # 0}) <= Cap

\* What the rows of a session say agrees at every point: the pair it names can be
\* used, no other pair can, and the bucket holds no more sessions than its cap.
RowsAgree == CurrentPairStands /\ SupersededClosed /\ CapHolds

\* STEP 5's "Not this presentation's rotation: another presenter spent the token
\* first, or the session ended": a request that was told "not rotated" and is
\* about to delete its new pair is not deleting the pair the session names.
UndoIsForeign ==
    \A w \in Worker : job[w].at = "undo" => umb[job[w].sid] # job[w].new
=============================================================================
