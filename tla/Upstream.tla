------------------------------ MODULE Upstream ------------------------------
(***************************************************************************)
(* Upstream tokens on a session row: the request ladder of fwupstream that *)
(* sends a request with the row's access token, and on a refusal refreshes *)
(* the token pair under the row's hold, or adopts the pair another request *)
(* stored meanwhile; and its sibling that exchanges for a user token       *)
(* instead.  One row of one client, the requests of one session on several *)
(* processes, the upstream that issues the tokens.                         *)
(*                                                                         *)
(* Tokens are numbered as the upstream issues them: pair p has the access  *)
(* token p and the refresh token p.  A slot of a request is what it cached *)
(* of the row: Unread, Failed (a cached store error), None (a cached "not  *)
(* found", or the empty value set by a forget) or a token.                 *)
(***************************************************************************)
EXTENDS Integers, FiniteSets

CONSTANTS
    Instance,    \* processes of the fleet
    Worker,      \* requests served at a time, fleet-wide
    Home,        \* Home[w]: the process worker w runs on
    NoWorker,    \* "nobody"
    Reattempts,  \* Retry.Reattempts: asks for the hold after the first
    MaxRequests, MaxCalls, MaxTokens, MaxFaults   \* bounds

ASSUME UpstreamAssumption ==
    /\ NoWorker \notin Worker /\ Home \in [Worker -> Instance]
    /\ {Reattempts, MaxRequests, MaxCalls, MaxTokens, MaxFaults} \subseteq Nat
    /\ MaxTokens > 0

VARIABLES
    kind,        \* "pair" | "exchange": how the row's client gets its tokens
    row,         \* the row: live, and its two token fields
    valid,       \* access tokens the upstream accepts
    current,     \* the refresh token the upstream accepts, None once it closed the chain
    made,        \* tokens issued so far
    presented,   \* presented[p]: times refresh token p reached the upstream
    job,         \* job[w]: the request worker w serves
    requests,    \* requests begun
    faults,      \* lost answers, failed commands, ended requests and processes
    owner, boot  \* the locks: see NamedLocks

vars == <<kind, row, valid, current, made, presented, job, requests, faults, owner, boot>>

None == 0
Unread == -1
Failed == -2
Token == 1..MaxTokens

RowName == "row"
Lock == INSTANCE NamedLocks WITH Caller <- Worker, Name <- {RowName}, NoCaller <- NoWorker

IdleJob == [at |-> "idle", access |-> Unread, refresh |-> Unread, stale |-> None,
            attempt |-> 0, new |-> None, retry |-> FALSE, calls |-> 0]

\* A row as a login leaves it: with the pair of TokenPairFields, or without tokens.
Init ==
    /\ kind \in {"pair", "exchange"}
    /\ \E first \in {None, 1} :
          /\ kind = "exchange" => first = None
          /\ row = [live |-> TRUE, access |-> first, refresh |-> first]
          /\ valid = {first} \ {None}
          /\ current = first
          /\ made = first
    /\ presented = [p \in Token |-> 0]
    /\ job = [w \in Worker |-> IdleJob]
    /\ requests = 0
    /\ faults = 0
    /\ Lock!Init

rowVars == <<kind, row>>
upstreamVars == <<valid, current, made, presented>>
lockVars == <<owner, boot>>

At(w, c) == job[w].at = c
Fault == faults < MaxFaults /\ faults' = faults + 1
Unfaulted == UNCHANGED faults

Release(w) == IF owner[RowName] = w THEN Lock!GiveBack(w, RowName) ELSE UNCHANGED lockVars

\* The call returns to the handler, giving the hold back if it ran under it.
Return(w) ==
    /\ job' = [job EXCEPT ![w].at = "call"]
    /\ Release(w)

(***************************************************************************)
(* The row (Hub over the KVDB).                                            *)
(***************************************************************************)
FetchAccessToken == IF row.live THEN row.access ELSE None
FetchRefreshToken == IF row.live THEN row.refresh ELSE None

StoredPairAnyway(a, r) == [live |-> TRUE, access |-> a, refresh |-> r]
StoredPairAccess(a, r) == IF row.live THEN [row EXCEPT !.access = a] ELSE row
\* HashSetFieldsIfExists: an ended row is not written.
StoredPair(a, r) == IF row.live THEN [row EXCEPT !.access = a, !.refresh = r] ELSE row

\* The session ends: logout, eviction, expiry.
RowEnds ==
    /\ row.live
    /\ row' = [live |-> FALSE, access |-> None, refresh |-> None]
    /\ UNCHANGED <<kind, upstreamVars, job, requests, faults, lockVars>>

(***************************************************************************)
(* A request and its calls.                                                *)
(***************************************************************************)
\* Authenticated while the row stands; its slots are new.
Begin(w) ==
    /\ At(w, "idle") /\ row.live /\ requests < MaxRequests
    /\ requests' = requests + 1
    /\ job' = [job EXCEPT ![w] = [IdleJob EXCEPT !.at = "call"]]
    /\ UNCHANGED <<rowVars, upstreamVars, faults, lockVars>>

Call(w) ==
    /\ At(w, "call") /\ job[w].calls < MaxCalls
    /\ job' = [job EXCEPT ![w].at = "access", ![w].calls = @ + 1,
                          ![w].attempt = 0, ![w].retry = FALSE, ![w].new = None]
    /\ UNCHANGED <<rowVars, upstreamVars, requests, faults, lockVars>>

Finish(w) ==
    /\ At(w, "call")
    /\ job' = [job EXCEPT ![w] = IdleJob]
    /\ UNCHANGED <<rowVars, upstreamVars, requests, faults, lockVars>>

\* What a slot holds after its Once ran: the first read, its failure included, stays for the request.
Slot(cached, fetched, failed) ==
    IF cached # Unread THEN cached ELSE IF failed THEN Failed ELSE fetched

\* A missing token is refresh-worthy, an unreadable one is not; an exchange is due in both cases.
BearerNext(token) == CASE token > None -> "send" [] token = None -> "hold" [] OTHER -> "call"
ExchangeNext(token) == IF token > None THEN "send" ELSE "exchange"

RowAccessToken(w) ==
    /\ At(w, "access")
    /\ \E failed \in BOOLEAN :
          /\ IF failed THEN job[w].access = Unread /\ Fault ELSE Unfaulted
          /\ LET token == Slot(job[w].access, FetchAccessToken, failed) IN
             job' = [job EXCEPT ![w].access = token,
                                ![w].stale = None,
                                ![w].at = IF kind = "pair" THEN BearerNext(token) ELSE ExchangeNext(token)]
    /\ UNCHANGED <<rowVars, upstreamVars, requests, lockVars>>

\* The upstream judges the access token; a refusal is retried once.
RequestWithBearer(w) ==
    /\ At(w, "send")
    /\ LET token == job[w].access IN
       IF token \in valid \/ job[w].retry
       THEN Return(w)
       ELSE /\ job' = [job EXCEPT ![w].stale = token,
                                  ![w].retry = kind = "exchange",
                                  ![w].at = IF kind = "exchange" THEN "exchange" ELSE "hold"]
            /\ UNCHANGED lockVars
    /\ UNCHANGED <<rowVars, upstreamVars, requests, faults>>

\* The upstream cannot be reached: not refresh-worthy.
UpstreamUnavailable(w) ==
    /\ job[w].at \in {"send", "exchange", "refresh"} /\ Fault
    /\ Return(w)
    /\ UNCHANGED <<rowVars, upstreamVars, requests>>

(***************************************************************************)
(* The ladder: one refresh at a time per row.                              *)
(***************************************************************************)
HoldUpstreamRefreshFree(w) ==
    /\ At(w, "hold")
    /\ job' = [job EXCEPT ![w].at = "recheck"]
    /\ UNCHANGED <<rowVars, upstreamVars, requests, faults, lockVars>>

\* The hold is refused at once while another request has it.
HoldUpstreamRefresh(w) ==
    /\ At(w, "hold")
    /\ IF owner[RowName] = NoWorker
       THEN /\ Lock!Take(w, RowName)
            /\ job' = [job EXCEPT ![w].at = "recheck"]
       ELSE /\ job' = [job EXCEPT ![w].at = IF job[w].attempt = Reattempts THEN "call" ELSE "wait"]
            /\ UNCHANGED lockVars
    /\ UNCHANGED <<rowVars, upstreamVars, requests, faults>>

\* Has another request stored a pair since the one that failed here?
Landed(w) == FetchAccessToken \notin {None, job[w].stale}

\* Under the hold, the row is read again before a refresh token is spent.
Recheck(w) ==
    /\ At(w, "recheck")
    /\ job' = IF Landed(w)
              THEN [job EXCEPT ![w].at = "adopt", ![w].access = FetchAccessToken]
              ELSE [job EXCEPT ![w].at = "refreshToken"]
    /\ UNCHANGED <<rowVars, upstreamVars, requests, faults, lockVars>>

\* Refused the hold: after retry.Interval the row is read again, outside the hold.
Reread(w) ==
    /\ At(w, "wait")
    /\ job' = IF Landed(w)
              THEN [job EXCEPT ![w].at = "adopt", ![w].access = FetchAccessToken]
              ELSE [job EXCEPT ![w].at = "hold", ![w].attempt = @ + 1]
    /\ UNCHANGED <<rowVars, upstreamVars, requests, faults, lockVars>>

\* The stored refresh token replaces the slot only when it can be read.
Adopt(w) ==
    /\ At(w, "adopt")
    /\ \E failed \in BOOLEAN :
          /\ IF failed THEN Fault ELSE Unfaulted
          /\ job' = [job EXCEPT ![w].at = "send", ![w].retry = TRUE,
                        ![w].refresh = IF failed \/ FetchRefreshToken = None THEN @ ELSE FetchRefreshToken]
    /\ UNCHANGED <<rowVars, upstreamVars, requests, lockVars>>

RowRefreshToken(w) ==
    /\ At(w, "refreshToken")
    /\ \E failed \in BOOLEAN :
          /\ IF failed THEN job[w].refresh = Unread /\ Fault ELSE Unfaulted
          /\ LET token == Slot(job[w].refresh, FetchRefreshToken, failed) IN
             /\ job' = [job EXCEPT ![w].refresh = token,
                                   ![w].at = IF token > None THEN "refresh" ELSE "call"]
             /\ IF token > None THEN UNCHANGED lockVars ELSE Release(w)
    /\ UNCHANGED <<rowVars, upstreamVars, requests>>

\* A rotating upstream: the current refresh token buys the next pair and retires its own; a
\* retired one is refused, and may close the chain.
Rotate(p) ==
    /\ presented' = [presented EXCEPT ![p] = @ + 1]
    /\ \/ /\ p = current /\ made < MaxTokens
          /\ made' = made + 1
          /\ current' = made + 1
          /\ valid' = (valid \ {p}) \cup {made + 1}
       \/ /\ p # current
          /\ \/ UNCHANGED <<current, valid>>
             \/ current' = None /\ valid' = {}
          /\ UNCHANGED made

RequestRefreshAccessTknPair(w) ==
    /\ At(w, "refresh")
    /\ Rotate(job[w].refresh)
    /\ IF job[w].refresh = current
       THEN job' = [job EXCEPT ![w].at = "store", ![w].new = made + 1] /\ UNCHANGED lockVars
       ELSE Return(w)
    /\ UNCHANGED <<rowVars, requests, faults>>

\* The upstream rotated the pair and its answer is lost.
RefreshLost(w) ==
    /\ At(w, "refresh") /\ Fault
    /\ Rotate(job[w].refresh)
    /\ Return(w)
    /\ UNCHANGED <<rowVars, requests>>

\* The slots follow the row only after the row has the pair.
StoreTokenPair(w) ==
    /\ At(w, "store")
    /\ row' = StoredPair(job[w].new, job[w].new)
    /\ IF row.live
       THEN /\ job' = [job EXCEPT ![w].at = "send", ![w].retry = TRUE,
                                  ![w].access = job[w].new, ![w].refresh = job[w].new]
            /\ UNCHANGED lockVars
       ELSE Return(w)
    /\ UNCHANGED <<kind, upstreamVars, requests, faults>>

\* The store does not answer: the pair was written or not.
StoreTokenPairFails(w) ==
    /\ At(w, "store") /\ Fault
    /\ row' \in {row, StoredPair(job[w].new, job[w].new)}
    /\ Return(w)
    /\ UNCHANGED <<kind, upstreamVars, requests>>

(***************************************************************************)
(* The exchange: no hold, no refresh token.                                *)
(***************************************************************************)
ExchangeUserToken(w) ==
    /\ At(w, "exchange") /\ made < MaxTokens
    /\ made' = made + 1
    /\ valid' = valid \cup {made + 1}
    /\ job' = [job EXCEPT ![w].at = "storeAccess", ![w].new = made + 1]
    /\ UNCHANGED <<rowVars, current, presented, requests, faults, lockVars>>

\* Two commands: the access token on a row that stands, then its refresh field removed.
StoreAccessToken(w) ==
    /\ At(w, "storeAccess")
    /\ row' = StoredPair(job[w].new, row.refresh)
    /\ job' = [job EXCEPT ![w].at = IF row.live THEN "dropRefresh" ELSE "call"]
    /\ UNCHANGED <<kind, upstreamVars, requests, faults, lockVars>>

DropRefreshField(w) ==
    /\ At(w, "dropRefresh")
    /\ row' = [row EXCEPT !.refresh = None]
    /\ job' = [job EXCEPT ![w].at = "send", ![w].access = job[w].new, ![w].refresh = None]
    /\ UNCHANGED <<kind, upstreamVars, requests, faults, lockVars>>

\* RowForgetExchanged: the token of the slot is revoked first when asked, failures ignored.
RowForgetExchanged(w) ==
    /\ At(w, "call") /\ kind = "exchange" /\ job[w].calls < MaxCalls
    /\ \E revoke \in BOOLEAN :
          job' = [job EXCEPT ![w].calls = @ + 1,
                     ![w].access = IF revoke THEN Slot(@, FetchAccessToken, FALSE) ELSE @,
                     ![w].at = IF revoke /\ Slot(job[w].access, FetchAccessToken, FALSE) > None
                               THEN "revoke" ELSE "remove"]
    /\ UNCHANGED <<rowVars, upstreamVars, requests, faults, lockVars>>

RevokeUserToken(w) ==
    /\ At(w, "revoke")
    /\ \/ valid' = valid \ {job[w].access} /\ Unfaulted
       \/ UNCHANGED valid /\ Fault
    /\ job' = [job EXCEPT ![w].at = "remove"]
    /\ UNCHANGED <<rowVars, current, made, presented, requests, lockVars>>

RemoveTokens(w) ==
    /\ At(w, "remove")
    /\ row' = StoredPair(None, None)
    /\ job' = [job EXCEPT ![w].at = "call", ![w].access = None, ![w].refresh = None]
    /\ UNCHANGED <<kind, upstreamVars, requests, faults, lockVars>>

(***************************************************************************)
(* The world: access tokens age, requests are cut off, processes die.      *)
(***************************************************************************)
ExpireAccess ==
    /\ \E t \in valid : valid' = valid \ {t}
    /\ UNCHANGED <<rowVars, current, made, presented, job, requests, faults, lockVars>>

\* The request's context ends between two of its commands.
Cut(w) ==
    /\ ~At(w, "idle") /\ Fault
    /\ job' = [job EXCEPT ![w] = IdleJob]
    /\ Release(w)
    /\ UNCHANGED <<rowVars, upstreamVars, requests>>

Die(i) ==
    /\ Fault
    /\ Lock!Die(i)
    /\ job' = [w \in Worker |-> IF Home[w] = i THEN IdleJob ELSE job[w]]
    /\ UNCHANGED <<rowVars, upstreamVars, requests>>

Step(w) ==
    \/ Begin(w) \/ Call(w) \/ Finish(w)
    \/ RowAccessToken(w) \/ RequestWithBearer(w) \/ UpstreamUnavailable(w)
    \/ HoldUpstreamRefresh(w) \/ Recheck(w) \/ Reread(w) \/ Adopt(w)
    \/ RowRefreshToken(w) \/ RequestRefreshAccessTknPair(w) \/ RefreshLost(w)
    \/ StoreTokenPair(w) \/ StoreTokenPairFails(w)
    \/ ExchangeUserToken(w) \/ StoreAccessToken(w) \/ DropRefreshField(w)
    \/ RowForgetExchanged(w) \/ RevokeUserToken(w) \/ RemoveTokens(w)
    \/ Cut(w)

Next ==
    \/ \E w \in Worker : Step(w)
    \/ RowEnds
    \/ ExpireAccess
    \/ \E i \in Instance : Die(i)

Spec == Init /\ [][Next]_vars

Position == {"idle", "call", "access", "send", "hold", "wait", "recheck", "adopt", "refreshToken",
             "refresh", "store", "exchange", "storeAccess", "dropRefresh", "revoke", "remove"}
Job == [at : Position, access : Int, refresh : Int, stale : Int, attempt : Int, new : Int,
        retry : BOOLEAN, calls : Int]

TypeOK ==
    /\ kind \in {"pair", "exchange"}
    /\ row \in [live : BOOLEAN, access : Int, refresh : Int]
    /\ valid \subseteq Token /\ current \in 0..MaxTokens /\ made \in 0..MaxTokens
    /\ presented \in [Token -> Nat]
    /\ job \in [Worker -> Job]
    /\ requests \in Nat /\ faults \in Nat
    /\ owner \in [{RowName} -> Worker \cup {NoWorker}]

(***************************************************************************)
(* Properties.                                                             *)
(***************************************************************************)
\* While the session stands and no answer was lost, no refresh token is presented twice, however
\* the requests of the session meet its expired access token: one spends it under the hold, the
\* others adopt (tokenrow.go: "every spend but one is a replay").
RefreshSpentOnce ==
    faults = 0 /\ row.live => \A p \in Token : presented[p] <= 1

\* The row never falls behind the upstream: unless a new pair is on its way to the row, a standing
\* row holds the refresh token the upstream accepts ("leaving the row holding a retired token and
\* the next refresh reading as theft" cannot happen without a fault).
RowKeepsCurrentPair ==
    /\ faults = 0 /\ row.live /\ kind = "pair"
    /\ \A w \in Worker : ~At(w, "store")
    => row.refresh = current

\* A row that ended is never brought back by the answer of an upstream call that was under way: the
\* writes are conditional on the row (io.go, StoreTokenPair).
RowStaysEnded == [][~row.live => ~row'.live /\ row'.access = None /\ row'.refresh = None]_vars
=============================================================================
