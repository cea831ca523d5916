--------------------------- MODULE UpstreamProofs ---------------------------
(***************************************************************************)
(* Theorems about Upstream, for every number of processes, requests, calls *)
(* and tokens: while nothing failed and the session stands, a refresh      *)
(* token is presented once and the row follows the upstream; and a row     *)
(* that ended stays so, whatever fails.                                    *)
(***************************************************************************)
EXTENDS Upstream, TLAPS

\* The prover of every step that names no other.
USE ZenonT(30)

\* The part of a call that the code runs under the row's hold.
UnderHold == {"recheck", "refreshToken", "refresh", "store"}

Held == \A w \in Worker : job[w].at \in UnderHold => owner[RowName] = w

\* The steps of the two kinds of client are apart.
ByKind ==
    \A w \in Worker :
        /\ kind = "exchange" => job[w].at \notin UnderHold \cup {"hold", "wait", "adopt"}
        /\ kind = "pair" => job[w].at \notin {"exchange", "storeAccess", "dropRefresh", "revoke", "remove"}

\* What is expected of the code: nothing failed and the session stands.
Calm == faults = 0 /\ row.live /\ kind = "pair"

\* The row has both tokens of one pair, the latest but for one that is about to be stored.
RowFollows ==
    /\ row.access = row.refresh /\ None <= row.access /\ row.access <= current /\ current = made
    /\ (\A w \in Worker : job[w].at # "store") => row.refresh = current

Unspent ==
    \A p \in Token : presented[p] <= 1 /\ (p >= current => presented[p] = 0)

\* What a request has cached is of the past, its refresh token never older than its access token
\* but on the way to adopt; and what it knows of the row at each step of the ladder.
SlotsFollow(j) ==
    /\ j.access # Failed /\ j.access <= current
    /\ j.refresh # Failed /\ j.refresh <= current
    /\ j.access = Unread => j.refresh = Unread
    /\ j.at # "adopt" /\ j.refresh > None => j.refresh >= j.access
    /\ j.at \notin {"idle", "call", "access"} => j.access # Unread
    /\ j.at = "adopt" => None < j.access /\ j.access <= row.access
    /\ j.at \in {"hold", "wait", "recheck", "refreshToken", "refresh"} => j.stale = j.access
    /\ j.at \in {"refreshToken", "refresh"} => row.access \in {None, j.stale}
    /\ j.at = "refresh" => j.refresh = current /\ current # None
    /\ j.at = "store" => j.new = current

Inv ==
    /\ TypeOK /\ Held /\ ByKind
    /\ kind = "exchange" => \A p \in Token : presented[p] = 0
    /\ Calm => RowFollows /\ Unspent /\ \A w \in Worker : SlotsFollow(job[w])
-----------------------------------------------------------------------------
\* The invariant holds of a new row that no request has used.
LEMMA InitInv == Init => Inv
<1> SUFFICES ASSUME Init PROVE Inv
  OBVIOUS
<1> USE UpstreamAssumption
<1>1. PICK first \in {None, 1} :
        /\ kind = "exchange" => first = None
        /\ row = [live |-> TRUE, access |-> first, refresh |-> first]
        /\ valid = {first} \ {None} /\ current = first /\ made = first
  BY DEF Init
<1>2. TypeOK
  BY <1>1, SMTT(30) DEF Init, TypeOK, Token, None, Unread, IdleJob, Job, Position, Lock!Init
<1>3. Held /\ ByKind
  BY DEF Init, Held, ByKind, IdleJob, UnderHold
<1>4. RowFollows /\ Unspent
  BY <1>1, SMTT(30) DEF Init, RowFollows, Unspent, Token, None
<1>5. ASSUME NEW w \in Worker PROVE SlotsFollow(job[w])
  BY <1>1, SMTT(30) DEF Init, SlotsFollow, IdleJob, None, Unread, Failed
<1> QED BY <1>2, <1>3, <1>4, <1>5 DEF Inv, Init

\* A request's record stays one when its fields are written: first its place alone.
LEMMA WriteAt == \A j \in Job, p \in Position : [j EXCEPT !.at = p] \in Job
BY DEF Job

\* A call that starts.
LEMMA WriteCalled ==
    \A j \in Job, p \in Position, c \in Int, n \in Int, b \in BOOLEAN, e \in Int :
        [j EXCEPT !.at = p, !.calls = c, !.attempt = n, !.retry = b, !.new = e] \in Job
BY DEF Job

\* The access slot read.
LEMMA WriteRead ==
    \A j \in Job, a \in Int, s \in Int, p \in Position :
        [j EXCEPT !.access = a, !.stale = s, !.at = p] \in Job
BY DEF Job

\* The access token refused.
LEMMA WriteRefused ==
    \A j \in Job, s \in Int, b \in BOOLEAN, p \in Position :
        [j EXCEPT !.stale = s, !.retry = b, !.at = p] \in Job
BY DEF Job

\* The row's pair adopted.
LEMMA WriteLanded ==
    \A j \in Job, p \in Position, a \in Int :
        [j EXCEPT !.at = p, !.access = a] \in Job
BY DEF Job

\* Another ask for the hold.
LEMMA WriteWaited ==
    \A j \in Job, p \in Position, n \in Int :
        [j EXCEPT !.at = p, !.attempt = n] \in Job
BY DEF Job

\* The adopted pair completed.
LEMMA WriteAdopted ==
    \A j \in Job, p \in Position, b \in BOOLEAN, r \in Int :
        [j EXCEPT !.at = p, !.retry = b, !.refresh = r] \in Job
BY DEF Job

\* The refresh slot read.
LEMMA WriteToken ==
    \A j \in Job, r \in Int, p \in Position :
        [j EXCEPT !.refresh = r, !.at = p] \in Job
BY DEF Job

\* New tokens got.
LEMMA WriteGot ==
    \A j \in Job, p \in Position, e \in Int :
        [j EXCEPT !.at = p, !.new = e] \in Job
BY DEF Job

\* A pair stored.
LEMMA WriteStored ==
    \A j \in Job, p \in Position, b \in BOOLEAN, a \in Int, r \in Int :
        [j EXCEPT !.at = p, !.retry = b, !.access = a, !.refresh = r] \in Job
BY DEF Job

\* An exchanged token stored, or both slots emptied.
LEMMA WriteDropped ==
    \A j \in Job, p \in Position, a \in Int, r \in Int :
        [j EXCEPT !.at = p, !.access = a, !.refresh = r] \in Job
BY DEF Job

\* An exchanged token to be forgotten.
LEMMA WriteForgot ==
    \A j \in Job, c \in Int, a \in Int, p \in Position :
        [j EXCEPT !.calls = c, !.access = a, !.at = p] \in Job
BY DEF Job

\* The places of a request, one by one.
LEMMA Positions ==
    /\ "idle" \in Position /\ "call" \in Position /\ "access" \in Position /\ "send" \in Position
    /\ "hold" \in Position /\ "wait" \in Position /\ "recheck" \in Position /\ "adopt" \in Position
    /\ "refreshToken" \in Position /\ "refresh" \in Position /\ "store" \in Position
    /\ "exchange" \in Position /\ "storeAccess" \in Position /\ "dropRefresh" \in Position
    /\ "revoke" \in Position /\ "remove" \in Position
BY DEF Position

\* The values a slot has besides tokens are integers.
LEMMA Values ==
    None \in Int /\ Unread \in Int /\ Failed \in Int /\ 0 \in Int /\ TRUE \in BOOLEAN /\ FALSE \in BOOLEAN
BY SMTT(30) DEF None, Unread, Failed

\* A worker without a request has a record too.
LEMMA Idle == IdleJob \in Job
BY SMTT(30) DEF IdleJob, Job, Position, None, Unread

\* Writing one request's record leaves the others.
LEMMA Put ==
    ASSUME TypeOK, NEW w \in Worker, NEW j \in Job, job' = [job EXCEPT ![w] = j]
    PROVE  job' \in [Worker -> Job] /\ job'[w] = j /\ \A x \in Worker \ {w} : job'[x] = job[x]
BY DEF TypeOK

\* A step is the request's own, and leaves the others as they are.
LEMMA JobStep ==
    ASSUME TypeOK, NEW w \in Worker, Step(w)
    PROVE  job' \in [Worker -> Job] /\ \A x \in Worker \ {w} : job'[x] = job[x]
<1> USE Positions, Values, Put
<1>a. job[w] \in Job
  BY DEF TypeOK
<1>b. /\ job[w].access \in Int /\ job[w].refresh \in Int /\ job[w].new \in Int
      /\ job[w].attempt + 1 \in Int /\ job[w].calls + 1 \in Int
  BY <1>a, SMTT(30) DEF Job
<1>c. FetchAccessToken \in Int /\ FetchRefreshToken \in Int /\ made + 1 \in Int
  BY SMTT(30) DEF TypeOK, FetchAccessToken, FetchRefreshToken
<1>at. ASSUME NEW p \in Position, job' = [job EXCEPT ![w].at = p]
       PROVE  job' \in [Worker -> Job] /\ \A x \in Worker \ {w} : job'[x] = job[x]
  <2>1. job' = [job EXCEPT ![w] = [job[w] EXCEPT !.at = p]]
    BY <1>at
  <2> QED BY <2>1, <1>a, WriteAt
<1>return. CASE Return(w)
  BY <1>return, <1>at DEF Return
<1>idle. CASE job' = [job EXCEPT ![w] = IdleJob]
  BY <1>idle, Idle
<1>1. CASE Begin(w)
  BY <1>1, Idle, WriteAt DEF Begin
<1>2. CASE Call(w)
  <2>1. job' = [job EXCEPT ![w] = [job[w] EXCEPT !.at = "access", !.calls = job[w].calls + 1,
                                                 !.attempt = 0, !.retry = FALSE, !.new = None]]
    BY <1>2 DEF Call
  <2> QED BY <2>1, <1>a, <1>b, WriteCalled
<1>4. CASE RowAccessToken(w)
  <2>1. PICK failed \in BOOLEAN :
          LET token == Slot(job[w].access, FetchAccessToken, failed) IN
          job' = [job EXCEPT ![w].access = token, ![w].stale = None,
                             ![w].at = IF kind = "pair" THEN BearerNext(token) ELSE ExchangeNext(token)]
    BY <1>4 DEF RowAccessToken
  <2> DEFINE a == Slot(job[w].access, FetchAccessToken, failed)
             p == IF kind = "pair" THEN BearerNext(a) ELSE ExchangeNext(a)
  <2>2. a \in Int
    BY <1>b, <1>c DEF Slot
  <2>3. p \in Position
    BY DEF BearerNext, ExchangeNext
  <2>4. job' = [job EXCEPT ![w] = [job[w] EXCEPT !.access = a, !.stale = None, !.at = p]]
    BY <2>1
  <2> HIDE DEF a, p
  <2> QED BY <2>2, <2>3, <2>4, <1>a, WriteRead
<1>5. CASE RequestWithBearer(w)
  <2>1. CASE Return(w)
    BY <2>1, <1>return
  <2>2. CASE job' = [job EXCEPT ![w].stale = job[w].access, ![w].retry = kind = "exchange",
                                ![w].at = IF kind = "exchange" THEN "exchange" ELSE "hold"]
    <3> DEFINE b == kind = "exchange"
               p == IF b THEN "exchange" ELSE "hold"
    <3>1. job' = [job EXCEPT ![w] = [job[w] EXCEPT !.stale = job[w].access, !.retry = b, !.at = p]]
      BY <2>2
    <3>2. b \in BOOLEAN /\ p \in Position
      OBVIOUS
    <3> HIDE DEF b, p
    <3> QED BY <3>1, <3>2, <1>a, <1>b, WriteRefused
  <2> QED BY <1>5, <2>1, <2>2 DEF RequestWithBearer
<1>7. CASE HoldUpstreamRefresh(w)
  <2>1. PICK p \in Position : job' = [job EXCEPT ![w].at = p]
    BY <1>7 DEF HoldUpstreamRefresh
  <2> QED BY <2>1, <1>at
<1>8. CASE Recheck(w) \/ Reread(w)
  <2>1. CASE job' = [job EXCEPT ![w].at = "adopt", ![w].access = FetchAccessToken]
    <3>1. job' = [job EXCEPT ![w] = [job[w] EXCEPT !.at = "adopt", !.access = FetchAccessToken]]
      BY <2>1
    <3> QED BY <3>1, <1>a, <1>c, WriteLanded
  <2>2. CASE job' = [job EXCEPT ![w].at = "hold", ![w].attempt = @ + 1]
    <3>1. job' = [job EXCEPT ![w] = [job[w] EXCEPT !.at = "hold", !.attempt = job[w].attempt + 1]]
      BY <2>2
    <3> QED BY <3>1, <1>a, <1>b, WriteWaited
  <2> QED BY <1>8, <2>1, <2>2, <1>at DEF Recheck, Reread
<1>10. CASE Adopt(w)
  <2>1. PICK failed \in BOOLEAN :
          job' = [job EXCEPT ![w].at = "send", ![w].retry = TRUE,
                        ![w].refresh = IF failed \/ FetchRefreshToken = None THEN @ ELSE FetchRefreshToken]
    BY <1>10 DEF Adopt
  <2> DEFINE r == IF failed \/ FetchRefreshToken = None THEN job[w].refresh ELSE FetchRefreshToken
  <2>2. job' = [job EXCEPT ![w] = [job[w] EXCEPT !.at = "send", !.retry = TRUE, !.refresh = r]]
    BY <2>1
  <2>3. r \in Int
    BY <1>b, <1>c
  <2> HIDE DEF r
  <2> QED BY <2>2, <2>3, <1>a, WriteAdopted
<1>11. CASE RowRefreshToken(w)
  <2>1. PICK failed \in BOOLEAN :
          LET token == Slot(job[w].refresh, FetchRefreshToken, failed) IN
          job' = [job EXCEPT ![w].refresh = token, ![w].at = IF token > None THEN "refresh" ELSE "call"]
    BY <1>11 DEF RowRefreshToken
  <2> DEFINE r == Slot(job[w].refresh, FetchRefreshToken, failed)
             p == IF r > None THEN "refresh" ELSE "call"
  <2>2. r \in Int
    BY <1>b, <1>c DEF Slot
  <2>3. p \in Position
    OBVIOUS
  <2>4. job' = [job EXCEPT ![w] = [job[w] EXCEPT !.refresh = r, !.at = p]]
    BY <2>1
  <2> HIDE DEF r, p
  <2> QED BY <2>2, <2>3, <2>4, <1>a, WriteToken
<1>12. CASE RequestRefreshAccessTknPair(w) \/ ExchangeUserToken(w)
  <2>1. ASSUME NEW p \in Position, job' = [job EXCEPT ![w].at = p, ![w].new = made + 1]
        PROVE  job' \in [Worker -> Job] /\ \A x \in Worker \ {w} : job'[x] = job[x]
    <3>1. job' = [job EXCEPT ![w] = [job[w] EXCEPT !.at = p, !.new = made + 1]]
      BY <2>1
    <3> QED BY <3>1, <1>a, <1>c, WriteGot
  <2> QED BY <1>12, <1>return, <2>1 DEF RequestRefreshAccessTknPair, ExchangeUserToken
<1>14. CASE StoreTokenPair(w)
  <2>1. CASE job' = [job EXCEPT ![w].at = "send", ![w].retry = TRUE,
                                ![w].access = job[w].new, ![w].refresh = job[w].new]
    <3>1. job' = [job EXCEPT ![w] = [job[w] EXCEPT !.at = "send", !.retry = TRUE,
                                                   !.access = job[w].new, !.refresh = job[w].new]]
      BY <2>1
    <3> QED BY <3>1, <1>a, <1>b, WriteStored
  <2> QED BY <1>14, <2>1, <1>return DEF StoreTokenPair
<1>17. CASE StoreAccessToken(w)
  <2>1. PICK p \in Position : job' = [job EXCEPT ![w].at = p]
    BY <1>17 DEF StoreAccessToken
  <2> QED BY <2>1, <1>at
<1>18. CASE DropRefreshField(w) \/ RemoveTokens(w)
  <2>1. ASSUME NEW p \in Position, NEW a \in Int, NEW r \in Int,
               job' = [job EXCEPT ![w].at = p, ![w].access = a, ![w].refresh = r]
        PROVE  job' \in [Worker -> Job] /\ \A x \in Worker \ {w} : job'[x] = job[x]
    <3>1. job' = [job EXCEPT ![w] = [job[w] EXCEPT !.at = p, !.access = a, !.refresh = r]]
      BY <2>1
    <3> QED BY <3>1, <1>a, WriteDropped
  <2> QED BY <1>18, <1>b, <2>1 DEF DropRefreshField, RemoveTokens
<1>19. CASE RowForgetExchanged(w)
  <2>1. PICK revoke \in BOOLEAN :
          job' = [job EXCEPT ![w].calls = @ + 1,
                     ![w].access = IF revoke THEN Slot(@, FetchAccessToken, FALSE) ELSE @,
                     ![w].at = IF revoke /\ Slot(job[w].access, FetchAccessToken, FALSE) > None
                               THEN "revoke" ELSE "remove"]
    BY <1>19 DEF RowForgetExchanged
  <2> DEFINE s == Slot(job[w].access, FetchAccessToken, FALSE)
             a == IF revoke THEN s ELSE job[w].access
             p == IF revoke /\ s > None THEN "revoke" ELSE "remove"
  <2>2. a \in Int /\ p \in Position
    BY <1>b, <1>c DEF Slot
  <2>3. job' = [job EXCEPT ![w] = [job[w] EXCEPT !.calls = job[w].calls + 1, !.access = a, !.at = p]]
    BY <2>1
  <2> HIDE DEF a, p
  <2> QED BY <2>2, <2>3, <1>a, <1>b, WriteForgot
<1>20. CASE RevokeUserToken(w)
  BY <1>20, <1>at DEF RevokeUserToken
<1>22. CASE Finish(w) \/ Cut(w)
  BY <1>22, <1>idle DEF Finish, Cut
<1>23. CASE UpstreamUnavailable(w) \/ RefreshLost(w) \/ StoreTokenPairFails(w)
  BY <1>23, <1>return DEF UpstreamUnavailable, RefreshLost, StoreTokenPairFails
<1> QED
  BY <1>1, <1>2, <1>4, <1>5, <1>7, <1>8, <1>10, <1>11, <1>12, <1>14, <1>17, <1>18, <1>19, <1>20,
     <1>22, <1>23 DEF Step

\* Counting one up keeps a family of counters one.
LEMMA Count ==
    ASSUME NEW S, NEW f \in [S -> Nat], NEW x
    PROVE  [f EXCEPT ![x] = @ + 1] \in [S -> Nat]
<1>1. CASE x \in S
  BY <1>1, SMTT(30)
<1>2. CASE x \notin S
  BY <1>2
<1> QED BY <1>1, <1>2

\* The other variables keep their types.
LEMMA RestStep ==
    ASSUME TypeOK, Next
    PROVE  /\ kind' \in {"pair", "exchange"} /\ kind' = kind
           /\ row' \in [live : BOOLEAN, access : Int, refresh : Int]
           /\ valid' \subseteq Token /\ current' \in 0..MaxTokens /\ made' \in 0..MaxTokens
           /\ presented' \in [Token -> Nat]
           /\ requests' \in Nat /\ faults' \in Nat /\ faults' \in {faults, faults + 1}
           /\ owner' \in [{RowName} -> Worker \cup {NoWorker}]
<1> USE DEF rowVars, upstreamVars, lockVars
<1>t. /\ kind \in {"pair", "exchange"} /\ row \in [live : BOOLEAN, access : Int, refresh : Int]
      /\ valid \subseteq Token /\ current \in 0..MaxTokens /\ made \in 0..MaxTokens
      /\ presented \in [Token -> Nat] /\ requests \in Nat /\ faults \in Nat
      /\ owner \in [{RowName} -> Worker \cup {NoWorker}]
      /\ MaxTokens \in Nat /\ job \in [Worker -> Job]
  BY UpstreamAssumption DEF TypeOK
<1>own. ASSUME NEW w \in Worker
        PROVE  /\ Lock!Take(w, RowName) => owner' \in [{RowName} -> Worker \cup {NoWorker}]
               /\ Release(w) => owner' \in [{RowName} -> Worker \cup {NoWorker}]
               /\ Return(w) => owner' \in [{RowName} -> Worker \cup {NoWorker}]
  BY <1>t DEF Return, Release, Lock!Take, Lock!GiveBack
<1>put. ASSUME NEW w \in Worker, NEW a \in Int, NEW r \in Int
        PROVE  StoredPair(a, r) \in [live : BOOLEAN, access : Int, refresh : Int]
  BY <1>t DEF StoredPair
<1>job. ASSUME NEW w \in Worker
        PROVE  job[w].refresh \in Int /\ job[w].new \in Int
  BY <1>t DEF Job
<1>rot. ASSUME NEW w \in Worker, Rotate(job[w].refresh)
        PROVE  /\ valid' \subseteq Token /\ current' \in 0..MaxTokens /\ made' \in 0..MaxTokens
               /\ presented' \in [Token -> Nat]
  <2>1. presented' \in [Token -> Nat]
    <3>1. presented' = [presented EXCEPT ![job[w].refresh] = @ + 1]
      BY <1>rot DEF Rotate
    <3>2. presented \in [Token -> Nat]
      BY <1>t
    <3> QED BY <3>1, <3>2, Count
  <2>2. CASE made < MaxTokens /\ made' = made + 1 /\ current' = made + 1
                /\ valid' = (valid \ {job[w].refresh}) \cup {made + 1}
    <3>1. made + 1 \in 1..MaxTokens
      BY <2>2, <1>t, SMTT(30)
    <3>2. made' \in 0..MaxTokens /\ current' \in 0..MaxTokens
      BY <2>2, <3>1, <1>t, SMTT(30)
    <3>3. valid' \subseteq Token
      BY <2>2, <3>1, <1>t DEF Token
    <3> QED BY <2>1, <3>2, <3>3
  <2>3. CASE UNCHANGED made /\ (UNCHANGED <<current, valid>> \/ (current' = None /\ valid' = {}))
    BY <2>1, <2>3, <1>t, SMTT(30) DEF None
  <2> QED BY <1>rot, <2>2, <2>3 DEF Rotate
<1>1. ASSUME NEW w \in Worker, Step(w)
      PROVE  kind' = kind /\ requests' \in Nat /\ faults' \in Nat /\ faults' \in {faults, faults + 1}
  <2>1. kind' = kind /\ requests' \in {requests, requests + 1} /\ faults' \in {faults, faults + 1}
    BY ONLY <1>1 DEF rowVars, Fault, Unfaulted, Step, Begin, Call, Finish, RowAccessToken,
              RequestWithBearer, UpstreamUnavailable, HoldUpstreamRefresh, Recheck, Reread, Adopt,
              RowRefreshToken,
              RequestRefreshAccessTknPair, RefreshLost, StoreTokenPair, StoreTokenPairFails,
              ExchangeUserToken, StoreAccessToken, DropRefreshField, RowForgetExchanged,
              RevokeUserToken, RemoveTokens, Cut
  <2> QED BY <2>1, <1>t, SMTT(30)
<1>2. ASSUME NEW w \in Worker, Step(w)
      PROVE  row' \in [live : BOOLEAN, access : Int, refresh : Int]
  <2>1. CASE StoreTokenPair(w) \/ StoreTokenPairFails(w)
    BY <2>1, <1>t, <1>put, <1>job, SMTT(30) DEF StoreTokenPair, StoreTokenPairFails
  <2>2. CASE StoreAccessToken(w) \/ RemoveTokens(w)
    BY <2>2, <1>t, <1>put, <1>job, Values, SMTT(30) DEF StoreAccessToken, RemoveTokens
  <2>3. CASE DropRefreshField(w)
    BY <2>3, <1>t, Values DEF DropRefreshField
  <2>4. CASE row' = row
    BY <2>4, <1>t
  <2> QED
    BY <1>2, <2>1, <2>2, <2>3, <2>4
       DEF Step, Begin, Call, Finish, RowAccessToken, RequestWithBearer, UpstreamUnavailable,
           HoldUpstreamRefresh, Recheck, Reread, Adopt, RowRefreshToken,
           RequestRefreshAccessTknPair, RefreshLost, ExchangeUserToken, RowForgetExchanged,
           RevokeUserToken, Cut
<1>3. ASSUME NEW w \in Worker, Step(w)
      PROVE  /\ valid' \subseteq Token /\ current' \in 0..MaxTokens /\ made' \in 0..MaxTokens
             /\ presented' \in [Token -> Nat]
  <2>1. CASE RequestRefreshAccessTknPair(w) \/ RefreshLost(w)
    BY <2>1, <1>t, <1>rot DEF RequestRefreshAccessTknPair, RefreshLost
  <2>2. CASE ExchangeUserToken(w) \/ RevokeUserToken(w)
    BY <2>2, <1>t, SMTT(30) DEF ExchangeUserToken, RevokeUserToken, Token
  <2>3. CASE UNCHANGED upstreamVars
    BY <2>3, <1>t
  <2> QED
    BY <1>3, <2>1, <2>2, <2>3
       DEF Step, Begin, Call, Finish, RowAccessToken, RequestWithBearer, UpstreamUnavailable,
           HoldUpstreamRefresh, Recheck, Reread, Adopt, RowRefreshToken, StoreTokenPair,
           StoreTokenPairFails, StoreAccessToken, DropRefreshField, RowForgetExchanged,
           RemoveTokens, Cut
<1>4. ASSUME NEW w \in Worker, Step(w)
      PROVE  owner' \in [{RowName} -> Worker \cup {NoWorker}]
  BY <1>4, <1>t, <1>own
     DEF Step, Begin, Call, Finish, RowAccessToken, RequestWithBearer, UpstreamUnavailable,
         HoldUpstreamRefresh, Recheck, Reread, Adopt, RowRefreshToken,
         RequestRefreshAccessTknPair, RefreshLost, StoreTokenPair, StoreTokenPairFails,
         ExchangeUserToken, StoreAccessToken, DropRefreshField, RowForgetExchanged,
         RevokeUserToken, RemoveTokens, Cut
<1>5. CASE RowEnds
  <2>1. row' \in [live : BOOLEAN, access : Int, refresh : Int]
    BY <1>5, Values DEF RowEnds
  <2> QED BY <1>5, <2>1, <1>t DEF RowEnds
<1>6. CASE ExpireAccess
  BY <1>6, <1>t DEF ExpireAccess
<1>7. CASE \E i \in Instance : Die(i)
  <2>1. owner' \in [{RowName} -> Worker \cup {NoWorker}]
    BY <1>7, <1>t DEF Die, Lock!Die
  <2> QED BY <1>7, <2>1, <1>t, SMTT(30) DEF Die, Fault
<1> QED BY <1>1, <1>2, <1>3, <1>4, <1>5, <1>6, <1>7, <1>t DEF Next

\* Every step keeps the types.
LEMMA TypeStep == ASSUME TypeOK, Next PROVE TypeOK'
<1>1. job' \in [Worker -> Job]
  <2>1. CASE \E w \in Worker : Step(w)
    BY <2>1, JobStep
  <2>2. CASE RowEnds \/ ExpireAccess
    BY <2>2 DEF RowEnds, ExpireAccess, TypeOK
  <2>3. CASE \E i \in Instance : Die(i)
    BY <2>3, Idle DEF Die, TypeOK
  <2> QED BY <2>1, <2>2, <2>3 DEF Next
<1> QED BY <1>1, RestStep DEF TypeOK

\* Where a step takes its request, and what it does to the hold.
LEMMA Places ==
    ASSUME TypeOK, ByKind, NEW w \in Worker, Step(w)
    PROVE  /\ job'[w].at \in UnderHold =>
                 \/ At(w, "hold") /\ owner[RowName] = NoWorker /\ owner'[RowName] = w
                 \/ job[w].at \in UnderHold /\ owner' = owner
           /\ kind = "exchange" => job'[w].at \notin UnderHold \cup {"hold", "wait", "adopt"}
           /\ kind = "pair" => job'[w].at \notin {"exchange", "storeAccess", "dropRefresh", "revoke", "remove"}
           /\ owner'[RowName] # owner[RowName] => owner[RowName] \in {NoWorker, w}
<1>t. /\ job \in [Worker -> Job] /\ owner \in [{RowName} -> Worker \cup {NoWorker}]
      /\ kind \in {"pair", "exchange"}
  BY DEF TypeOK
<1>k. /\ kind = "exchange" => job[w].at \notin UnderHold \cup {"hold", "wait", "adopt"}
      /\ kind = "pair" => job[w].at \notin {"exchange", "storeAccess", "dropRefresh", "revoke", "remove"}
  BY DEF ByKind
<1>r. Release(w) => (owner'[RowName] # owner[RowName] => owner[RowName] \in {NoWorker, w})
  BY DEF Release, lockVars
<1>return. Return(w) => job'[w].at = "call"
  BY <1>t DEF Return, Job
<1>c. CASE Return(w)
  BY <1>c, <1>return, <1>r DEF Return, UnderHold
<1>idle. CASE job' = [job EXCEPT ![w] = IdleJob] /\ (Release(w) \/ UNCHANGED lockVars)
  BY <1>idle, <1>r, <1>t DEF IdleJob, UnderHold, lockVars
<1>u. CASE UNCHANGED lockVars /\ job'[w].at \in {"call", "access"}
  BY <1>u DEF lockVars, UnderHold
<1>1. CASE Begin(w) \/ Call(w)
  <2>1. job'[w].at \in {"call", "access"}
    BY <1>1, <1>t, SMTT(30) DEF Begin, Call, IdleJob, Job
  <2> QED BY <1>1, <2>1, <1>u DEF Begin, Call
<1>2. CASE Finish(w) \/ Cut(w)
  BY <1>2, <1>idle DEF Finish, Cut
<1>3. CASE RowAccessToken(w)
  <2>1. /\ kind = "pair" => job'[w].at \in {"send", "hold", "call"}
        /\ kind = "exchange" => job'[w].at \in {"send", "exchange"}
    BY <1>3, <1>t, SMTT(30) DEF RowAccessToken, BearerNext, ExchangeNext, Job
  <2> QED BY <1>3, <2>1, <1>t DEF RowAccessToken, UnderHold, lockVars
<1>4. CASE RequestWithBearer(w) /\ ~Return(w)
  <2>1. /\ kind = "pair" => job'[w].at = "hold"
        /\ kind = "exchange" => job'[w].at = "exchange"
    BY <1>4, <1>t, SMTT(30) DEF RequestWithBearer, Job
  <2> QED BY <1>4, <2>1, <1>t DEF RequestWithBearer, UnderHold, lockVars
<1>5. CASE HoldUpstreamRefresh(w)
  <2>1. At(w, "hold") /\ kind = "pair"
    BY <1>5, <1>k, <1>t DEF HoldUpstreamRefresh, At
  <2>2. CASE owner[RowName] = NoWorker
    BY <1>5, <2>1, <2>2, <1>t DEF HoldUpstreamRefresh, Lock!Take, UnderHold, Job
  <2>3. CASE owner[RowName] # NoWorker
    <3>1. job'[w].at \in {"call", "wait"} /\ owner' = owner
      BY <1>5, <2>3, <1>t DEF HoldUpstreamRefresh, lockVars, Job
    <3> QED BY <2>1, <3>1 DEF UnderHold
  <2> QED BY <2>2, <2>3
<1>6. CASE Recheck(w)
  <2>1. At(w, "recheck") /\ kind = "pair" /\ owner' = owner
    BY <1>6, <1>k, <1>t DEF Recheck, At, UnderHold, lockVars
  <2>2. job'[w].at \in {"adopt", "refreshToken"}
    BY <1>6, <1>t DEF Recheck, Job
  <2> QED BY <2>1, <2>2 DEF UnderHold, At
<1>7. CASE Reread(w) \/ Adopt(w)
  <2>1. kind = "pair" /\ owner' = owner
    BY <1>7, <1>k, <1>t DEF Reread, Adopt, At, UnderHold, lockVars
  <2>2. job'[w].at \in {"adopt", "hold", "send"}
    BY <1>7, <1>t, SMTT(30) DEF Reread, Adopt, Job
  <2> QED BY <2>1, <2>2 DEF UnderHold
<1>8. CASE RowRefreshToken(w)
  <2>1. At(w, "refreshToken") /\ kind = "pair"
    BY <1>8, <1>k, <1>t DEF RowRefreshToken, At, UnderHold
  <2>2. \/ job'[w].at = "call" /\ Release(w)
        \/ job'[w].at = "refresh" /\ owner' = owner
    BY <1>8, <1>t, SMTT(30) DEF RowRefreshToken, Job, lockVars
  <2> QED BY <2>1, <2>2, <1>r DEF UnderHold, At
<1>9. CASE RequestRefreshAccessTknPair(w) /\ ~Return(w)
  <2>1. At(w, "refresh") /\ kind = "pair"
    BY <1>9, <1>k, <1>t DEF RequestRefreshAccessTknPair, At, UnderHold
  <2>2. job'[w].at = "store" /\ owner' = owner
    BY <1>9, <1>t DEF RequestRefreshAccessTknPair, Job, lockVars
  <2> QED BY <2>1, <2>2 DEF UnderHold, At
<1>10. CASE StoreTokenPair(w) /\ ~Return(w)
  <2>1. job'[w].at = "send" /\ owner' = owner
    BY <1>10, <1>t, SMTT(30) DEF StoreTokenPair, Job, lockVars
  <2> QED BY <2>1 DEF UnderHold
<1>11. CASE ExchangeUserToken(w) \/ StoreAccessToken(w) \/ DropRefreshField(w)
            \/ RowForgetExchanged(w) \/ RevokeUserToken(w) \/ RemoveTokens(w)
  <2>1. kind = "exchange" /\ owner' = owner
    BY <1>11, <1>k, <1>t DEF ExchangeUserToken, StoreAccessToken, DropRefreshField,
          RowForgetExchanged, RevokeUserToken, RemoveTokens, At, lockVars
  <2>2. job'[w].at \in {"storeAccess", "dropRefresh", "send", "revoke", "remove", "call"}
    <3>1. CASE ExchangeUserToken(w) \/ StoreAccessToken(w)
      BY <3>1, <1>t, SMTT(30) DEF ExchangeUserToken, StoreAccessToken, Job
    <3>2. CASE DropRefreshField(w) \/ RevokeUserToken(w) \/ RemoveTokens(w)
      BY <3>2, <1>t DEF DropRefreshField, RevokeUserToken, RemoveTokens, Job
    <3>3. CASE RowForgetExchanged(w)
      BY <3>3, <1>t, SMTT(30) DEF RowForgetExchanged, Job
    <3> QED BY <1>11, <3>1, <3>2, <3>3
  <2> QED BY <2>1, <2>2 DEF UnderHold
<1>12. CASE UpstreamUnavailable(w) \/ RefreshLost(w) \/ StoreTokenPairFails(w)
  BY <1>12, <1>c DEF UpstreamUnavailable, RefreshLost, StoreTokenPairFails
<1> QED
  BY <1>c, <1>1, <1>2, <1>3, <1>4, <1>5, <1>6, <1>7, <1>8, <1>9, <1>10, <1>11, <1>12 DEF Step

\* The hold keeps apart the requests that spend and store.
LEMMA HoldStep == ASSUME TypeOK, Held, ByKind, Next PROVE Held' /\ ByKind'
<1>0. kind' = kind
  BY RestStep
<1>t. job \in [Worker -> Job] /\ owner \in [{RowName} -> Worker \cup {NoWorker}]
  BY DEF TypeOK
<1>1. ASSUME NEW w \in Worker, Step(w) PROVE Held' /\ ByKind'
  <2>1. \A x \in Worker \ {w} : job'[x] = job[x]
    BY <1>1, JobStep
  <2>2. Held'
    <3> SUFFICES ASSUME NEW x \in Worker, (job[x].at \in UnderHold)' PROVE owner'[RowName] = x
      BY DEF Held
    <3>1. CASE x = w
      BY <1>1, <3>1, Places DEF Held
    <3>2. CASE x # w
      <4>1. job[x].at \in UnderHold
        BY <2>1, <3>2 DEF UnderHold
      <4>2. owner[RowName] = x
        BY <4>1 DEF Held
      <4> QED BY <1>1, <3>2, <4>2, Places, UpstreamAssumption
    <3> QED BY <3>1, <3>2
  <2> QED BY <1>0, <1>1, <2>1, <2>2, Places DEF ByKind
<1>2. CASE RowEnds \/ ExpireAccess
  BY <1>0, <1>2 DEF RowEnds, ExpireAccess, Held, ByKind, lockVars
<1>3. ASSUME NEW i \in Instance, Die(i) PROVE Held' /\ ByKind'
  <2>1. \A w \in Worker : job'[w] = IF Home[w] = i THEN IdleJob ELSE job[w]
    BY <1>3 DEF Die
  <2>2. IdleJob.at = "idle"
    BY DEF IdleJob
  <2>3. \A w \in Worker : owner[RowName] = w /\ Home[w] # i => owner'[RowName] = w
    BY <1>3, <1>t DEF Die, Lock!Die
  <2> QED BY <1>0, <2>1, <2>2, <2>3 DEF Held, ByKind, UnderHold
<1> QED BY <1>1, <1>2, <1>3 DEF Next

\* The writes of the row.
LEMMA RowWrites ==
    ASSUME NEW w \in Worker, Step(w)
    PROVE  row' = row \/ (\E a, r : row' = StoredPair(a, r)) \/ row' = [row EXCEPT !.refresh = None]
BY DEF Step, Begin, Call, Finish, RowAccessToken, RequestWithBearer, UpstreamUnavailable,
         HoldUpstreamRefresh, Recheck, Reread, Adopt, RowRefreshToken,
         RequestRefreshAccessTknPair, RefreshLost, StoreTokenPair, StoreTokenPairFails,
         ExchangeUserToken, StoreAccessToken, DropRefreshField, RowForgetExchanged,
         RevokeUserToken, RemoveTokens, Cut, rowVars

\* A row that ended is not brought back.
LEMMA RowStep ==
    ASSUME TypeOK, Next
    PROVE  /\ row'.live => row.live
           /\ ~row.live => row'.access = row.access /\ row'.refresh \in {row.refresh, None}
<1>t. row \in [live : BOOLEAN, access : Int, refresh : Int]
  BY DEF TypeOK
<1>1. \A a, r : StoredPair(a, r).live = row.live /\ (~row.live => StoredPair(a, r) = row)
  BY <1>t DEF StoredPair
<1>2. ASSUME NEW w \in Worker, Step(w)
      PROVE  row' = row \/ (\E a, r : row' = StoredPair(a, r)) \/ row' = [row EXCEPT !.refresh = None]
  BY <1>2, RowWrites
<1>3. CASE \E w \in Worker : Step(w)
  BY <1>t, <1>1, <1>2, <1>3
<1>4. CASE ~\E w \in Worker : Step(w)
  BY <1>4 DEF Next, RowEnds, ExpireAccess, Die, rowVars
<1> QED BY <1>3, <1>4

\* It ends without tokens.
LEMMA RowEndStep ==
    ASSUME TypeOK, Next, row.live
    PROVE  ~row'.live => row'.access = None /\ row'.refresh = None
<1>t. row \in [live : BOOLEAN, access : Int, refresh : Int]
  BY DEF TypeOK
<1>1. \A a, r : StoredPair(a, r).live
  BY <1>t DEF StoredPair
<1>2. ASSUME NEW w \in Worker, Step(w)
      PROVE  row' = row \/ (\E a, r : row' = StoredPair(a, r)) \/ row' = [row EXCEPT !.refresh = None]
  BY <1>2, RowWrites
<1>3. CASE \E w \in Worker : Step(w)
  BY <1>t, <1>1, <1>2, <1>3
<1>4. CASE RowEnds
  BY <1>4 DEF RowEnds
<1>5. CASE ExpireAccess \/ \E i \in Instance : Die(i)
  BY <1>5 DEF ExpireAccess, Die, rowVars
<1> QED BY <1>3, <1>4, <1>5 DEF Next

\* While nothing fails, the steps of a pair's client are these.
LEMMA CalmSteps ==
    ASSUME Inv, Next, Calm'
    PROVE  /\ Calm
           /\ \/ ExpireAccess
              \/ \E w \in Worker :
                    \/ Begin(w) \/ Call(w) \/ Finish(w) \/ RowAccessToken(w) \/ RequestWithBearer(w)
                    \/ HoldUpstreamRefresh(w) \/ Recheck(w) \/ Reread(w) \/ Adopt(w)
                    \/ RowRefreshToken(w) \/ RequestRefreshAccessTknPair(w) \/ StoreTokenPair(w)
           /\ faults' = faults
<1>1. kind = "pair" /\ row.live
  BY RestStep, RowStep DEF Inv, Calm
<1>2. faults \in Nat /\ faults' = 0
  BY DEF Inv, TypeOK, Calm
<1>3. ~Fault
  BY <1>2, SMTT(30) DEF Fault
<1>4. faults' = faults
  BY <1>2, RestStep, SMTT(30) DEF Inv
<1>5. \A w \in Worker : /\ ~UpstreamUnavailable(w) /\ ~RefreshLost(w) /\ ~StoreTokenPairFails(w)
                        /\ ~Cut(w)
  BY <1>3 DEF UpstreamUnavailable, RefreshLost, StoreTokenPairFails, Cut
<1>6. \A w \in Worker : job[w].at \notin {"exchange", "storeAccess", "dropRefresh", "revoke", "remove"}
  BY <1>1 DEF Inv, ByKind
<1>7. \A w \in Worker : /\ ~ExchangeUserToken(w) /\ ~StoreAccessToken(w) /\ ~DropRefreshField(w)
                        /\ ~RowForgetExchanged(w) /\ ~RevokeUserToken(w) /\ ~RemoveTokens(w)
  BY <1>1, <1>6 DEF ExchangeUserToken, StoreAccessToken, DropRefreshField, RowForgetExchanged,
                    RevokeUserToken, RemoveTokens, At
<1>8. ~RowEnds /\ \A i \in Instance : ~Die(i)
  <2>1. RowEnds => ~row'.live
    BY SMTT(30) DEF RowEnds
  <2> QED BY <1>3, <2>1 DEF Die, Calm
<1> QED BY <1>1, <1>2, <1>4, <1>5, <1>7, <1>8 DEF Next, Step, Calm

\* What the invariant says of a calm state, with the types the steps need.
Tranquil == RowFollows /\ Unspent /\ \A w \in Worker : SlotsFollow(job[w])

\* A step of one request that touches neither the row nor the upstream, and leaves its own slots
\* in order.
LEMMA QuietStep ==
    ASSUME Tranquil, NEW w \in Worker, \A x \in Worker \ {w} : job'[x] = job[x],
           row' = row, current' = current, made' = made, presented' = presented,
           job[w].at # "store", SlotsFollow(job'[w])
    PROVE  Tranquil'
<1>1. RowFollows'
  BY DEF Tranquil, RowFollows
<1>2. Unspent'
  BY DEF Tranquil, Unspent
<1>3. ASSUME NEW x \in Worker PROVE SlotsFollow(job[x])'
  <2>1. SlotsFollow(job'[x])
    BY DEF Tranquil
  <2> QED BY <2>1 DEF SlotsFollow
<1> QED BY <1>1, <1>2, <1>3 DEF Tranquil

\* The requests but w are outside the hold while w is under it.
LEMMA Alone ==
    ASSUME Held, NEW w \in Worker, job[w].at \in UnderHold, NEW x \in Worker \ {w}
    PROVE  job[x].at \notin UnderHold
BY DEF Held

\* The slots, the row's fields and the upstream's counters are integers.
LEMMA Fields ==
    ASSUME TypeOK, NEW w \in Worker
    PROVE  /\ job[w].access \in Int /\ job[w].refresh \in Int /\ job[w].stale \in Int
           /\ job[w].new \in Int /\ job[w].at \in Position
           /\ row.access \in Int /\ row.refresh \in Int
           /\ current \in Int /\ made \in Int
<1>1. job \in [Worker -> Job] /\ row \in [live : BOOLEAN, access : Int, refresh : Int]
  BY DEF TypeOK
<1>2. current \in Int /\ made \in Int
  BY UpstreamAssumption, SMTT(30) DEF TypeOK
<1> QED BY <1>1, <1>2 DEF Job

\* The steps on the way to the hold and out of it.
LEMMA CalmQuiet ==
    ASSUME Inv, Calm, Tranquil, ~Fault, NEW w \in Worker, Step(w),
           \/ Begin(w) \/ Call(w) \/ Finish(w) \/ RowAccessToken(w) \/ RequestWithBearer(w)
           \/ HoldUpstreamRefresh(w) \/ Recheck(w) \/ Reread(w) \/ Adopt(w) \/ RowRefreshToken(w)
    PROVE  Tranquil'
<1> DEFINE j == job[w]
           k == job'[w]
<1>t. job \in [Worker -> Job]
  BY DEF Inv, TypeOK
<1>f. /\ j.access \in Int /\ j.refresh \in Int /\ j.stale \in Int /\ j.new \in Int
      /\ row.access \in Int /\ row.refresh \in Int /\ current \in Int
  BY Fields DEF Inv
<1>o. \A x \in Worker \ {w} : job'[x] = job[x]
  BY JobStep DEF Inv
<1>u. row' = row /\ current' = current /\ made' = made /\ presented' = presented /\ j.at # "store"
  BY DEF Begin, Call, Finish, RowAccessToken, RequestWithBearer, HoldUpstreamRefresh, Recheck,
         Reread, Adopt, RowRefreshToken, rowVars, upstreamVars, At
<1>r. /\ FetchAccessToken = row.access /\ FetchRefreshToken = row.refresh
      /\ row.access = row.refresh /\ 0 <= row.access /\ row.access <= current
  BY DEF Calm, FetchAccessToken, FetchRefreshToken, Tranquil, RowFollows, None
<1>s. SlotsFollow(j)
  BY DEF Tranquil
<1>d. /\ j.access # Failed /\ j.access <= current /\ j.refresh # Failed /\ j.refresh <= current
      /\ j.access = Unread => j.refresh = Unread
      /\ j.at # "adopt" /\ j.refresh > None => j.refresh >= j.access
  BY <1>s DEF SlotsFollow
<1> SUFFICES SlotsFollow(k)
  BY <1>o, <1>u, QuietStep
<1>same. ASSUME k.access = j.access, k.refresh = j.refresh, j.at # "adopt",
                k.at \in {"call", "access"}
         PROVE  SlotsFollow(k)
  BY <1>same, <1>s, <1>f DEF SlotsFollow
<1>idle. ASSUME k.access = Unread, k.refresh = Unread, k.at \in {"idle", "call"}
         PROVE  SlotsFollow(k)
  <2>1. Unread # Failed /\ Unread <= current /\ ~(Unread > None)
    BY ONLY <1>r, <1>f DEF Unread, Failed, None
  <2> HIDE DEF k
  <2> QED BY ONLY <1>idle, <2>1 DEF SlotsFollow
<1>1. CASE Begin(w) \/ Finish(w)
  <2>1. k.access = Unread /\ k.refresh = Unread /\ k.at \in {"idle", "call"}
    BY <1>1, <1>t, SMTT(30) DEF Begin, Finish, IdleJob, Job
  <2> QED BY <2>1, <1>idle
<1>2. CASE Call(w)
  <2>1. k.access = j.access /\ k.refresh = j.refresh /\ j.at # "adopt" /\ k.at = "access"
    BY <1>2, <1>t DEF Call, Job, At
  <2> QED BY <2>1, <1>same
<1>3. CASE RowAccessToken(w)
  <2>1. /\ j.at = "access"
        /\ k.access = (IF j.access # Unread THEN j.access ELSE row.access)
        /\ k.refresh = j.refresh /\ k.stale = None
        /\ k.at = IF kind = "pair" THEN BearerNext(k.access) ELSE ExchangeNext(k.access)
    <3> DEFINE a == IF j.access # Unread THEN j.access ELSE row.access
               p == IF kind = "pair" THEN BearerNext(a) ELSE ExchangeNext(a)
    <3>1. job' = [job EXCEPT ![w].access = Slot(j.access, FetchAccessToken, FALSE), ![w].stale = None,
                      ![w].at = IF kind = "pair" THEN BearerNext(Slot(j.access, FetchAccessToken, FALSE))
                                ELSE ExchangeNext(Slot(j.access, FetchAccessToken, FALSE))]
      BY <1>3 DEF RowAccessToken
    <3>2. Slot(j.access, FetchAccessToken, FALSE) = a
      BY <1>r DEF Slot
    <3>3. job' = [job EXCEPT ![w].access = a, ![w].stale = None, ![w].at = p]
      BY <3>1, <3>2
    <3> HIDE DEF a, p
    <3>4. k.access = a /\ k.refresh = j.refresh /\ k.stale = None /\ k.at = p
      BY <3>3, <1>t DEF Job
    <3> QED BY <3>4, <1>3 DEF RowAccessToken, At, a, p
  <2>2. k.at = BearerNext(k.access)
    BY <2>1 DEF Calm
  <2> HIDE DEF j, k
  <2>3. k.access \in Int /\ k.access # Unread /\ k.access # Failed /\ k.access <= current
    BY ONLY <2>1, <1>f, <1>r, <1>d DEF Unread, Failed
  <2>4. k.refresh # Failed /\ k.refresh <= current /\ (k.refresh > None => k.refresh >= k.access)
    BY ONLY <2>1, <1>f, <1>d DEF Unread, None
  <2>5. k.at \in {"send", "hold", "call"} /\ (k.at = "hold" => k.access = None)
    BY <2>2, <2>3 DEF BearerNext, None
  <2> QED BY ONLY <2>1, <2>3, <2>4, <2>5 DEF SlotsFollow
<1>4. CASE RequestWithBearer(w)
  <2>1. /\ j.at = "send" /\ k.access = j.access /\ k.refresh = j.refresh
        /\ \/ k.at = "call"
           \/ k.at = "hold" /\ k.stale = j.access
    BY <1>4, <1>t, SMTT(30) DEF RequestWithBearer, Return, Calm, Job, At
  <2> QED BY <2>1, <1>f, <1>s DEF SlotsFollow
<1>5. CASE HoldUpstreamRefresh(w)
  <2>1. /\ j.at = "hold" /\ k.access = j.access /\ k.refresh = j.refresh /\ k.stale = j.stale
        /\ k.at \in {"recheck", "call", "wait"}
    BY <1>5, <1>t, SMTT(30) DEF HoldUpstreamRefresh, Job, At
  <2> QED BY <2>1, <1>f, <1>s DEF SlotsFollow
<1>6. CASE Recheck(w) \/ Reread(w)
  <2>1. j.at \in {"recheck", "wait"} /\ k.refresh = j.refresh /\ k.stale = j.stale
    BY <1>6, <1>t, SMTT(30) DEF Recheck, Reread, Job, At
  <2>2. CASE Landed(w)
    <3>1. k.at = "adopt" /\ k.access = row.access
      BY <1>6, <2>2, <1>t, <1>r DEF Recheck, Reread, Job
    <3>2. row.access # 0
      BY <2>2, <1>r DEF Landed, None
    <3>3. /\ k.access \in Int /\ None < k.access /\ k.access # Failed /\ k.access # Unread
          /\ k.access <= current
      BY <3>1, <3>2, <1>f, <1>r, SMTT(30) DEF None, Unread, Failed
    <3>4. k.refresh # Failed /\ k.refresh <= current
      BY <2>1, <1>s DEF SlotsFollow
    <3> HIDE DEF j, k
    <3> QED BY <3>1, <3>3, <3>4, <1>f, SMTT(30) DEF SlotsFollow
  <2>3. CASE ~Landed(w)
    <3>1. k.at \in {"refreshToken", "hold"} /\ k.access = j.access
      BY <1>6, <2>3, <1>t DEF Recheck, Reread, Job
    <3>2. row.access \in {None, j.stale}
      BY <2>3, <1>r DEF Landed
    <3> QED BY <2>1, <3>1, <3>2, <1>f, <1>s DEF SlotsFollow
  <2> QED BY <2>2, <2>3
<1>7. CASE Adopt(w)
  <2>1. /\ j.at = "adopt" /\ k.at = "send" /\ k.access = j.access
        /\ k.refresh = IF row.refresh = None THEN j.refresh ELSE row.refresh
    <3> DEFINE r == IF row.refresh = None THEN j.refresh ELSE row.refresh
    <3>1. job' = [job EXCEPT ![w].at = "send", ![w].retry = TRUE, ![w].refresh = r]
      BY <1>7, <1>r DEF Adopt
    <3> HIDE DEF r
    <3>2. k.at = "send" /\ k.access = j.access /\ k.refresh = r
      BY <3>1, <1>t DEF Job
    <3> QED BY <3>2, <1>7 DEF Adopt, At, r
  <2>2. None < j.access /\ j.access <= row.access
    BY <2>1, <1>s DEF SlotsFollow
  <2> HIDE DEF j, k
  <2>3. k.refresh = row.access
    BY ONLY <2>1, <2>2, <1>r, <1>f DEF None
  <2>4. k.refresh # Failed /\ k.refresh <= current /\ k.refresh >= k.access /\ k.access # Unread
    BY ONLY <2>1, <2>2, <2>3, <1>f, <1>r DEF None, Unread, Failed
  <2> QED BY ONLY <2>1, <2>4, <1>d DEF SlotsFollow
<1>8. CASE RowRefreshToken(w)
  <2>1. /\ j.at = "refreshToken" /\ k.access = j.access /\ k.stale = j.stale
        /\ k.refresh = (IF j.refresh # Unread THEN j.refresh ELSE row.refresh)
        /\ k.at = IF k.refresh > None THEN "refresh" ELSE "call"
    <3> DEFINE r == IF j.refresh # Unread THEN j.refresh ELSE row.refresh
               p == IF r > None THEN "refresh" ELSE "call"
    <3>1. job' = [job EXCEPT ![w].refresh = Slot(j.refresh, FetchRefreshToken, FALSE),
                      ![w].at = IF Slot(j.refresh, FetchRefreshToken, FALSE) > None THEN "refresh" ELSE "call"]
      BY <1>8 DEF RowRefreshToken
    <3>2. Slot(j.refresh, FetchRefreshToken, FALSE) = r
      BY <1>r DEF Slot
    <3>3. job' = [job EXCEPT ![w].refresh = r, ![w].at = p]
      BY <3>1, <3>2
    <3> HIDE DEF r, p
    <3>4. k.access = j.access /\ k.stale = j.stale /\ k.refresh = r /\ k.at = p
      BY <3>3, <1>t DEF Job
    <3> QED BY <3>4, <1>8 DEF RowRefreshToken, At, r, p
  <2>2. row.refresh = current
    <3>1. \A x \in Worker \ {w} : job[x].at \notin UnderHold
      BY <2>1, Alone DEF UnderHold, Inv
    <3>2. \A x \in Worker : job[x].at # "store"
      BY <2>1, <3>1 DEF UnderHold
    <3> QED BY <3>2 DEF Tranquil, RowFollows
  <2>3. j.stale = j.access /\ row.access \in {None, j.stale} /\ j.access # Unread
    BY <2>1, <1>s DEF SlotsFollow
  <2> HIDE DEF j, k
  <2>4. k.refresh \in Int /\ k.refresh # Failed /\ k.refresh <= current
    BY ONLY <2>1, <1>f, <1>r, <1>d DEF Failed
  <2>5. ASSUME k.refresh > None PROVE k.refresh = current /\ k.refresh >= k.access /\ current # None
    <3>1. CASE j.refresh = Unread
      BY ONLY <2>1, <2>2, <2>3, <2>5, <3>1, <1>f, <1>r DEF None
    <3>2. CASE j.refresh # Unread
      <4>1. k.refresh = j.refresh /\ j.refresh >= j.access
        BY ONLY <2>1, <2>5, <3>2, <1>d
      <4> QED BY ONLY <2>1, <2>2, <2>3, <2>5, <4>1, <1>f, <1>r, <1>d DEF None
    <3> QED BY <3>1, <3>2
  <2>6. k.at \in {"refresh", "call"} /\ (k.at = "refresh" => k.refresh > None)
    BY ONLY <2>1
  <2> QED BY ONLY <2>1, <2>3, <2>4, <2>5, <2>6, <1>d DEF SlotsFollow
<1> QED BY <1>1, <1>2, <1>3, <1>4, <1>5, <1>6, <1>7, <1>8

\* The refresh token is spent under the hold, the first time anybody does, and buys the next pair.
LEMMA CalmSpend ==
    ASSUME Inv, Calm, Tranquil, NEW w \in Worker, Step(w), RequestRefreshAccessTknPair(w)
    PROVE  Tranquil'
<1> DEFINE j == job[w]
           k == job'[w]
<1>t. /\ job \in [Worker -> Job] /\ current \in 0..MaxTokens /\ made \in 0..MaxTokens
      /\ presented \in [Token -> Nat] /\ MaxTokens \in Nat
  BY UpstreamAssumption DEF Inv, TypeOK
<1>f. \A x \in Worker : job[x].access \in Int /\ job[x].refresh \in Int
  BY Fields DEF Inv
<1>w. row.access \in Int /\ row.refresh \in Int
  BY Fields DEF Inv
<1>o. \A x \in Worker \ {w} : job'[x] = job[x] /\ job[x].at \notin UnderHold
  BY JobStep, Alone DEF Inv, RequestRefreshAccessTknPair, At, UnderHold
<1>s. j.at = "refresh" /\ j.refresh = current /\ current # None /\ SlotsFollow(j)
  BY DEF RequestRefreshAccessTknPair, At, Tranquil, SlotsFollow
<1>g. current = made
  BY DEF Tranquil, RowFollows
<1>1. /\ made < MaxTokens /\ made' = made + 1 /\ current' = made + 1
      /\ presented' = [presented EXCEPT ![current] = @ + 1]
  BY <1>s DEF RequestRefreshAccessTknPair, Rotate
<1>2. k.at = "store" /\ k.new = current' /\ k.access = j.access /\ k.refresh = j.refresh
  BY <1>1, <1>s, <1>t, SMTT(30) DEF RequestRefreshAccessTknPair, Job
<1>3. row' = row
  BY DEF RequestRefreshAccessTknPair, rowVars
<1>4. RowFollows'
  <2>1. row.access = row.refresh /\ None <= row.access /\ row.access <= current
    BY DEF Tranquil, RowFollows
  <2>2. ~\A x \in Worker : job'[x].at # "store"
    BY <1>2
  <2> QED BY <1>1, <1>3, <1>g, <1>t, <1>w, <2>1, <2>2, SMTT(30) DEF RowFollows
<1>5. Unspent'
  <2> SUFFICES ASSUME NEW p \in Token
               PROVE  presented'[p] <= 1 /\ (p >= current' => presented'[p] = 0)
    BY DEF Unspent
  <2>1. presented[p] <= 1 /\ (p >= current => presented[p] = 0) /\ p \in Int
    BY <1>t, SMTT(30) DEF Tranquil, Unspent, Token
  <2>2. presented'[p] = IF p = current THEN presented[p] + 1 ELSE presented[p]
    BY <1>1, <1>t
  <2> QED BY <2>1, <2>2, <1>1, <1>g, <1>t, SMTT(30)
<1>6. ASSUME NEW x \in Worker \ {w} PROVE SlotsFollow(job[x])'
  <2>1. SlotsFollow(job[x]) /\ job[x].at \notin {"refreshToken", "refresh", "store"}
    BY <1>o DEF Tranquil, UnderHold
  <2>2. current <= current' /\ current \in Int /\ current' \in Int
    BY <1>1, <1>g, <1>t, SMTT(30)
  <2>3. job[x].access <= current /\ job[x].refresh <= current
    BY <2>1 DEF SlotsFollow
  <2>4. job[x].access <= current' /\ job[x].refresh <= current'
    BY <2>2, <2>3, <1>f, SMTT(30)
  <2>5. job'[x] = job[x]
    BY <1>o
  <2> QED BY ONLY <2>1, <2>4, <2>5, <1>3 DEF SlotsFollow
<1>7. SlotsFollow(job[w])'
  <2>2. current <= current' /\ current \in Int /\ current' \in Int
    BY <1>1, <1>g, <1>t, SMTT(30)
  <2>3. j.access <= current /\ j.refresh <= current
    BY <1>s DEF SlotsFollow
  <2>4. j.access <= current' /\ j.refresh <= current'
    BY <2>2, <2>3, <1>f, SMTT(30)
  <2> QED BY ONLY <2>4, <1>2, <1>3, <1>s DEF SlotsFollow
<1> QED BY <1>4, <1>5, <1>6, <1>7 DEF Tranquil

\* The new pair reaches the row before any request can spend it.
LEMMA CalmStore ==
    ASSUME Inv, Calm, Tranquil, NEW w \in Worker, Step(w), StoreTokenPair(w)
    PROVE  Tranquil'
<1> DEFINE j == job[w]
           k == job'[w]
<1>t. /\ job \in [Worker -> Job] /\ row \in [live : BOOLEAN, access : Int, refresh : Int]
      /\ current \in 0..MaxTokens /\ MaxTokens \in Nat
  BY UpstreamAssumption DEF Inv, TypeOK
<1>o. \A x \in Worker \ {w} : job'[x] = job[x] /\ job[x].at \notin UnderHold
  BY JobStep, Alone DEF Inv, StoreTokenPair, At, UnderHold
<1>s. j.at = "store" /\ j.new = current
  BY DEF StoreTokenPair, At, Tranquil, SlotsFollow
<1>1. /\ row'.access = current /\ row'.refresh = current
      /\ current' = current /\ made' = made /\ presented' = presented
  BY <1>s, <1>t DEF StoreTokenPair, StoredPair, upstreamVars, Calm
<1>2. k.at = "send" /\ k.access = current /\ k.refresh = current
  BY <1>s, <1>t, SMTT(30) DEF StoreTokenPair, Calm, Job
<1>3. RowFollows'
  <2>1. None <= current /\ current <= current
    BY ONLY <1>t DEF None
  <2>2. current = made
    BY DEF Tranquil, RowFollows
  <2> QED BY ONLY <2>1, <2>2, <1>1 DEF RowFollows
<1>4. Unspent'
  BY <1>1 DEF Unspent, Tranquil
<1>5. ASSUME NEW x \in Worker \ {w} PROVE SlotsFollow(job[x])'
  <2>1. SlotsFollow(job[x]) /\ job[x].at \notin {"refreshToken", "refresh", "store"}
    BY <1>o DEF Tranquil, UnderHold
  <2> QED BY <2>1, <1>1, <1>o DEF SlotsFollow
<1>6. SlotsFollow(job[w])'
  <2>1. current # Failed /\ current # Unread /\ current <= current /\ current >= current
    BY ONLY <1>t DEF Failed, Unread
  <2> QED BY ONLY <2>1, <1>1, <1>2 DEF SlotsFollow
<1> QED BY <1>3, <1>4, <1>5, <1>6 DEF Tranquil

\* Every step keeps the invariant.
LEMMA InvStep == ASSUME Inv, [Next]_vars PROVE Inv'
<1>1. CASE UNCHANGED vars
  BY <1>1 DEF vars, Inv, TypeOK, Held, ByKind, Calm, RowFollows, Unspent, SlotsFollow
<1>2. CASE Next
  <2>1. TypeOK' /\ Held' /\ ByKind'
    BY <1>2, TypeStep, HoldStep DEF Inv
  <2>2. kind' = "exchange" => \A p \in Token : presented'[p] = 0
    <3> SUFFICES ASSUME kind = "exchange" PROVE presented' = presented
      BY <1>2, RestStep DEF Inv
    <3>1. \A w \in Worker : ~At(w, "refresh")
      BY DEF Inv, ByKind, UnderHold, At
    <3>2. \A w \in Worker : ~RequestRefreshAccessTknPair(w) /\ ~RefreshLost(w)
      BY <3>1 DEF RequestRefreshAccessTknPair, RefreshLost
    <3>3. ASSUME NEW w \in Worker, Step(w) PROVE presented' = presented
      BY <3>2, <3>3
         DEF Step, Begin, Call, Finish, RowAccessToken, RequestWithBearer, UpstreamUnavailable,
             HoldUpstreamRefresh, Recheck, Reread, Adopt, RowRefreshToken, StoreTokenPair,
             StoreTokenPairFails, ExchangeUserToken, StoreAccessToken, DropRefreshField,
             RowForgetExchanged, RevokeUserToken, RemoveTokens, Cut, upstreamVars
    <3>4. CASE ~\E w \in Worker : Step(w)
      BY <1>2, <3>4 DEF Next, RowEnds, ExpireAccess, Die, upstreamVars
    <3> QED BY <3>3, <3>4
  <2>3. ASSUME Calm' PROVE Tranquil'
    <3>1. Calm /\ Tranquil /\ faults' = faults
      BY <1>2, <2>3, CalmSteps DEF Inv, Tranquil
    <3>2. ~Fault
      <4>1. faults \in Nat
        BY DEF Inv, TypeOK
      <4> QED BY <3>1, <4>1, SMTT(30) DEF Fault
    <3>3. CASE ExpireAccess
      <4>1. row' = row /\ current' = current /\ made' = made /\ presented' = presented /\ job' = job
        BY <3>3 DEF ExpireAccess, rowVars
      <4>2. RowFollows' /\ Unspent'
        BY <3>1, <4>1 DEF Tranquil, RowFollows, Unspent
      <4>3. ASSUME NEW w \in Worker PROVE SlotsFollow(job[w])'
        <5>1. SlotsFollow(job[w])
          BY <3>1 DEF Tranquil
        <5> QED BY <4>1, <5>1 DEF SlotsFollow
      <4> QED BY <4>2, <4>3 DEF Tranquil
    <3>4. ASSUME NEW w \in Worker,
                 \/ Begin(w) \/ Call(w) \/ Finish(w) \/ RowAccessToken(w) \/ RequestWithBearer(w)
                 \/ HoldUpstreamRefresh(w) \/ Recheck(w) \/ Reread(w) \/ Adopt(w)
                 \/ RowRefreshToken(w) \/ RequestRefreshAccessTknPair(w) \/ StoreTokenPair(w)
          PROVE  Tranquil'
      <4>1. Step(w)
        BY <3>4 DEF Step
      <4> QED BY <3>1, <3>2, <3>4, <4>1, CalmQuiet, CalmSpend, CalmStore
    <3> QED BY <1>2, <2>3, <3>3, <3>4, CalmSteps
  <2> QED BY <2>1, <2>2, <2>3 DEF Inv, Tranquil
<1> QED BY <1>1, <1>2
-----------------------------------------------------------------------------
\* While nothing failed and the session stands, the requests of a session present each refresh
\* token at most once, whatever their number and wherever they run (RefreshSpentOnce).
THEOREM RefreshSpentOnceHolds == Spec => []RefreshSpentOnce
<1>1. Inv => RefreshSpentOnce
  <2> SUFFICES ASSUME Inv, faults = 0, row.live, NEW p \in Token PROVE presented[p] <= 1
    BY DEF RefreshSpentOnce
  <2>1. CASE kind = "pair"
    BY <2>1 DEF Inv, Calm, Unspent
  <2>2. CASE kind = "exchange"
    BY <2>2, SMTT(30) DEF Inv
  <2> QED BY <2>1, <2>2 DEF Inv, TypeOK
<1> QED BY <1>1, InitInv, InvStep, PTL DEF Spec

\* While nothing failed and the session stands, the row holds the refresh token the upstream
\* accepts, but for a pair on its way to the row (RowKeepsCurrentPair).
THEOREM RowKeepsCurrentPairHolds == Spec => []RowKeepsCurrentPair
<1>1. Inv => RowKeepsCurrentPair
  BY DEF Inv, Calm, RowFollows, RowKeepsCurrentPair, At
<1> QED BY <1>1, InitInv, InvStep, PTL DEF Spec

\* A row that ended stays so, with no tokens, whatever fails (RowStaysEnded).
THEOREM RowStaysEndedHolds == Spec => RowStaysEnded
<1> DEFINE Ended == TypeOK /\ (~row.live => row.access = None /\ row.refresh = None)
<1>1. Init => Ended
  <2>1. Init => TypeOK
    BY InitInv DEF Inv
  <2>2. Init => row.live
    BY SMTT(30) DEF Init
  <2> QED BY <2>1, <2>2
<1>2. ASSUME Ended, [Next]_vars
      PROVE  Ended' /\ (~row.live => ~row'.live /\ row'.access = None /\ row'.refresh = None)
  <2>1. CASE UNCHANGED vars
    BY <1>2, <2>1 DEF vars, TypeOK
  <2>2. CASE Next
    <3>1. CASE ~row.live
      BY <1>2, <2>2, <3>1, TypeStep, RowStep
    <3>2. CASE row.live
      BY <1>2, <2>2, <3>2, TypeStep, RowEndStep
    <3> QED BY <3>1, <3>2
  <2> QED BY <1>2, <2>1, <2>2
<1> QED BY <1>1, <1>2, PTL DEF Spec, RowStaysEnded
=============================================================================
