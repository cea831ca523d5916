------------------------------- MODULE Login -------------------------------
(***************************************************************************)
(* The logins: how a request comes to a verified identity, and the session *)
(* that follows.  By password (passwd.CookieLoginHandler and               *)
(* BearerLoginHandler over passwd.Verifier and its HasherGroup), by an     *)
(* identity provider's code (oidc.AuthCodeRequestHandler, then             *)
(* DirectExchangeCallbackHandler over Provider), and by a code an auth     *)
(* server exchanges (fwauthserver.DelegatedExchangeCallbackHandler, and on *)
(* the auth server oidc.DelegatedExchangeAuthCodeVerifyHandler).           *)
(*                                                                         *)
(* The cookie session that a login opens is module CookieSession; a bearer *)
(* session is one step here, its own module is BearerSession.              *)
(***************************************************************************)
EXTENDS CookieSession

CONSTANTS
    MaxConcurrentHashes,
    MaxTickets, MaxPasswords, MaxKeys    \* bounds

VARIABLES
    try,       \* try[w]: the login worker w verifies
    stored,    \* the user's stored encoding: of which password, by which hasher
    slots,     \* hashing slots in use
    tickets,   \* flow tickets issued so far
    flow,      \* flow[b]: the ticket in browser b's flow cookie, 0 for none
    used,      \* codes the identity provider has exchanged; a flow's code bears its ticket's number
    kid,       \* the provider's signing key
    jwks,      \* keys in Provider's cache
    recent,    \* the cache was fetched within jwksRefetchMinInterval
    logins,    \* logins[t]: identities verified through ticket t
    offered    \* the kinds of login the app wires

loginVars == <<try, stored, slots, tickets, flow, used, kid, jwks, recent, logins, offered>>
vars == <<sessionVars, loginVars>>

Ticket == 1..MaxTickets

\* HasherGroup: the current hasher makes encodings, an accepted one only verifies.
Current == "current"
Accepted == "accepted"

OwnKinds == {"own"}
PasswordKinds == {"password", "passwordBearer"}
FlowKinds == {"direct", "delegated"}
Try(kind, at, password, cookie, state) ==
    [kind |-> kind, at |-> at, password |-> password, encoding |-> [of |-> 0, by |-> Current],
     found |-> FALSE, flow |-> cookie, state |-> state, kid |-> 0, opened |-> FALSE]
NoTry == Try("none", "none", 0, 0, 0)

Init ==
    /\ SessionInit
    /\ try = [w \in Worker |-> NoTry]
    /\ stored = [of |-> 1, by |-> Accepted]
    /\ slots = 0
    /\ tickets = 0
    /\ flow = [b \in Browser |-> 0]
    /\ used = {}
    /\ kid = 1 /\ jwks = {} /\ recent = FALSE
    /\ logins = [t \in Ticket |-> 0]
    /\ offered \in {OwnKinds, PasswordKinds, FlowKinds}

Trying(w, c) == At(w, "verifying") /\ try[w].at = c
Move(w, c) == try' = [try EXCEPT ![w].at = c] /\ UNCHANGED sessionVars

\* A refusal ends the verification; the try is kept until the answer is delivered.
Refused(w) == Refuse(w) /\ try' = [try EXCEPT ![w].at = "none"]

\* A command of the verification fails: refused.
FaultRefused(w) ==
    /\ Fault
    /\ GoTo(w, "refused")
    /\ try' = [try EXCEPT ![w].at = "none"]
    /\ UNCHANGED <<born, ttl, list, listTTL, jar>>

-----------------------------------------------------------------------------
\* A login of the app's own, which calls CreateUserSession.
CreateUserSession(w, b) ==
    /\ "own" \in offered /\ At(w, "idle") /\ Room
    /\ job' = [job EXCEPT ![w] = Job(After("verifying"), b, 0)]
    /\ UNCHANGED <<born, ttl, list, listTTL, jar, faults, loginVars>>

(***************************************************************************)
(* By password.                                                            *)
(***************************************************************************)
\* A readable login request, with the password the user knows or an older, wrong one.
BeginPassword(w, b, kind) ==
    /\ BeginLogin(w, b)
    /\ \E p \in 1..stored.of :
          try' = [try EXCEPT ![w] = Try(kind, "lookup", p, 0, 0)]
    /\ UNCHANGED <<stored, slots, tickets, flow, used, kid, jwks, recent, logins, offered>>

\* Verify: the lookup, outside any slot; the name may be unknown.
Lookup(w) ==
    /\ Trying(w, "lookup")
    /\ \/ \E found \in BOOLEAN :
             try' = [try EXCEPT ![w].at = "slot", ![w].found = found, ![w].encoding = stored]
          /\ UNCHANGED sessionVars
       \/ FaultRefused(w)
    /\ UNCHANGED <<stored, slots, tickets, flow, used, kid, jwks, recent, logins, offered>>

\* A hashing slot, or the request's end.
TakeSlot(w) ==
    /\ Trying(w, "slot")
    /\ \/ slots < MaxConcurrentHashes /\ slots' = slots + 1 /\ Move(w, "hash")
       \/ UNCHANGED slots /\ FaultRefused(w)
    /\ UNCHANGED <<stored, tickets, flow, used, kid, jwks, recent, logins, offered>>

\* stale: another hasher's encoding.
Stale(encoding) == encoding.by # Current

SlotBackMatched(w) == slots' = IF try[w].found THEN slots - 1 ELSE slots
SlotBack(w) == slots' = slots - 1

\* An unknown name costs the same hash and gets the same answer as a wrong password; an encoding
\* that no hasher of the group owns fails.
Matches(w) == try[w].found /\ try[w].encoding.of = try[w].password

CheckPassword(w) ==
    /\ Trying(w, "hash")
    /\ \/ Matches(w) /\ Stale(try[w].encoding) /\ Move(w, "rehash") /\ UNCHANGED slots
       \/ Matches(w) /\ ~Stale(try[w].encoding) /\ Move(w, "resolve") /\ SlotBack(w)
       \/ ~Matches(w) /\ Refused(w) /\ SlotBack(w)
       \/ FaultRefused(w) /\ SlotBack(w)
    /\ UNCHANGED <<stored, tickets, flow, used, kid, jwks, recent, logins, offered>>

\* The app's replacement: only while the stored encoding is the one that was verified.
ReplacedAny(old, new) == new
Replaced(old, new) == IF stored = old THEN new ELSE stored

\* A rehash that cannot be made or stored is logged, never a failed login.
StoreRehash(w) ==
    /\ Trying(w, "rehash")
    /\ Move(w, "resolve") /\ SlotBack(w)
    /\ stored' \in {stored, Replaced(try[w].encoding, [of |-> try[w].password, by |-> Current])}
    /\ UNCHANGED <<tickets, flow, used, kid, jwks, recent, logins, offered>>

\* The app stores a new password.
ChangePassword ==
    /\ offered \cap PasswordKinds # {} /\ stored.of < MaxPasswords
    /\ stored' = [of |-> stored.of + 1, by |-> Current]
    /\ UNCHANGED <<sessionVars, try, slots, tickets, flow, used, kid, jwks, recent, logins, offered>>

-----------------------------------------------------------------------------
(***************************************************************************)
(* By a flow: ticket, code, ID token.                                      *)
(***************************************************************************)
\* AuthCodeRequestHandler: a fresh ticket, set as the browser's flow cookie in place of an older one.
IssueTicket(b) ==
    /\ offered \cap FlowKinds # {} /\ tickets < MaxTickets
    /\ tickets' = tickets + 1
    /\ flow' = [flow EXCEPT ![b] = tickets + 1]
    /\ UNCHANGED <<sessionVars, try, stored, slots, used, kid, jwks, recent, logins, offered>>

\* The provider sends the browser back, with the state of a flow it began and its code; the
\* request carries the flow cookie the browser has then.
BeginReturn(w, b, kind) ==
    /\ BeginLogin(w, b)
    /\ \E t \in 1..tickets :
          try' = [try EXCEPT ![w] = Try(kind, "consume", 0, flow[b], t)]
    /\ UNCHANGED <<stored, slots, tickets, flow, used, kid, jwks, recent, logins, offered>>

\* The cookie must be there and its ticket bear the returned state, and the return bring a code.
ConsumeTicket(w) ==
    /\ Trying(w, "consume")
    /\ \/ /\ try[w].flow = try[w].state
          /\ Move(w, IF try[w].kind = "delegated" THEN "forward" ELSE "exchange")
       \/ Refused(w)
    /\ UNCHANGED <<stored, slots, tickets, flow, used, kid, jwks, recent, logins, offered>>

\* Of a delegated flow: the auth server must know the client, and the client the provider's.
Forward(w) ==
    /\ Trying(w, "forward")
    /\ Move(w, "exchange") \/ Refused(w)
    /\ UNCHANGED <<stored, slots, tickets, flow, used, kid, jwks, recent, logins, offered>>

ExchangeAnyway(w) ==
    /\ Trying(w, "exchange")
    /\ used' = used \cup {try[w].state}
    /\ try' = [try EXCEPT ![w].at = "key", ![w].kid = kid]
    /\ UNCHANGED <<sessionVars, stored, slots, tickets, flow, kid, jwks, recent, logins, offered>>

\* VerifyAuthCode, the exchange: the provider takes a code once.
Exchange(w) ==
    /\ Trying(w, "exchange")
    /\ \/ /\ try[w].state \notin used
          /\ used' = used \cup {try[w].state}
          /\ try' = [try EXCEPT ![w].at = "key", ![w].kid = kid]
          /\ UNCHANGED sessionVars
       \/ try[w].state \in used /\ Refused(w) /\ UNCHANGED used
       \/ FaultRefused(w) /\ used' \in {used, used \cup {try[w].state}}
    /\ UNCHANGED <<stored, slots, tickets, flow, kid, jwks, recent, logins, offered>>

\* The keys the provider publishes: the current one and the one before.
Published == {kid - 1, kid}

\* The rest of VerifyAuthCode: signature, nonce, required claims, subject.
IDTokenChecked(w) ==
    \/ Move(w, IF try[w].kind = "delegated" THEN "prepare" ELSE "resolve")
    \/ Refused(w)

\* keyByKID, under the cache's mutex: a cached key; else, no fetch within the interval; else a
\* fetch, which replaces the cache.
KeyByKID(w) ==
    /\ Trying(w, "key")
    /\ \/ /\ try[w].kid \in jwks
          /\ IDTokenChecked(w)
          /\ UNCHANGED <<jwks, recent>>
       \/ /\ try[w].kid \notin jwks /\ recent
          /\ Refused(w) /\ UNCHANGED <<jwks, recent>>
       \/ /\ try[w].kid \notin jwks /\ ~recent
          /\ jwks' = Published /\ recent' = TRUE
          /\ IF try[w].kid \in Published
             THEN IDTokenChecked(w)
             ELSE Refused(w)
       \/ /\ try[w].kid \notin jwks /\ ~recent
          /\ FaultRefused(w) /\ UNCHANGED <<jwks, recent>>
    /\ UNCHANGED <<stored, slots, tickets, flow, used, kid, logins, offered>>

\* The provider changes its key; the interval passes.
RotateKey ==
    /\ offered \cap FlowKinds # {} /\ kid < MaxKeys
    /\ kid' = kid + 1
    /\ UNCHANGED <<sessionVars, try, stored, slots, tickets, flow, used, jwks, recent, logins, offered>>

IntervalPasses ==
    /\ recent
    /\ recent' = FALSE
    /\ UNCHANGED <<sessionVars, try, stored, slots, tickets, flow, used, kid, jwks, logins, offered>>

-----------------------------------------------------------------------------
(***************************************************************************)
(* The user, and the session.                                              *)
(***************************************************************************)
\* The app resolves the identity to its user, or refuses it.  A cookie login goes on to its
\* session; a bearer login has its answer to prepare.
Resolve(w) ==
    /\ Trying(w, "resolve")
    /\ \/ Refused(w) /\ UNCHANGED logins
       \/ /\ try[w].kind = "passwordBearer"
          /\ Move(w, "prepare") /\ UNCHANGED logins
       \/ /\ try[w].kind # "passwordBearer"
          /\ Verified(w)
          /\ try' = [try EXCEPT ![w].at = "none"]
          /\ logins' = IF try[w].kind \in FlowKinds
                       THEN [logins EXCEPT ![try[w].state] = @ + 1] ELSE logins
    /\ UNCHANGED <<stored, slots, tickets, flow, used, kid, jwks, recent, offered>>

\* A bearer login ends in this order: its ID token is signed before the session opens.
BearerOrder(c) == CASE c = "prepare" -> "sign" [] c = "sign" -> "open" [] c = "open" -> "done"

\* DelegatedExchangeAuthCodeVerifyHandler and BearerLoginHandler before the session opens: Resolve,
\* Admit, ExtendResponse.
Prepare(w) ==
    /\ Trying(w, "prepare")
    /\ Move(w, BearerOrder("prepare")) \/ Refused(w)
    /\ UNCHANGED <<stored, slots, tickets, flow, used, kid, jwks, recent, logins, offered>>

SignIDToken(w) ==
    /\ Trying(w, "sign")
    /\ Move(w, BearerOrder("sign")) \/ Refused(w)
    /\ UNCHANGED <<stored, slots, tickets, flow, used, kid, jwks, recent, logins, offered>>

\* CreateSession: see BearerSession.  A failed one is refused.
OpenBearer(w) ==
    /\ Trying(w, "open")
    /\ \/ /\ try' = [try EXCEPT ![w].at = BearerOrder("open"), ![w].opened = TRUE]
          /\ UNCHANGED sessionVars
       \/ FaultRefused(w)
    /\ UNCHANGED <<stored, slots, tickets, flow, used, kid, jwks, recent, logins, offered>>

\* A bearer login answers its tokens.
BearerDone(w) ==
    /\ Trying(w, "done") /\ try[w].kind = "passwordBearer"
    /\ Answer(w, Leave)
    /\ try' = [try EXCEPT ![w].at = "none"]
    /\ UNCHANGED <<born, ttl, list, listTTL, jar, faults>>
    /\ UNCHANGED <<stored, slots, tickets, flow, used, kid, jwks, recent, logins, offered>>

\* fwauthserver.Verifier.VerifyAuthCode, once the auth server has answered: the app fetches the auth
\* server's keys, checks its ID token and goes on to its own user; the answer may be lost.
VerifyDelegated(w) ==
    /\ Trying(w, "done") /\ try[w].kind = "delegated"
    /\ Move(w, "resolve") \/ Refused(w)
    /\ UNCHANGED <<stored, slots, tickets, flow, used, kid, jwks, recent, logins, offered>>

\* The answer to a flow's return clears the flow cookie, whatever the answer is.
LoginDeliver(w) ==
    /\ Deliver(w)
    /\ flow' = IF try[w].kind \in FlowKinds THEN [flow EXCEPT ![job[w].by] = 0] ELSE flow
    /\ try' = [try EXCEPT ![w] = NoTry]
    /\ UNCHANGED <<stored, slots, tickets, used, kid, jwks, recent, logins, offered>>

LoginStep(w) ==
    \/ \E b \in Browser :
          \/ CreateUserSession(w, b)
          \/ \E kind \in offered \cap PasswordKinds : BeginPassword(w, b, kind)
          \/ \E kind \in offered \cap FlowKinds : BeginReturn(w, b, kind)
    \/ Lookup(w) \/ TakeSlot(w) \/ CheckPassword(w) \/ StoreRehash(w)
    \/ ConsumeTicket(w) \/ Forward(w) \/ Exchange(w) \/ KeyByKID(w)
    \/ Resolve(w) \/ Prepare(w) \/ SignIDToken(w) \/ OpenBearer(w) \/ BearerDone(w)
    \/ VerifyDelegated(w)
    \/ LoginDeliver(w)
    \/ SessionStep(w) /\ UNCHANGED loginVars

Next ==
    \/ \E w \in Worker : LoginStep(w)
    \/ \E b \in Browser : IssueTicket(b)
    \/ ChangePassword
    \/ RotateKey \/ IntervalPasses
    \/ Tick /\ UNCHANGED loginVars

\* A request that can go on does: the Go scheduler starves no goroutine, and nothing in a handler
\* waits for another request but the hashing slot, whose channel serves its senders in turn (strong
\* fairness: the slot is taken from a waiter again and again, but not forever).
Going(w) ==
    \/ Lookup(w) \/ TakeSlot(w) \/ CheckPassword(w) \/ StoreRehash(w)
    \/ ConsumeTicket(w) \/ Forward(w) \/ Exchange(w) \/ KeyByKID(w)
    \/ Resolve(w) \/ Prepare(w) \/ SignIDToken(w) \/ OpenBearer(w) \/ BearerDone(w)
    \/ VerifyDelegated(w)
    \/ LoginDeliver(w)
    \/ ~At(w, "idle") /\ SessionStep(w) /\ UNCHANGED loginVars

Spec == Init /\ [][Next]_vars /\ \A w \in Worker : WF_vars(Going(w)) /\ SF_vars(TakeSlot(w))

(***************************************************************************)
(* Properties.                                                             *)
(***************************************************************************)
\* A login that is refused has cost the user nothing: no session row was deleted for it
\* (NewUserSessionID: "a login makes the ID, and everything else that can fail, before
\* StoreUserSession - whose cap eviction then can no longer be followed by a failure"), and a
\* bearer login has opened no session (BearerLoginHandler: "a failed signing leaves no session
\* behind"), with whatever failures of the store.
RefusedLoginCostsNothing ==
    \A w \in Worker : At(w, "refused") =>
        ~job[w].cost /\ (try[w].kind = "passwordBearer" => ~try[w].opened)

\* The cap holds, and costs a user a session only for one that was opened.
CapServesLogins == CapHolds /\ RefusedLoginCostsNothing

\* A ticket opens one session at most: the two requests a double-clicked or replayed return makes
\* may both find the cookie, and at most one of them gets past the code exchange.
OneLoginPerTicket == \A t \in Ticket : logins[t] <= 1

\* A password changed while a login of the old one is being rehashed stays changed, and no
\* encoding falls back to an accepted hasher (StoreRehashFunc: "so a password changed meanwhile,
\* or another login's rehash, wins").
ChangedPasswordStands ==
    [][stored'.of >= stored.of /\ (stored.by = Current => stored'.by = Current)]_vars

\* Every login is answered: a hashing slot comes back on every path, so that none waits forever.
EveryLoginAnswers == \A w \in Worker : At(w, "verifying") ~> At(w, "idle")
=============================================================================
