----------------------------- MODULE TokenCache -----------------------------
(***************************************************************************)
(* oidcTokenFetcher (bridge/oauth_oidc.go): broker handshakes share one    *)
(* cached access token.  accessToken holds the mutex across the HTTP       *)
(* fetch, so handshakes queue behind it; the fetch ends by the client's    *)
(* timeout.  The token's life starts when the identity provider issues it, *)
(* somewhere inside the fetch, but the cache counts it from the moment the *)
(* response was parsed.  Times are seconds.                                *)
(***************************************************************************)
EXTENDS Integers

CONSTANTS
  Handshakes,     \* concurrent SASL handshakes
  Lifetimes,      \* the expires_in values the endpoint may answer with
  Leeway,         \* oidcRefreshLeeway
  FetchTimeout,   \* authResolveTimeout, the HTTP client's timeout
  DurationLimit,  \* seconds beyond which time.Duration overflows
  MaxTime,        \* bound: the model's clock stops there
  None

ASSUME TimesAssumption ==
  /\ Leeway \in Nat /\ FetchTimeout \in Nat /\ MaxTime \in Nat
  /\ DurationLimit \in Nat \ {0}
  /\ Lifetimes \subseteq Int
ASSUME LeewayCoversFetch == FetchTimeout < Leeway     \* 20s and 30s
ASSUME NoneAssumption    == None \notin Handshakes

VARIABLES
  now,        \* the clock
  mu,         \* f.mu's holder, or None
  token,      \* whether f.token is set
  expiresAt,  \* f.expiresAt
  deadAt,     \* when the cached token really dies, by its issuer's account
  pc,         \* each handshake: "idle", "waiting" or "fetching"
  started     \* when the fetch in progress was sent

vars == <<now, mu, token, expiresAt, deadAt, pc, started>>

(***************************************************************************)
(* The type invariant: a duration that overflowed makes a time negative.   *)
(***************************************************************************)
TypeOK ==
  /\ now \in 0..MaxTime
  /\ mu \in Handshakes \cup {None}
  /\ token \in BOOLEAN
  /\ expiresAt \in Int
  /\ deadAt \in Int
  /\ pc \in [Handshakes -> {"idle", "waiting", "fetching"}]
  /\ started \in 0..MaxTime

Init ==
  /\ now = 0
  /\ mu = None
  /\ token = FALSE
  /\ expiresAt = 0
  /\ deadAt = 0
  /\ pc = [h \in Handshakes |-> "idle"]
  /\ started = 0

\* fetch: an expires_in that is absent, not a number or not positive is zero.
StatedLife(n) == IF n > 0 THEN n ELSE 0

\* time.Duration(expiresIn) * time.Second, in 64-bit nanoseconds.
Duration(n) == ((n + DurationLimit) % (2 * DurationLimit)) - DurationLimit

\* Mutant: the cache is used to the last second.
ServesToTheEnd == token /\ now < expiresAt

\* accessToken's test of the cache.
Serves == token /\ now < expiresAt - Leeway

Move(h, from, to) ==
  /\ pc[h] = from
  /\ pc' = [pc EXCEPT ![h] = to]

\* Mutant: an error return leaves the mutex locked.
UnlockForgotten(h) == Move(h, "fetching", "idle") /\ UNCHANGED mu

\* The deferred Unlock, as fetch's caller returns.
Unlock(h) == Move(h, "fetching", "idle") /\ mu' = None

-----------------------------------------------------------------------------
Handshake(h) ==
  /\ Move(h, "idle", "waiting")
  /\ UNCHANGED <<now, mu, token, expiresAt, deadAt, started>>

\* The mutex is granted: the cached token is returned, or a fetch is sent.
AccessToken(h) ==
  /\ mu = None
  /\ \/ /\ Serves
        /\ Move(h, "waiting", "idle")
        /\ UNCHANGED <<mu, started>>
     \/ /\ ~Serves
        /\ Move(h, "waiting", "fetching")
        /\ mu' = h
        /\ started' = now
  /\ UNCHANGED <<now, token, expiresAt, deadAt>>

\* Mutant: the duration is counted from a time still to come.
FetchSucceedsLate(h, n, issued) ==
  /\ Unlock(h)
  /\ token' = TRUE
  /\ expiresAt' = now + Duration(StatedLife(n)) + Leeway
  /\ deadAt' = issued + StatedLife(n)
  /\ UNCHANGED <<now, started>>

\* The response is parsed: the token was issued at some time since the
\* request was sent.
FetchSucceeds(h, n, issued) ==
  /\ Unlock(h)
  /\ token' = TRUE
  /\ expiresAt' = now + Duration(StatedLife(n))
  /\ deadAt' = issued + StatedLife(n)
  /\ UNCHANGED <<now, started>>

\* The request failed, timed out or was cancelled by the handshake's context,
\* or the response was not a token: the cache is left as it was.
FetchFails(h) ==
  /\ Unlock(h)
  /\ UNCHANGED <<now, token, expiresAt, deadAt, started>>

\* Time passes, but no fetch outlives the client's timeout.
Tick ==
  /\ now < MaxTime
  /\ mu # None => now < started + FetchTimeout
  /\ now' = now + 1
  /\ UNCHANGED <<mu, token, expiresAt, deadAt, pc, started>>

FetchEnds(h) ==
  \/ \E n \in Lifetimes : \E issued \in started..now : FetchSucceeds(h, n, issued)
  \/ FetchFails(h)

Next ==
  \/ \E h \in Handshakes : Handshake(h) \/ AccessToken(h) \/ FetchEnds(h)
  \/ Tick

\* A fetch ends, by its timeout if not before; Go's mutex starves no waiter.
Fairness == \A h \in Handshakes : WF_vars(FetchEnds(h)) /\ SF_vars(AccessToken(h))

Spec == Init /\ [][Next]_vars /\ Fairness

-----------------------------------------------------------------------------
(* Properties *)

(***************************************************************************)
(* "A request never travels with an almost-dead token": whenever the cache *)
(* would serve its token, the token is alive by its issuer's account for   *)
(* longer than the leeway exceeds the fetch timeout, however slow the      *)
(* fetch was that got it and even when its lifetime overflowed.            *)
(***************************************************************************)
ServedTokenIsLive == Serves => now + (Leeway - FetchTimeout) < deadAt

(***************************************************************************)
(* Every handshake gets an answer, though they queue behind a mutex held   *)
(* across an HTTP request (accessToken).                                   *)
(***************************************************************************)
HandshakeReturns == \A h \in Handshakes : pc[h] = "waiting" ~> pc[h] = "idle"
=============================================================================
