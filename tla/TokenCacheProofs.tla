-------------------------- MODULE TokenCacheProofs --------------------------
(***************************************************************************)
(* ServedTokenIsLive for every leeway and fetch timeout, every lifetime    *)
(* and any number of handshakes.  It rests on the bound that the           *)
(* cache overstates a token's life by at most the fetch timeout            *)
(* (OverstatedInv), which holds because the fetch that set it ran under    *)
(* the mutex and no longer than that (FetchInv).                           *)
(***************************************************************************)
EXTENDS TokenCache, TLAPS

MutexInv == \A h \in Handshakes : pc[h] = "fetching" => mu = h

FetchInv ==
  mu # None => started <= now /\ now <= started + FetchTimeout

OverstatedInv == token => expiresAt <= deadAt + FetchTimeout

IInv == TypeOK /\ MutexInv /\ FetchInv /\ OverstatedInv

-----------------------------------------------------------------------------
\* A duration that overflows comes out shorter than the seconds it was made
\* from, never longer.
LEMMA DurationShortens ==
  ASSUME NEW n \in Nat
  PROVE  Duration(n) \in Int /\ Duration(n) <= n
  <1> DEFINE m == 2 * DurationLimit
             x == n + DurationLimit
  <1>1. m \in Nat /\ m > 0 /\ x \in Nat
    BY TimesAssumption
  <1> HIDE DEF m, x
  <1>2. x \div m \in Nat /\ x % m \in 0..(m - 1)
    BY <1>1
  <1>3. x = m * (x \div m) + (x % m)
    BY <1>1
  <1>4. m * (x \div m) >= 0
    BY <1>1, <1>2
  <1>5. m * (x \div m) \in Int
    BY <1>1, <1>2
  <1>6. x % m <= x
    BY <1>1, <1>2, <1>3, <1>4, <1>5
  <1> QED  BY <1>1, <1>2, <1>6, TimesAssumption DEF Duration, m, x

\* The initial state satisfies the inductive invariant.
LEMMA InitIInv == Init => IInv
  <1> SUFFICES ASSUME Init PROVE IInv  OBVIOUS
  <1> USE TimesAssumption DEF Init
  <1>1. token \in BOOLEAN /\ ~token  BY Zenon
  <1>2. TypeOK  BY <1>1 DEF TypeOK
  <1>3. MutexInv /\ FetchInv  BY DEF MutexInv, FetchInv
  <1>4. OverstatedInv  BY <1>1 DEF OverstatedInv
  <1> QED  BY <1>2, <1>3, <1>4 DEF IInv

\* The start of a handshake, and the grant of the mutex, keep the invariant.
LEMMA AccessKeeps ==
  ASSUME IInv, NEW h \in Handshakes, Handshake(h) \/ AccessToken(h)
  PROVE  IInv'
  <1> USE TimesAssumption, NoneAssumption DEF IInv
  <1>1. UNCHANGED <<now, token, expiresAt, deadAt>>
    BY DEF Handshake, AccessToken
  <1>2. TypeOK'
    BY <1>1 DEF TypeOK, Handshake, AccessToken, Move
  <1>3. MutexInv'
    BY DEF TypeOK, MutexInv, Handshake, AccessToken, Move
  <1>4. FetchInv'
    BY <1>1 DEF TypeOK, FetchInv, Handshake, AccessToken
  <1>5. OverstatedInv'
    BY <1>1 DEF OverstatedInv
  <1> QED  BY <1>2, <1>3, <1>4, <1>5

\* The end of a fetch keeps the invariant: the token it caches was issued
\* after the request was sent, at most FetchTimeout ago.
LEMMA FetchKeeps ==
  ASSUME IInv, NEW h \in Handshakes, FetchEnds(h)
  PROVE  IInv'
  <1> USE TimesAssumption, NoneAssumption DEF IInv
  <1>1. /\ mu = h /\ mu' = None
        /\ pc[h] = "fetching"
        /\ pc' = [pc EXCEPT ![h] = "idle"]
        /\ UNCHANGED <<now, started>>
    BY DEF FetchEnds, FetchSucceeds, FetchFails, Unlock, Move, MutexInv
  <1>2. started <= now /\ now <= started + FetchTimeout
    BY <1>1 DEF FetchInv
  <1>3. MutexInv' /\ FetchInv'
    BY <1>1 DEF TypeOK, MutexInv, FetchInv
  <1>4. CASE FetchFails(h)
    BY <1>1, <1>3, <1>4 DEF FetchFails, TypeOK, OverstatedInv
  <1>5. CASE \E n \in Lifetimes : \E issued \in started..now : FetchSucceeds(h, n, issued)
    <2>1. PICK n \in Lifetimes, issued \in started..now : FetchSucceeds(h, n, issued)
      BY <1>5
    <2> DEFINE life == StatedLife(n)
    <2>2. life \in Nat
      BY DEF StatedLife
    <2>3. Duration(life) \in Int /\ Duration(life) <= life
      BY <2>2, DurationShortens
    <2>4. /\ token'
          /\ expiresAt' = now + Duration(life)
          /\ deadAt' = issued + life
      BY <2>1 DEF FetchSucceeds
    <2>5. token' \in BOOLEAN
      BY <2>1, Zenon DEF FetchSucceeds
    <2> HIDE DEF life
    <2>6. now \in Int /\ issued \in Int /\ started \in Int /\ issued >= started
      BY <2>1 DEF TypeOK
    <2>7. OverstatedInv'
      BY <1>2, <2>2, <2>3, <2>4, <2>6 DEF OverstatedInv
    <2>8. expiresAt' \in Int /\ deadAt' \in Int
      BY <2>2, <2>3, <2>4, <2>6
    <2>9. TypeOK'
      BY <1>1, <2>5, <2>8 DEF TypeOK
    <2> QED  BY <1>3, <2>7, <2>9
  <1> QED  BY <1>4, <1>5 DEF FetchEnds

\* The clock keeps the invariant: it waits for a fetch to end by its timeout.
LEMMA TickKeeps ==
  ASSUME IInv, Tick
  PROVE  IInv'
  <1> USE TimesAssumption DEF IInv, Tick
  <1>1. TypeOK'  BY DEF TypeOK
  <1>2. MutexInv' /\ OverstatedInv'  BY DEF MutexInv, OverstatedInv
  <1>3. FetchInv'  BY DEF TypeOK, FetchInv
  <1> QED  BY <1>1, <1>2, <1>3

\* The inductive invariant holds in every reachable state.
LEMMA Inductive == Spec => []IInv
  <1>1. IInv /\ [Next]_vars => IInv'
    <2> SUFFICES ASSUME IInv, [Next]_vars PROVE IInv'  OBVIOUS
    <2>1. CASE UNCHANGED vars
      BY <2>1 DEF vars, IInv, TypeOK, MutexInv, FetchInv, OverstatedInv
    <2>2. CASE \E h \in Handshakes : Handshake(h) \/ AccessToken(h) \/ FetchEnds(h)
      BY <2>2, AccessKeeps, FetchKeeps
    <2>3. CASE Tick
      BY <2>3, TickKeeps
    <2> QED  BY <2>1, <2>2, <2>3 DEF Next
  <1> QED  BY <1>1, InitIInv, PTL DEF Spec

-----------------------------------------------------------------------------
(***************************************************************************)
(* Type correctness of the token cache.                                    *)
(***************************************************************************)
THEOREM TypeCorrect == Spec => []TypeOK
  <1>1. IInv => TypeOK  BY DEF IInv
  <1> QED  BY <1>1, Inductive, PTL

(***************************************************************************)
(* A cached token the fetcher returns is still alive at its issuer's, for  *)
(* any lifetimes (accessToken); the margin is the excess of the leeway     *)
(* over the fetch timeout, which LeewayCoversFetch makes positive.         *)
(***************************************************************************)
THEOREM CacheServesLiveTokens == Spec => []ServedTokenIsLive
  <1>1. IInv => ServedTokenIsLive
    BY TimesAssumption DEF IInv, TypeOK, OverstatedInv, Serves, ServedTokenIsLive
  <1> QED  BY <1>1, Inductive, PTL
=============================================================================
