--------------------------- MODULE MetricsProofs ---------------------------
(***************************************************************************)
(* The scrape endpoint, alone and inside the metrics pipeline, and what    *)
(* the pipeline's counters and scrapes show.                               *)
(*                                                                         *)
(* EndpointClosedAfterDrop and AtMostOneLateAnswer hold of Exporter for    *)
(* any number of requests and restarts.  Both need what the owner's state  *)
(* says of the thread's: who holds the server (HoldersInv), and that an    *)
(* answer given after stop was stored sends the thread back to the flag    *)
(* (LateInv).  Metrics keeps the two promises because, whatever builds,    *)
(* sinks and scrapes do, the endpoint's own state moves as Exporter says.  *)
(*                                                                         *)
(* TotalsAddUp holds of Metrics for any number of goroutines and packets.  *)
(* Its invariant is a ledger: for every packet how many of its updates are *)
(* made, for every goroutine at which packet it is, and every counter the  *)
(* sum of what the updates made so far add, modulo 2^64.  While no counter *)
(* has wrapped it only rises, and CountersNeverFall and                    *)
(* NextScrapeHasTheMessages follow from what a scrape has read of it.      *)
(***************************************************************************)
EXTENDS Metrics, WellFoundedInduction, TLAPS

HoldersInv ==
  /\ owner = "none"  => loop = "none" /\ servers = {}
  /\ owner # "none"  => loop # "none" /\ "handle" \in servers
  /\ loop = "left"   => "thread" \notin servers
  /\ owner = "none"  => listener # "open"

LateInv ==
  /\ owner = "held" => stop = FALSE
  /\ late <= 1
  /\ late = 1 => stop = TRUE /\ loop \in {"check", "left", "none"}

IInv == TypeOK /\ HoldersInv /\ LateInv

-----------------------------------------------------------------------------
\* Nothing is held before the first serve_exposition.
LEMMA InitIInv == Init => IInv
<1> SUFFICES ASSUME Init PROVE IInv
  OBVIOUS
<1>1. stop \in BOOLEAN /\ wake \in BOOLEAN
  BY Zenon DEF Init
<1> QED  BY <1>1 DEF Init, IInv, TypeOK, HoldersInv, LateInv

\* What the owner of the handle does keeps the invariant.
LEMMA OwnerKeeps ==
  ASSUME IInv,
         (\E taken \in BOOLEAN : ServeExposition(taken)) \/ StoreStop \/ Unblock \/ Join
  PROVE  IInv'
<1> USE DEF IInv
<1>1. TypeOK'
  <2>1. stop' \in BOOLEAN /\ wake' \in BOOLEAN
    BY Zenon DEF TypeOK, ServeExposition, StoreStop, Unblock, Join
  <2>2. /\ owner' \in {"none", "held", "stored", "woken"}
        /\ loop' \in {"none", "check", "recv", "respond", "left"}
        /\ servers' \subseteq {"handle", "thread"}
        /\ listener' \in {"none", "open", "closing"}
    BY DEF TypeOK, Release, ServeExposition, StoreStop, Unblock, Join
  <2>3. queue' \in Nat /\ late' \in Nat /\ sent' \in Nat /\ serves' \in Nat
    BY DEF TypeOK, ServeExposition, StoreStop, Unblock, Join
  <2> QED  BY <2>1, <2>2, <2>3 DEF TypeOK
<1>2. HoldersInv'
  BY DEF TypeOK, HoldersInv, Release, ServeExposition, StoreStop, Unblock, Join
<1>3. LateInv'
  BY DEF TypeOK, HoldersInv, LateInv, Release, ServeExposition, StoreStop, Unblock, Join
<1> QED  BY <1>1, <1>2, <1>3

\* What the serve loop and the scrapers do keeps it.
LEMMA LoopKeeps ==
  ASSUME IInv,
         CheckStop \/ Receive \/ ReceiveNothing \/ ReceiveFails \/ Respond \/ Scrape
           \/ AcceptEnds
  PROVE  IInv'
<1> USE DEF IInv
<1>1. TypeOK'
  <2>1. stop' \in BOOLEAN /\ wake' \in BOOLEAN
    BY Zenon DEF TypeOK, CheckStop, Receive, ReceiveNothing, ReceiveFails, Respond, Scrape,
                 AcceptEnds
  <2>2. /\ owner' \in {"none", "held", "stored", "woken"}
        /\ loop' \in {"none", "check", "recv", "respond", "left"}
        /\ servers' \subseteq {"handle", "thread"}
        /\ listener' \in {"none", "open", "closing"}
    BY DEF TypeOK, Release, Leave, CheckStop, Receive, ReceiveNothing, ReceiveFails, Respond, Scrape,
           AcceptEnds
  <2>3. queue' \in Nat /\ late' \in Nat /\ sent' \in Nat /\ serves' \in Nat
    BY DEF TypeOK, CheckStop, Receive, ReceiveNothing, ReceiveFails, Respond, Scrape, AcceptEnds
  <2> QED  BY <2>1, <2>2, <2>3 DEF TypeOK
<1>2. HoldersInv'
  BY DEF TypeOK, HoldersInv, Release, Leave, CheckStop, Receive, ReceiveNothing, ReceiveFails,
         Respond, Scrape, AcceptEnds
<1>3. LateInv'
  BY DEF TypeOK, LateInv, Leave, CheckStop, Receive, ReceiveNothing, ReceiveFails, Respond, Scrape,
         AcceptEnds
<1> QED  BY <1>1, <1>2, <1>3

\* Every step of the endpoint keeps it.
LEMMA NextKeeps == IInv /\ [Next]_vars => IInv'
<1> SUFFICES ASSUME IInv, [Next]_vars PROVE IInv'
  OBVIOUS
<1>1. CASE UNCHANGED vars
  BY <1>1 DEF vars, IInv, TypeOK, HoldersInv, LateInv
<1> QED  BY <1>1, OwnerKeeps, LoopKeeps DEF Next

\* The inductive invariant of the endpoint: its type, who holds the listener
\* and when an answer can still be late.
THEOREM Invariant == Spec => []IInv
  BY InitIInv, NextKeeps, PTL DEF Spec

\* The endpoint's state is well formed, for any number of requests.
THEOREM TypeCorrect == Spec => []TypeOK
<1>1. IInv => TypeOK
  BY DEF IInv
<1> QED  BY <1>1, Invariant, PTL

\* A drop that returned has left no Arc<Server>, so that tiny_http is closing
\* the listener, or has closed it: shutdown() joined the thread first.
THEOREM EndpointClosed == Spec => []EndpointClosedAfterDrop
<1>1. IInv => EndpointClosedAfterDrop
  BY DEF IInv, HoldersInv, EndpointClosedAfterDrop
<1> QED  BY <1>1, Invariant, PTL

\* At most one request is answered after stop was stored, however many wait.
THEOREM FewLateAnswers == Spec => []AtMostOneLateAnswer
<1>1. IInv => AtMostOneLateAnswer
  BY DEF IInv, LateInv, AtMostOneLateAnswer
<1> QED  BY <1>1, Invariant, PTL

-----------------------------------------------------------------------------
(* The endpoint inside the pipeline *)

\* A registry for the host's own endpoint binds nothing.
RegistryInv == mode = "registry" => owner = "none"

\* No endpoint is bound before the first build.
LEMMA MetricsInitImplementsInit == MetricsInit => Init /\ RegistryInv
  BY DEF MetricsInit, Init, RegistryInv

\* A step of the pipeline is a step of the endpoint, or leaves it alone.
LEMMA MetricsNextImplementsNext ==
  ASSUME RegistryInv, [MetricsNext]_allVars
  PROVE  [Next]_vars /\ RegistryInv'
<1>1. CASE \E taken \in BOOLEAN : RealiseServe(taken)
  BY <1>1 DEF RealiseServe, RegistryInv, Next
<1>2. CASE RealiseRegistry
  <2>1. ServeExposition(TRUE)
    BY <1>2 DEF RealiseRegistry, RegistryInv, ServeExposition
  <2> QED  BY <1>2, <2>1 DEF RealiseRegistry, RegistryInv, Next
<1>3. CASE BuildFails
  BY <1>3 DEF BuildFails, StoreStop, RegistryInv, Next, vars
<1>4. CASE RollbackJoins
  BY <1>4 DEF RollbackJoins, Join, RegistryInv, Next
<1>5. CASE (\E t \in Threads : FinishScrape(t)) \/ RespondRefused
  <2>1. Respond \/ UNCHANGED vars
    BY <1>5 DEF FinishScrape, RespondRefused
  <2>2. mode' = mode
    BY <1>5 DEF FinishScrape, RespondRefused
  <2> QED  BY <2>1, <2>2 DEF Respond, RegistryInv, Next, vars
<1>6. CASE \/ Alone(Unblock) \/ Alone(CheckStop) \/ Alone(Receive) \/ Alone(ReceiveNothing)
           \/ Alone(ReceiveFails) \/ Alone(Scrape) \/ Alone(AcceptEnds)
  BY <1>6 DEF Alone, Unblock, CheckStop, Receive, ReceiveNothing, ReceiveFails, Scrape,
              AcceptEnds, RegistryInv, Next
<1>7. CASE UNCHANGED <<vars, mode>>
  BY <1>7 DEF vars, RegistryInv
<1>8. BuildSucceeds \/ (\E t \in Threads : StartScrape(t) \/ ReadFamily(t))
        => UNCHANGED <<vars, mode>>
  BY DEF BuildSucceeds, StartScrape, ReadFamily
<1>9. /\ (\E w \in Workers, m \in Messages : ReportMessage(w, m)) => UNCHANGED <<vars, mode>>
      /\ (\E b \in Flushes : FlushBandwidth(b)) => UNCHANGED <<vars, mode>>
      /\ (\E g \in Workers \cup {Aggregator} : Apply(g)) => UNCHANGED <<vars, mode>>
  BY DEF ReportMessage, FlushBandwidth, Report, Apply
<1>10. CASE UNCHANGED allVars
  BY <1>7, <1>10 DEF allVars
<1> QED  BY <1>1, <1>2, <1>3, <1>4, <1>5, <1>6, <1>7, <1>8, <1>9, <1>10 DEF MetricsNext

\* The pipeline implements the endpoint's specification, but for its
\* fairness.
THEOREM ImplementsEndpoint == MetricsSpec => Init /\ [][Next]_vars
<1>1. RegistryInv /\ [MetricsNext]_allVars => [Next]_vars /\ RegistryInv'
  BY MetricsNextImplementsNext
<1> QED  BY <1>1, MetricsInitImplementsInit, PTL DEF MetricsSpec

\* Within a build that fails and is tried again, a dropped endpoint is closed or
\* being closed by tiny_http, with nothing of ours left to hold it, and
\* answered at most one request after it was told to stop.
THEOREM EndpointPromises == MetricsSpec => []EndpointClosedAfterDrop /\ []AtMostOneLateAnswer
<1>1. Init /\ [][Next]_vars => []IInv
  BY InitIInv, NextKeeps, PTL
<1>2. IInv => EndpointClosedAfterDrop /\ AtMostOneLateAnswer
  BY DEF IInv, HoldersInv, LateInv, EndpointClosedAfterDrop, AtMostOneLateAnswer
<1> QED  BY <1>1, <1>2, ImplementsEndpoint, PTL

-----------------------------------------------------------------------------
(***************************************************************************)
(* Induction.  A set of naturals with 0 and the successor of each of its   *)
(* elements is Nat: the smallest natural outside it would have a           *)
(* predecessor inside.                                                     *)
(***************************************************************************)
\* A set of naturals has a smallest element.
LEMMA SmallestOf ==
  ASSUME NEW T, T \subseteq Nat, T # {}
  PROVE  \E x \in T : \A y \in T : x <= y
<1> DEFINE R == OpToRel(<, Nat)
<1>1. IsWellFoundedOn(R, Nat)
  BY NatLessThanWellFounded
<1>2. \A i, j \in Nat : i < j => <<i, j>> \in R
  BY DEF OpToRel
<1> HIDE DEF R
<1>3. PICK x \in T : \A y \in T : ~(<<y, x>> \in R)
  BY <1>1, WFMin
<1>4. \A y \in T : ~(y < x) /\ y \in Nat /\ x \in Nat
  BY <1>2, <1>3
<1> QED  BY <1>3, <1>4

\* Induction, as a fact about sets.
LEMMA Induction ==
  ASSUME NEW S, S \subseteq Nat, 0 \in S, \A n \in S : n + 1 \in S
  PROVE  \A n \in Nat : n \in S
<1> SUFFICES ASSUME Nat \ S # {} PROVE FALSE
  OBVIOUS
<1>1. PICK x \in Nat \ S : \A y \in Nat \ S : x <= y
  BY SmallestOf
<1>2. x - 1 \in S
  BY <1>1
<1> QED  BY <1>1, <1>2

-----------------------------------------------------------------------------
(* Sums *)

\* t holds the sums of the first 0 to N elements of f.
SumsUpTo(t, f, N) == t = [i \in 0..N |-> IF i = 0 THEN 0 ELSE t[i - 1] + f[i]]

\* There are such sums, up to any place.
LEMMA SumsExist == ASSUME NEW f, NEW N \in Nat PROVE \E t : SumsUpTo(t, f, N)
<1> DEFINE S == {M \in Nat : \E t : SumsUpTo(t, f, M)}
<1>1. 0 \in S
  <2>1. SumsUpTo([i \in 0..0 |-> 0], f, 0)
    BY DEF SumsUpTo
  <2> QED  BY <2>1
<1>2. ASSUME NEW M \in S PROVE M + 1 \in S
  <2>1. PICK t : SumsUpTo(t, f, M)
    OBVIOUS
  <2> DEFINE u == [i \in 0..(M + 1) |-> IF i = M + 1 THEN t[M] + f[M + 1] ELSE t[i]]
  <2>2. ASSUME NEW i \in 0..(M + 1)
        PROVE  u[i] = IF i = 0 THEN 0 ELSE u[i - 1] + f[i]
    <3>1. CASE i = M + 1
      <4>1. i # 0 /\ i - 1 = M /\ M \in 0..(M + 1) /\ M # M + 1
        BY <3>1
      <4> QED  BY <3>1, <4>1
    <3>2. CASE i # M + 1
      <4>1. i \in 0..M /\ (i # 0 => i - 1 \in 0..(M + 1) /\ i - 1 # M + 1)
        BY <3>2
      <4>2. t[i] = IF i = 0 THEN 0 ELSE t[i - 1] + f[i]
        BY <2>1, <4>1 DEF SumsUpTo
      <4> QED  BY <3>2, <4>1, <4>2
    <3> QED  BY <3>1, <3>2
  <2>3. u = [i \in 0..(M + 1) |-> IF i = 0 THEN 0 ELSE u[i - 1] + f[i]]
    BY <2>2
  <2>4. SumsUpTo(u, f, M + 1)
    BY <2>3 DEF SumsUpTo
  <2> QED  BY <2>4
<1>3. \A n \in Nat : n \in S
  <2> HIDE DEF S
  <2> QED  BY <1>1, <1>2, Induction DEF S
<1> QED  BY <1>3

\* The sums up to a place do not depend on how far they go on.
LEMMA SumsAgree ==
  ASSUME NEW f, NEW t, NEW u, NEW N \in Nat, SumsUpTo(t, f, N), SumsUpTo(u, f, N + 1)
  PROVE  t[N] = u[N]
<1> DEFINE S == {n \in Nat : n <= N => t[n] = u[n]}
<1>1. 0 \in S
  BY DEF SumsUpTo
<1>2. ASSUME NEW n \in S PROVE n + 1 \in S
  <2> SUFFICES ASSUME n + 1 <= N PROVE t[n + 1] = u[n + 1]
    OBVIOUS
  <2>1. t[n] = u[n] /\ n + 1 \in 0..N /\ n + 1 \in 0..(N + 1) /\ n + 1 # 0 /\ (n + 1) - 1 = n
    OBVIOUS
  <2>2. t[n + 1] = t[n] + f[n + 1]
    BY <2>1 DEF SumsUpTo
  <2>3. u[n + 1] = u[n] + f[n + 1]
    BY <2>1 DEF SumsUpTo
  <2> QED  BY <2>1, <2>2, <2>3
<1>3. \A n \in Nat : n \in S
  <2> HIDE DEF S
  <2> QED  BY <1>1, <1>2, Induction DEF S
<1> QED  BY <1>3

\* What SumTo computes, one element after another.
LEMMA SumSteps ==
  ASSUME NEW f
  PROVE  SumTo(f, 0) = 0 /\ \A n \in Nat : SumTo(f, n + 1) = SumTo(f, n) + f[n + 1]
<1> DEFINE some(n) == CHOOSE t : SumsUpTo(t, f, n)
           T == [i \in Nat |-> some(i)[i]]
           total == CHOOSE t : t = [i \in Nat |-> IF i = 0 THEN 0 ELSE t[i - 1] + f[i]]
<1>1. ASSUME NEW n \in Nat PROVE SumsUpTo(some(n), f, n)
  BY SumsExist
<1> HIDE DEF some
<1>2. ASSUME NEW i \in Nat PROVE T[i] = IF i = 0 THEN 0 ELSE T[i - 1] + f[i]
  <2>1. CASE i = 0
    <3>1. some(0) = [j \in 0..0 |-> IF j = 0 THEN 0 ELSE some(0)[j - 1] + f[j]]
      BY <1>1 DEF SumsUpTo
    <3>2. some(0)[0] = 0
      BY <3>1
    <3> QED  BY <2>1, <3>2
  <2>2. CASE i # 0
    <3> DEFINE j == i - 1
    <3>1. j \in Nat /\ i = j + 1
      BY <2>2
    <3>2. SumsUpTo(some(j), f, j) /\ SumsUpTo(some(j + 1), f, j + 1)
      BY <1>1, <3>1
    <3>3. some(j)[j] = some(j + 1)[j]
      BY <3>1, <3>2, SumsAgree
    <3>4. some(i)[i] = some(i)[i - 1] + f[i]
      <4>1. some(i) = [k \in 0..i |-> IF k = 0 THEN 0 ELSE some(i)[k - 1] + f[k]]
        BY <1>1 DEF SumsUpTo
      <4>2. i \in 0..i
        OBVIOUS
      <4> QED  BY <2>2, <4>1, <4>2, Zenon
    <3>5. T[i] = some(i)[i] /\ T[j] = some(j)[j]
      BY <3>1
    <3> HIDE DEF T
    <3> QED  BY <2>2, <3>1, <3>3, <3>4, <3>5
  <2> QED  BY <2>1, <2>2
<1>3. T = [i \in Nat |-> IF i = 0 THEN 0 ELSE T[i - 1] + f[i]]
  BY <1>2
<1> HIDE DEF T
<1>4. total = [i \in Nat |-> IF i = 0 THEN 0 ELSE total[i - 1] + f[i]]
  BY <1>3
<1>5. \A n : SumTo(f, n) = total[n]
  BY DEF SumTo
<1> HIDE DEF total
<1>6. total[0] = 0
  BY <1>4
<1>7. ASSUME NEW n \in Nat PROVE total[n + 1] = total[n] + f[n + 1]
  <2>1. n + 1 \in Nat /\ n + 1 # 0 /\ (n + 1) - 1 = n
    OBVIOUS
  <2>2. total[n + 1] = IF n + 1 = 0 THEN 0 ELSE total[(n + 1) - 1] + f[n + 1]
    BY <1>4, <2>1, Zenon
  <2> QED  BY <2>1, <2>2
<1> QED  BY <1>5, <1>6, <1>7

\* Sums of naturals are naturals.
LEMMA SumNat ==
  ASSUME NEW f, NEW N \in Nat, \A i \in 1..N : f[i] \in Nat
  PROVE  \A n \in 0..N : SumTo(f, n) \in Nat
<1> DEFINE S == {n \in Nat : n <= N => SumTo(f, n) \in Nat}
<1>1. 0 \in S
  BY SumSteps
<1>2. ASSUME NEW n \in S PROVE n + 1 \in S
  <2> SUFFICES ASSUME n + 1 <= N PROVE SumTo(f, n + 1) \in Nat
    OBVIOUS
  <2>1. SumTo(f, n) \in Nat /\ n + 1 \in 1..N /\ n \in Nat
    OBVIOUS
  <2> QED  BY <2>1, SumSteps
<1>3. \A n \in Nat : n \in S
  <2> HIDE DEF S
  <2> QED  BY <1>1, <1>2, Induction DEF S
<1> QED  BY <1>3

\* A sum of naturals grows with the number of its terms.
LEMMA SumMonotone ==
  ASSUME NEW f, NEW N \in Nat, \A i \in 1..N : f[i] \in Nat, NEW m \in 0..N
  PROVE  SumTo(f, m) <= SumTo(f, N)
<1> DEFINE S == {d \in Nat : m + d <= N => SumTo(f, m) <= SumTo(f, m + d)}
<1>0. \A n \in 0..N : SumTo(f, n) \in Nat
  BY SumNat
<1>1. 0 \in S
  BY <1>0
<1>2. ASSUME NEW d \in S PROVE d + 1 \in S
  <2> SUFFICES ASSUME m + (d + 1) <= N PROVE SumTo(f, m) <= SumTo(f, m + (d + 1))
    OBVIOUS
  <2> DEFINE n == m + d
  <2>1. SumTo(f, m) <= SumTo(f, n) /\ n + 1 \in 1..N /\ n \in Nat /\ n \in 0..N
        /\ m + (d + 1) = n + 1
    OBVIOUS
  <2> HIDE DEF n, S
  <2>2. SumTo(f, n + 1) = SumTo(f, n) + f[n + 1] /\ f[n + 1] \in Nat
    BY <2>1, SumSteps
  <2>3. SumTo(f, n) \in Nat /\ SumTo(f, m) \in Nat
    BY <1>0, <2>1
  <2>4. SumTo(f, m) <= SumTo(f, n + 1)
    BY <2>1, <2>2, <2>3
  <2> QED  BY <2>1, <2>4
<1>3. \A d \in Nat : d \in S
  <2> HIDE DEF S
  <2> QED  BY <1>1, <1>2, Induction DEF S
<1>4. N - m \in Nat /\ m + (N - m) = N
  OBVIOUS
<1> QED  BY <1>3, <1>4

\* A sum of smaller terms is smaller.
LEMMA SumLess ==
  ASSUME NEW f, NEW g, NEW N \in Nat,
         \A i \in 1..N : f[i] \in Nat /\ g[i] \in Nat /\ f[i] <= g[i]
  PROVE  SumTo(f, N) <= SumTo(g, N)
<1> DEFINE S == {n \in Nat : n <= N => SumTo(f, n) <= SumTo(g, n)}
<1>0. \A n \in 0..N : SumTo(f, n) \in Nat /\ SumTo(g, n) \in Nat
  BY SumNat
<1>1. 0 \in S
  BY <1>0, SumSteps
<1>2. ASSUME NEW n \in S PROVE n + 1 \in S
  <2> SUFFICES ASSUME n + 1 <= N PROVE SumTo(f, n + 1) <= SumTo(g, n + 1)
    OBVIOUS
  <2>1. SumTo(f, n) <= SumTo(g, n) /\ n + 1 \in 1..N /\ n \in Nat /\ n \in 0..N
    OBVIOUS
  <2> HIDE DEF S
  <2>2. SumTo(f, n + 1) = SumTo(f, n) + f[n + 1] /\ SumTo(g, n + 1) = SumTo(g, n) + g[n + 1]
    BY <2>1, SumSteps
  <2>3. f[n + 1] \in Nat /\ g[n + 1] \in Nat /\ f[n + 1] <= g[n + 1]
        /\ SumTo(f, n) \in Nat /\ SumTo(g, n) \in Nat
    BY <1>0, <2>1
  <2> QED  BY <2>1, <2>2, <2>3
<1>3. \A n \in Nat : n \in S
  <2> HIDE DEF S
  <2> QED  BY <1>1, <1>2, Induction DEF S
<1> QED  BY <1>3

\* A sum of the same terms is the same.
LEMMA SumSame ==
  ASSUME NEW f, NEW g, NEW N \in Nat, \A i \in 1..N : f[i] = g[i]
  PROVE  SumTo(f, N) = SumTo(g, N)
<1> DEFINE S == {n \in Nat : n <= N => SumTo(f, n) = SumTo(g, n)}
<1>1. 0 \in S
  BY SumSteps
<1>2. ASSUME NEW n \in S PROVE n + 1 \in S
  <2> SUFFICES ASSUME n + 1 <= N PROVE SumTo(f, n + 1) = SumTo(g, n + 1)
    OBVIOUS
  <2>1. SumTo(f, n) = SumTo(g, n) /\ n + 1 \in 1..N /\ n \in Nat
    OBVIOUS
  <2> HIDE DEF S
  <2>2. SumTo(f, n + 1) = SumTo(f, n) + f[n + 1] /\ SumTo(g, n + 1) = SumTo(g, n) + g[n + 1]
    BY <2>1, SumSteps
  <2> QED  BY <2>1, <2>2
<1>3. \A n \in Nat : n \in S
  <2> HIDE DEF S
  <2> QED  BY <1>1, <1>2, Induction DEF S
<1> QED  BY <1>3

\* A sum of nothing is 0.
LEMMA SumZero ==
  ASSUME NEW f, NEW N \in Nat, \A i \in 1..N : f[i] = 0
  PROVE  SumTo(f, N) = 0
<1> DEFINE S == {n \in Nat : n <= N => SumTo(f, n) = 0}
<1>1. 0 \in S
  BY SumSteps
<1>2. ASSUME NEW n \in S PROVE n + 1 \in S
  <2> SUFFICES ASSUME n + 1 <= N PROVE SumTo(f, n + 1) = 0
    OBVIOUS
  <2>1. SumTo(f, n) = 0 /\ n + 1 \in 1..N /\ n \in Nat
    OBVIOUS
  <2> HIDE DEF S
  <2> QED  BY <2>1, SumSteps
<1>3. \A n \in Nat : n \in S
  <2> HIDE DEF S
  <2> QED  BY <1>1, <1>2, Induction DEF S
<1> QED  BY <1>3

\* One term that grows by d makes the sum grow by d.
LEMMA SumGrows ==
  ASSUME NEW f, NEW g, NEW N \in Nat, NEW a \in 1..N, NEW d \in Nat,
         \A i \in 1..N : f[i] \in Nat, g[a] = f[a] + d,
         \A i \in 1..N : i # a => g[i] = f[i]
  PROVE  SumTo(g, N) = SumTo(f, N) + d
<1> DEFINE S == {n \in Nat : n <= N => SumTo(g, n) = SumTo(f, n) + (IF n < a THEN 0 ELSE d)}
<1>0. \A n \in 0..N : SumTo(f, n) \in Nat
  BY SumNat
<1>1. 0 \in S
  BY SumSteps
<1>2. ASSUME NEW n \in S PROVE n + 1 \in S
  <2> SUFFICES ASSUME n + 1 <= N
               PROVE  SumTo(g, n + 1) = SumTo(f, n + 1) + (IF n + 1 < a THEN 0 ELSE d)
    OBVIOUS
  <2>1. SumTo(g, n) = SumTo(f, n) + (IF n < a THEN 0 ELSE d) /\ n + 1 \in 1..N /\ n \in Nat
        /\ n \in 0..N
    OBVIOUS
  <2> HIDE DEF S
  <2>2. SumTo(f, n + 1) = SumTo(f, n) + f[n + 1] /\ SumTo(g, n + 1) = SumTo(g, n) + g[n + 1]
    BY <2>1, SumSteps
  <2>3. f[n + 1] \in Nat /\ SumTo(f, n) \in Nat
    BY <1>0, <2>1
  <2>4. CASE n + 1 = a
    <3>1. g[n + 1] = f[n + 1] + d /\ n < a /\ ~(n + 1 < a)
      BY <2>1, <2>4
    <3> QED  BY <2>1, <2>2, <2>3, <3>1
  <2>5. CASE n + 1 # a
    <3>1. g[n + 1] = f[n + 1] /\ (n < a <=> n + 1 < a)
      BY <2>1, <2>5
    <3> QED  BY <2>1, <2>2, <2>3, <3>1
  <2> QED  BY <2>4, <2>5
<1>3. \A n \in Nat : n \in S
  <2> HIDE DEF S
  <2> QED  BY <1>1, <1>2, Induction DEF S
<1>4. SumTo(g, N) = SumTo(f, N) + (IF N < a THEN 0 ELSE d)
  BY <1>3
<1> QED  BY <1>4

\* h is f and behind it g, their lengths being m and N.
Joins(h, f, m, g, N) ==
  /\ m \in Nat /\ N \in Nat
  /\ \A i \in 1..m : h[i] = f[i] /\ f[i] \in Nat
  /\ \A i \in 1..N : h[m + i] = g[i] /\ g[i] \in Nat

\* The sum of the two together is the sum of their sums.
LEMMA SumConcat ==
  ASSUME NEW f, NEW g, NEW h, NEW m, NEW N, Joins(h, f, m, g, N)
  PROVE  SumTo(h, m + N) = SumTo(f, m) + SumTo(g, N)
<1> USE DEF Joins
<1> DEFINE S == {n \in Nat : n <= N => SumTo(h, m + n) = SumTo(f, m) + SumTo(g, n)}
<1>0. SumTo(f, m) \in Nat /\ \A n \in 0..N : SumTo(g, n) \in Nat
  BY SumNat
<1>1. 0 \in S
  <2>1. SumTo(h, m) = SumTo(f, m)
    BY SumSame
  <2>2. m + 0 = m /\ SumTo(g, 0) = 0
    BY SumSteps
  <2> QED  BY <1>0, <2>1, <2>2
<1>2. ASSUME NEW n \in S PROVE n + 1 \in S
  <2> SUFFICES ASSUME n + 1 <= N
               PROVE  SumTo(h, m + (n + 1)) = SumTo(f, m) + SumTo(g, n + 1)
    OBVIOUS
  <2>1. SumTo(h, m + n) = SumTo(f, m) + SumTo(g, n) /\ n + 1 \in 1..N /\ n \in Nat
        /\ n \in 0..N /\ m + n \in Nat /\ (m + n) + 1 = m + (n + 1)
    OBVIOUS
  <2> HIDE DEF S
  <2>2. SumTo(g, n + 1) = SumTo(g, n) + g[n + 1]
    BY <2>1, SumSteps
  <2>3. SumTo(h, m + (n + 1)) = SumTo(h, m + n) + h[m + (n + 1)]
    <3>1. SumTo(h, (m + n) + 1) = SumTo(h, m + n) + h[(m + n) + 1]
      BY <2>1, SumSteps
    <3> QED  BY <2>1, <3>1
  <2>4. h[m + (n + 1)] = g[n + 1] /\ g[n + 1] \in Nat /\ SumTo(g, n) \in Nat
    BY <1>0, <2>1
  <2> QED  BY <1>0, <2>1, <2>2, <2>3, <2>4
<1>3. \A n \in Nat : n \in S
  <2> HIDE DEF S
  <2> QED  BY <1>1, <1>2, Induction DEF S
<1> QED  BY <1>3

\* The only multiple of M between -M and M is 0.
LEMMA MultipleFar ==
  ASSUME NEW M \in Nat, M > 0, NEW d \in Int, M * d < M, -M < M * d
  PROVE  d = 0
<1>1. d >= 1 => M * d >= M
  OBVIOUS
<1>2. d <= -1 => M * d <= -M
  <2> SUFFICES ASSUME d <= -1 PROVE M * d <= -M
    OBVIOUS
  <2> DEFINE e == -d
  <2>1. e \in Nat /\ e >= 1 /\ d = -e
    OBVIOUS
  <2> HIDE DEF e
  <2>2. M * e >= M
    BY <2>1
  <2>3. M * (-e) = -(M * e)
    BY <2>1
  <2>4. M * e \in Int
    BY <2>1
  <2> QED  BY <2>1, <2>2, <2>3, <2>4
<1> QED  BY <1>1, <1>2

\* A remainder is what a quotient leaves.
LEMMA Remainder ==
  ASSUME NEW M \in Nat, M > 0, NEW a \in Nat, NEW p \in Int, NEW n \in Nat, n < M, a = M * p + n
  PROVE  a % M = n
<1> DEFINE q == a \div M
           m == a % M
           d == p - q
<1>1. q \in Int /\ m \in Nat /\ m < M /\ a = M * q + m
  OBVIOUS
<1> HIDE DEF q, m
<1>2. d \in Int /\ M * d = M * p - M * q /\ M * p \in Int /\ M * q \in Int
  BY <1>1
<1> HIDE DEF d
<1>3. M * d = m - n
  BY <1>1, <1>2
<1>4. d = 0
  BY <1>1, <1>2, <1>3, MultipleFar
<1>5. M * d = 0
  BY <1>4
<1>6. m = n
  BY <1>1, <1>3, <1>5
<1> QED  BY <1>6 DEF m

\* To wrap at every addition is to wrap once at the end.
LEMMA WrapOnce ==
  ASSUME NEW M \in Nat, M > 0, NEW x \in Nat, NEW c \in Nat
  PROVE  ((x % M) + c) % M = (x + c) % M
<1> DEFINE q == x \div M
           m == x % M
           y == m + c
           p == y \div M
           n == y % M
<1>1. q \in Int /\ m \in Nat /\ x = M * q + m
  OBVIOUS
<1> HIDE DEF q, m
<1>2. y \in Nat
  BY <1>1
<1> HIDE DEF y
<1>3. p \in Int /\ n \in Nat /\ n < M /\ y = M * p + n
  BY <1>2
<1> HIDE DEF p, n
<1>4. M * q \in Int /\ M * p \in Int /\ M * (q + p) = M * q + M * p /\ q + p \in Int
  BY <1>1, <1>3
<1>5. x + c = M * (q + p) + n
  BY <1>1, <1>2, <1>3, <1>4 DEF y
<1>6. x + c \in Nat
  OBVIOUS
<1>7. (x + c) % M = n
  BY <1>3, <1>4, <1>5, <1>6, Remainder
<1> QED  BY <1>7 DEF n, y, m

-----------------------------------------------------------------------------
(* Lists of updates *)

\* An update names a series; it adds a natural, or sets what no counter is.
GoodUpdate(u) ==
  \E f, l : /\ u.series = <<f, l>>
            /\ \/ u.set = FALSE /\ u.value \in Nat
               \/ u.set = TRUE /\ f \notin AddingFamilies

UpdateList(us) == (\E T : us \in Seq(T)) /\ \A j \in 1..Len(us) : GoodUpdate(us[j])

\* What an update, and the first n of a list, add to a series.
Contribution(u, s)    == IF ~u.set /\ u.series = s THEN u.value ELSE 0
Contributions(us, s)  == [j \in 1..Len(us) |-> Contribution(us[j], s)]
Amount(us, n, s)      == SumTo(Contributions(us, s), n)
WholeAmount(us, s)    == Amount(us, Len(us), s)

\* A good update adds a natural to any series.
LEMMA ContributionNat == ASSUME NEW u, GoodUpdate(u), NEW s PROVE Contribution(u, s) \in Nat
  BY DEF GoodUpdate, Contribution

\* What a list adds grows update by update, up to what the whole list adds.
LEMMA AmountSteps ==
  ASSUME NEW us, UpdateList(us), NEW s
  PROVE  /\ Amount(us, 0, s) = 0
         /\ \A n \in 0..Len(us) : Amount(us, n, s) \in Nat
         /\ \A n \in 0..Len(us) : Amount(us, n, s) <= WholeAmount(us, s)
         /\ \A n \in Nat : n + 1 <= Len(us) =>
              Amount(us, n + 1, s) = Amount(us, n, s) + Contribution(us[n + 1], s)
<1> DEFINE c == Contributions(us, s)
<1>1. Len(us) \in Nat
  BY DEF UpdateList
<1>2. \A j \in 1..Len(us) : c[j] = Contribution(us[j], s) /\ c[j] \in Nat
  BY ContributionNat DEF Contributions, UpdateList
<1> HIDE DEF c
<1>3. SumTo(c, 0) = 0 /\ \A n \in Nat : SumTo(c, n + 1) = SumTo(c, n) + c[n + 1]
  BY SumSteps
<1>4. \A n \in 0..Len(us) : SumTo(c, n) \in Nat
  BY <1>1, <1>2, SumNat
<1>5. \A n \in 0..Len(us) : SumTo(c, n) <= SumTo(c, Len(us))
  BY <1>1, <1>2, SumMonotone
<1>6. ASSUME NEW n \in Nat, n + 1 <= Len(us)
      PROVE  SumTo(c, n + 1) = SumTo(c, n) + Contribution(us[n + 1], s)
  <2>1. n + 1 \in 1..Len(us)
    BY <1>1, <1>6
  <2> QED  BY <1>2, <1>3, <2>1
<1> QED  BY <1>3, <1>4, <1>5, <1>6 DEF Amount, WholeAmount, c

\* The empty list adds nothing.
LEMMA ListNone == UpdateList(<<>>) /\ \A s : WholeAmount(<<>>, s) = 0
<1>1. <<>> \in Seq({}) /\ Len(<<>>) = 0
  OBVIOUS
<1>2. UpdateList(<<>>)
  BY <1>1 DEF UpdateList
<1> QED  BY <1>1, <1>2, AmountSteps DEF WholeAmount

\* A list of one adds what its update adds.
LEMMA ListOne ==
  ASSUME NEW u, GoodUpdate(u)
  PROVE  UpdateList(<<u>>) /\ \A s : WholeAmount(<<u>>, s) = Contribution(u, s)
<1>1. <<u>> \in Seq({u}) /\ Len(<<u>>) = 1 /\ <<u>>[1] = u
  OBVIOUS
<1>2. UpdateList(<<u>>)
  <2>1. \A j \in 1..Len(<<u>>) : j = 1
    BY <1>1
  <2>2. \A j \in 1..Len(<<u>>) : GoodUpdate(<<u>>[j])
    BY <1>1, <2>1
  <2>3. \E T : <<u>> \in Seq(T)
    BY <1>1
  <2> QED  BY <2>2, <2>3 DEF UpdateList
<1>3. ASSUME NEW s PROVE WholeAmount(<<u>>, s) = Contribution(u, s)
  <2>1. 0 \in Nat /\ 0 + 1 = 1 /\ 0 + 1 <= 1
    OBVIOUS
  <2>2. Amount(<<u>>, 0 + 1, s) = Amount(<<u>>, 0, s) + Contribution(<<u>>[0 + 1], s)
    BY <1>1, <1>2, <2>1, AmountSteps
  <2>3. Amount(<<u>>, 0, s) = 0 /\ Contribution(u, s) \in Nat
    BY <1>2, AmountSteps, ContributionNat
  <2> QED  BY <1>1, <2>1, <2>2, <2>3 DEF WholeAmount
<1> QED  BY <1>2, <1>3

\* Two lists, one behind the other, add what each of them adds.
LEMMA ListConcat ==
  ASSUME NEW A, NEW B, UpdateList(A), UpdateList(B)
  PROVE  /\ UpdateList(A \o B)
         /\ \A s : /\ WholeAmount(A \o B, s) = WholeAmount(A, s) + WholeAmount(B, s)
                   /\ WholeAmount(A, s) \in Nat /\ WholeAmount(B, s) \in Nat
<1>1. PICK T : A \in Seq(T)
  BY DEF UpdateList
<1>2. PICK V : B \in Seq(V)
  BY DEF UpdateList
<1> DEFINE C == A \o B  W == T \cup V
<1>3. A \in Seq(W) /\ B \in Seq(W)
  BY <1>1, <1>2
<1>4. /\ C \in Seq(W) /\ Len(C) = Len(A) + Len(B) /\ Len(A) \in Nat /\ Len(B) \in Nat
      /\ \A i \in 1..Len(A) : C[i] = A[i]
      /\ \A i \in 1..Len(B) : C[Len(A) + i] = B[i]
      /\ \A i \in 1..Len(C) : i \in 1..Len(A) \/ i - Len(A) \in 1..Len(B)
  BY <1>3
<1> HIDE DEF C, W
<1>5. UpdateList(C)
  <2>1. ASSUME NEW j \in 1..Len(C) PROVE GoodUpdate(C[j])
    <3>1. CASE j \in 1..Len(A)
      BY <1>4, <3>1 DEF UpdateList
    <3>2. CASE j - Len(A) \in 1..Len(B)
      <4> DEFINE i == j - Len(A)
      <4>1. i \in 1..Len(B) /\ Len(A) + i = j
        BY <1>4, <3>2
      <4> HIDE DEF i
      <4> QED  BY <1>4, <4>1 DEF UpdateList
    <3> QED  BY <1>4, <3>1, <3>2
  <2> QED  BY <1>4, <2>1 DEF UpdateList
<1>6. ASSUME NEW s
      PROVE  /\ WholeAmount(C, s) = WholeAmount(A, s) + WholeAmount(B, s)
             /\ WholeAmount(A, s) \in Nat /\ WholeAmount(B, s) \in Nat
  <2> DEFINE f == Contributions(A, s)
             g == Contributions(B, s)
             h == Contributions(C, s)
  <2>1. \A i \in 1..Len(A) : f[i] = Contribution(A[i], s) /\ f[i] \in Nat
    BY ContributionNat DEF Contributions, UpdateList
  <2>2. \A i \in 1..Len(B) : g[i] = Contribution(B[i], s) /\ g[i] \in Nat
    BY ContributionNat DEF Contributions, UpdateList
  <2>3. \A i \in 1..Len(C) : h[i] = Contribution(C[i], s)
    BY DEF Contributions
  <2> HIDE DEF f, g, h
  <2>4. \A i \in 1..Len(A) : h[i] = f[i]
    <3>1. \A i \in 1..Len(A) : i \in 1..Len(C)
      BY <1>4
    <3> QED  BY <1>4, <2>1, <2>3, <3>1
  <2>5. \A i \in 1..Len(B) : h[Len(A) + i] = g[i]
    <3>1. \A i \in 1..Len(B) : Len(A) + i \in 1..Len(C)
      BY <1>4
    <3> QED  BY <1>4, <2>2, <2>3, <3>1
  <2> DEFINE a == Len(A)
             b == Len(B)
  <2>6. /\ a \in Nat /\ b \in Nat /\ Len(C) = a + b
        /\ \A i \in 1..a : h[i] = f[i]
        /\ \A i \in 1..b : h[a + i] = g[i]
        /\ \A i \in 1..a : f[i] \in Nat
        /\ \A i \in 1..b : g[i] \in Nat
    BY <1>4, <2>1, <2>2, <2>4, <2>5
  <2> HIDE DEF a, b
  <2>7. SumTo(h, a + b) = SumTo(f, a) + SumTo(g, b)
    <3>1. Joins(h, f, a, g, b)
      BY <2>6 DEF Joins
    <3> QED  BY <3>1, SumConcat
  <2>8. a \in 0..a /\ b \in 0..b
    BY <2>6
  <2>9. SumTo(f, a) \in Nat /\ SumTo(g, b) \in Nat
    BY <2>6, <2>8, SumNat
  <2> QED  BY <2>6, <2>7, <2>9 DEF WholeAmount, Amount, f, g, h, a, b
<1> QED  BY <1>5, <1>6 DEF C

\* A conditional increment adds to its own series, if its condition holds.
LEMMA ListIncIf ==
  ASSUME NEW condition, NEW family, NEW label, NEW n \in Nat
  PROVE  /\ UpdateList(IncIf(condition, family, label, n))
         /\ \A f, l : WholeAmount(IncIf(condition, family, label, n), <<f, l>>) =
                        IF condition /\ f = family /\ l = label THEN n ELSE 0
<1> DEFINE u == Inc(family, label, n)
<1>1. u.set = FALSE /\ u.series = <<family, label>> /\ u.value = n
  BY DEF Inc
<1> HIDE DEF u
<1>2. GoodUpdate(u)
  BY <1>1 DEF GoodUpdate
<1>3. CASE condition
  <2>1. IncIf(condition, family, label, n) = <<u>>
    BY <1>3 DEF IncIf, u
  <2>2. \A f, l : Contribution(u, <<f, l>>) = IF f = family /\ l = label THEN n ELSE 0
    BY <1>1 DEF Contribution
  <2> QED  BY <1>2, <1>3, <2>1, <2>2, ListOne
<1>4. CASE ~condition
  <2>1. IncIf(condition, family, label, n) = <<>>
    BY <1>4 DEF IncIf
  <2> QED  BY <1>4, <2>1, ListNone
<1> QED  BY <1>3, <1>4

\* Setting a gauge adds nothing to any series.
LEMMA ListSet ==
  ASSUME NEW family, family \notin AddingFamilies, NEW label, NEW n
  PROVE  /\ UpdateList(<<Set(family, label, n)>>)
         /\ \A s : WholeAmount(<<Set(family, label, n)>>, s) = 0
<1> DEFINE u == Set(family, label, n)
<1>1. u.set = TRUE /\ u.series = <<family, label>>
  BY DEF Set
<1> HIDE DEF u
<1>2. GoodUpdate(u)
  BY <1>1 DEF GoodUpdate
<1>3. \A s : Contribution(u, s) = 0
  BY <1>1 DEF Contribution
<1> QED  BY <1>2, <1>3, ListOne DEF u

\* f holds the parts up to each place, one after another.
Flattens(f, parts, N) == f = [i \in 1..N |-> IF i = 1 THEN parts[i] ELSE f[i - 1] \o parts[i]]

\* There are such flattenings, up to any place.
LEMMA FlattenExists == ASSUME NEW parts, NEW N \in Nat PROVE \E f : Flattens(f, parts, N)
<1> DEFINE S == {M \in Nat : \E f : Flattens(f, parts, M)}
<1>1. 0 \in S
  <2>1. Flattens([i \in 1..0 |-> parts[i]], parts, 0)
    BY DEF Flattens
  <2> QED  BY <2>1
<1>2. ASSUME NEW M \in S PROVE M + 1 \in S
  <2>1. PICK f : Flattens(f, parts, M)
    OBVIOUS
  <2> DEFINE g == [i \in 1..(M + 1) |->
                     IF i = M + 1 THEN (IF i = 1 THEN parts[i] ELSE f[M] \o parts[M + 1]) ELSE f[i]]
  <2>2. ASSUME NEW i \in 1..(M + 1)
        PROVE  g[i] = IF i = 1 THEN parts[i] ELSE g[i - 1] \o parts[i]
    <3>1. CASE i = M + 1 /\ i = 1
      BY <3>1
    <3>2. CASE i = M + 1 /\ i # 1
      <4>1. i - 1 = M /\ i - 1 \in 1..(M + 1) /\ i - 1 # M + 1
        BY <3>2
      <4>2. g[i - 1] = f[M]
        BY <4>1
      <4> QED  BY <3>2, <4>2
    <3>3. CASE i # M + 1
      <4>1. i \in 1..M /\ (i # 1 => i - 1 \in 1..(M + 1) /\ i - 1 # M + 1)
        BY <3>3
      <4>2. f[i] = IF i = 1 THEN parts[i] ELSE f[i - 1] \o parts[i]
        BY <2>1, <4>1 DEF Flattens
      <4>3. g[i] = f[i] /\ (i # 1 => g[i - 1] = f[i - 1])
        BY <3>3, <4>1
      <4> HIDE DEF g
      <4> QED  BY <4>2, <4>3
    <3> QED  BY <3>1, <3>2, <3>3
  <2>3. Flattens(g, parts, M + 1)
    BY <2>2 DEF Flattens
  <2> QED  BY <2>3
<1>3. \A M \in Nat : M \in S
  <2> HIDE DEF S
  <2> QED  BY <1>1, <1>2, Induction DEF S
<1> QED  BY <1>3

\* A list of lists, one behind the other, adds what its parts add.
LEMMA ListFlatten ==
  ASSUME NEW parts, parts \in Seq(Range(parts)), \A i \in 1..Len(parts) : UpdateList(parts[i])
  PROVE  /\ UpdateList(FlattenSeq(parts))
         /\ \A s, c : (\A i \in 1..Len(parts) : c[i] = WholeAmount(parts[i], s)) =>
                        WholeAmount(FlattenSeq(parts), s) = SumTo(c, Len(parts))
<1> DEFINE N == Len(parts)
           f == CHOOSE g : Flattens(g, parts, N)
<1>1. N \in Nat /\ (N = 0 => parts = <<>>)
  OBVIOUS
<1>2. Flattens(f, parts, N)
  BY <1>1, FlattenExists
<1>3. FlattenSeq(parts) = IF N = 0 THEN parts ELSE f[N]
  BY DEF FlattenSeq, Flattens
<1>4. \A i \in 1..N : UpdateList(parts[i])
  OBVIOUS
<1> HIDE DEF f, N
<1>5. ASSUME NEW s, NEW c, \A i \in 1..N : c[i] = WholeAmount(parts[i], s)
      PROVE  \A n \in Nat : n + 1 <= N => /\ UpdateList(f[n + 1])
                                          /\ WholeAmount(f[n + 1], s) = SumTo(c, n + 1)
  <2> DEFINE S == {n \in Nat : n + 1 <= N => /\ UpdateList(f[n + 1])
                                             /\ WholeAmount(f[n + 1], s) = SumTo(c, n + 1)}
  <2>0. SumTo(c, 0) = 0 /\ \A n \in Nat : SumTo(c, n + 1) = SumTo(c, n) + c[n + 1]
    BY SumSteps
  <2>1. 0 \in S
    <3> SUFFICES ASSUME 0 + 1 <= N
                 PROVE  UpdateList(f[0 + 1]) /\ WholeAmount(f[0 + 1], s) = SumTo(c, 0 + 1)
      OBVIOUS
    <3>1. 1 \in 1..N /\ 0 + 1 = 1 /\ 0 \in Nat
      BY <1>1
    <3>2. f[1] = parts[1]
      BY <1>2, <3>1 DEF Flattens
    <3>3. UpdateList(parts[1]) /\ c[1] = WholeAmount(parts[1], s)
      BY <1>4, <1>5, <3>1
    <3>4. c[1] \in Nat
      BY <3>3, ListNone, ListConcat
    <3>5. SumTo(c, 1) = c[1]
      BY <2>0, <3>1, <3>4
    <3> QED  BY <3>1, <3>2, <3>3, <3>5
  <2>2. ASSUME NEW n \in S PROVE n + 1 \in S
    <3> DEFINE m == n + 1
    <3> SUFFICES ASSUME m + 1 <= N
                 PROVE  UpdateList(f[m + 1]) /\ WholeAmount(f[m + 1], s) = SumTo(c, m + 1)
      OBVIOUS
    <3>1. /\ m \in Nat /\ m + 1 \in 1..N /\ m \in 1..N /\ m + 1 # 1 /\ (m + 1) - 1 = m
          /\ UpdateList(f[m]) /\ WholeAmount(f[m], s) = SumTo(c, m)
      BY <1>1
    <3> HIDE DEF m, S
    <3>2. f[m + 1] = f[m] \o parts[m + 1]
      <4>1. f[m + 1] = IF m + 1 = 1 THEN parts[m + 1] ELSE f[(m + 1) - 1] \o parts[m + 1]
        BY <1>2, <3>1, Zenon DEF Flattens
      <4> QED  BY <3>1, <4>1
    <3>3. UpdateList(parts[m + 1]) /\ c[m + 1] = WholeAmount(parts[m + 1], s)
      BY <1>4, <1>5, <3>1
    <3>4. UpdateList(f[m + 1])
          /\ WholeAmount(f[m + 1], s) = WholeAmount(f[m], s) + WholeAmount(parts[m + 1], s)
      BY <3>1, <3>2, <3>3, ListConcat
    <3>5. SumTo(c, m + 1) = SumTo(c, m) + c[m + 1]
      BY <2>0, <3>1
    <3> QED  BY <3>1, <3>3, <3>4, <3>5
  <2>3. \A n \in Nat : n \in S
    <3> HIDE DEF S
    <3> QED  BY <2>1, <2>2, Induction DEF S
  <2> QED  BY <2>3
<1>6. CASE N = 0
  <2>1. FlattenSeq(parts) = <<>>
    BY <1>1, <1>3, <1>6
  <2>2. \A c : SumTo(c, N) = 0
    BY <1>6, SumSteps
  <2> QED  BY <2>1, <2>2, ListNone DEF N
<1>7. CASE N # 0
  <2> DEFINE n == N - 1
  <2>1. n \in Nat /\ n + 1 = N /\ n + 1 <= N
    BY <1>1, <1>7
  <2> HIDE DEF n
  <2>2. FlattenSeq(parts) = f[N]
    BY <1>3, <1>7
  <2>3. ASSUME NEW s, NEW c, \A i \in 1..N : c[i] = WholeAmount(parts[i], s)
        PROVE  UpdateList(f[N]) /\ WholeAmount(f[N], s) = SumTo(c, N)
    BY <1>5, <2>1, <2>3
  <2>4. UpdateList(f[N])
    <3> DEFINE s == CHOOSE s : TRUE
               c == [i \in 1..N |-> WholeAmount(parts[i], s)]
    <3>1. \A i \in 1..N : c[i] = WholeAmount(parts[i], s)
      OBVIOUS
    <3> HIDE DEF s, c
    <3> QED  BY <2>3, <3>1
  <2> QED  BY <2>2, <2>3, <2>4 DEF N
<1> QED  BY <1>6, <1>7

-----------------------------------------------------------------------------
(* The families, and what a sink's call adds *)

\* The elements of a concatenation are those of its parts.
LEMMA SetOfConcat ==
  ASSUME NEW T, NEW A \in Seq(T), NEW B \in Seq(T)
  PROVE  A \o B \in Seq(T) /\ ToSet(A \o B) = ToSet(A) \cup ToSet(B)
<1> DEFINE C == A \o B
<1>1. /\ C \in Seq(T) /\ Len(C) = Len(A) + Len(B) /\ Len(A) \in Nat /\ Len(B) \in Nat
      /\ \A i \in 1..Len(A) : C[i] = A[i]
      /\ \A i \in 1..Len(B) : C[Len(A) + i] = B[i]
      /\ \A i \in 1..Len(C) : i \in 1..Len(A) \/ i - Len(A) \in 1..Len(B)
      /\ DOMAIN C = 1..Len(C) /\ DOMAIN A = 1..Len(A) /\ DOMAIN B = 1..Len(B)
  OBVIOUS
<1> HIDE DEF C
<1>2. ASSUME NEW x \in ToSet(C) PROVE x \in ToSet(A) \cup ToSet(B)
  <2>1. PICK i \in 1..Len(C) : x = C[i]
    BY <1>1 DEF ToSet
  <2>2. CASE i \in 1..Len(A)
    BY <1>1, <2>1, <2>2 DEF ToSet
  <2>3. CASE i - Len(A) \in 1..Len(B)
    <3> DEFINE j == i - Len(A)
    <3>1. j \in 1..Len(B) /\ Len(A) + j = i
      BY <1>1, <2>3
    <3> HIDE DEF j
    <3> QED  BY <1>1, <2>1, <3>1 DEF ToSet
  <2> QED  BY <1>1, <2>1, <2>2, <2>3
<1>3. ASSUME NEW x \in ToSet(A) PROVE x \in ToSet(C)
  <2>1. PICK i \in 1..Len(A) : x = A[i]
    BY <1>1 DEF ToSet
  <2>2. i \in 1..Len(C)
    BY <1>1
  <2> QED  BY <1>1, <2>1, <2>2 DEF ToSet
<1>4. ASSUME NEW x \in ToSet(B) PROVE x \in ToSet(C)
  <2>1. PICK i \in 1..Len(B) : x = B[i]
    BY <1>1 DEF ToSet
  <2>2. Len(A) + i \in 1..Len(C)
    BY <1>1
  <2> QED  BY <1>1, <2>1, <2>2 DEF ToSet
<1>5. ToSet(C) = ToSet(A) \cup ToSet(B)
  BY <1>2, <1>3, <1>4
<1> QED  BY <1>1, <1>5 DEF C

\* The families of each kind, and all the counters, as sets.
LEMMA FamiliesAre ==
  /\ ToSet(Conditions) = {"errored", "panicked", "dead_lettered", "duplicate", "used_overflow"}
  /\ ToSet(PartitionCounters) = {"received_bytes", "transmitted_bytes", "received_messages"}
  /\ ToSet(CompressionCounters) = {"compressed_bytes", "uncompressed_bytes"}
  /\ ToSet(Histograms) =
       {"process_duration", "dead_letter_duration", "queue_wait_duration"}
  /\ ToSet(CounterFamilies) =
       {"processed"} \cup ToSet(Conditions) \cup ToSet(PartitionCounters)
       \cup ToSet(CompressionCounters)
  /\ CounterFamilies \in Seq(ToSet(CounterFamilies))
<1>1. ToSet(Conditions) = {"errored", "panicked", "dead_lettered", "duplicate", "used_overflow"}
  <2>1. DOMAIN Conditions = {1, 2, 3, 4, 5}
    BY DEF Conditions
  <2>2. /\ Conditions[1] = "errored" /\ Conditions[2] = "panicked"
        /\ Conditions[3] = "dead_lettered" /\ Conditions[4] = "duplicate"
        /\ Conditions[5] = "used_overflow"
    BY DEF Conditions
  <2> QED  BY <2>1, <2>2 DEF ToSet
<1>2. ToSet(PartitionCounters) = {"received_bytes", "transmitted_bytes", "received_messages"}
  <2>1. DOMAIN PartitionCounters = {1, 2, 3}
    BY DEF PartitionCounters
  <2>2. /\ PartitionCounters[1] = "received_bytes" /\ PartitionCounters[2] = "transmitted_bytes"
        /\ PartitionCounters[3] = "received_messages"
    BY DEF PartitionCounters
  <2> QED  BY <2>1, <2>2 DEF ToSet
<1>3. ToSet(CompressionCounters) = {"compressed_bytes", "uncompressed_bytes"}
  <2>1. DOMAIN CompressionCounters = {1, 2}
    BY DEF CompressionCounters
  <2>2. /\ CompressionCounters[1] = "compressed_bytes"
        /\ CompressionCounters[2] = "uncompressed_bytes"
    BY DEF CompressionCounters
  <2> QED  BY <2>1, <2>2 DEF ToSet
<1>4. ToSet(Histograms) = {"process_duration", "dead_letter_duration", "queue_wait_duration"}
  <2>1. DOMAIN Histograms = {1, 2, 3}
    BY DEF Histograms
  <2>2. /\ Histograms[1] = "process_duration" /\ Histograms[2] = "dead_letter_duration"
        /\ Histograms[3] = "queue_wait_duration"
    BY DEF Histograms
  <2> QED  BY <2>1, <2>2 DEF ToSet
<1>5. /\ ToSet(CounterFamilies) =
           {"processed"} \cup ToSet(Conditions) \cup ToSet(PartitionCounters)
           \cup ToSet(CompressionCounters)
      /\ CounterFamilies \in Seq(ToSet(CounterFamilies))
  <2> DEFINE T == {"processed"} \cup ToSet(Conditions) \cup ToSet(PartitionCounters)
                  \cup ToSet(CompressionCounters)
             p == <<"processed">>
  <2>1. /\ Conditions \in Seq(T) /\ PartitionCounters \in Seq(T)
        /\ CompressionCounters \in Seq(T) /\ p \in Seq(T)
    <3>1. Conditions \in Seq(T)
      BY <1>1 DEF Conditions
    <3>2. PartitionCounters \in Seq(T)
      BY <1>2 DEF PartitionCounters
    <3>3. CompressionCounters \in Seq(T)
      BY <1>3 DEF CompressionCounters
    <3>4. p \in Seq(T)
      OBVIOUS
    <3> QED  BY <3>1, <3>2, <3>3, <3>4
  <2>2. ToSet(p) = {"processed"}
    BY DEF ToSet
  <2> HIDE DEF T, p
  <2> DEFINE a == p \o Conditions
             b == a \o PartitionCounters
             c == b \o CompressionCounters
  <2>3. a \in Seq(T) /\ ToSet(a) = ToSet(p) \cup ToSet(Conditions)
    BY <2>1, SetOfConcat
  <2> HIDE DEF a
  <2>4. b \in Seq(T) /\ ToSet(b) = ToSet(a) \cup ToSet(PartitionCounters)
    BY <2>1, <2>3, SetOfConcat
  <2> HIDE DEF b
  <2>5. c \in Seq(T) /\ ToSet(c) = ToSet(b) \cup ToSet(CompressionCounters)
    BY <2>1, <2>4, SetOfConcat
  <2> HIDE DEF c
  <2>6. ToSet(c) = T
    BY <2>2, <2>3, <2>4, <2>5 DEF T
  <2>7. c = CounterFamilies
    BY DEF a, b, c, p, CounterFamilies
  <2> QED  BY <2>5, <2>6, <2>7 DEF T
<1> QED  BY <1>1, <1>2, <1>3, <1>4, <1>5

\* The same for three lists.
LEMMA ListConcat3 ==
  ASSUME NEW A, NEW B, NEW C, UpdateList(A), UpdateList(B), UpdateList(C)
  PROVE  /\ UpdateList(A \o B \o C)
         /\ \A s : WholeAmount(A \o B \o C, s) =
                    WholeAmount(A, s) + WholeAmount(B, s) + WholeAmount(C, s)
<1> DEFINE X == A \o B
<1>1. UpdateList(X) /\ \A s : WholeAmount(X, s) = WholeAmount(A, s) + WholeAmount(B, s)
  BY ListConcat
<1> HIDE DEF X
<1>2. UpdateList(X \o C) /\ \A s : WholeAmount(X \o C, s) = WholeAmount(X, s) + WholeAmount(C, s)
  BY <1>1, ListConcat
<1> QED  BY <1>1, <1>2 DEF X

\* For four.
LEMMA ListConcat4 ==
  ASSUME NEW A, NEW B, NEW C, NEW D,
         UpdateList(A), UpdateList(B), UpdateList(C), UpdateList(D)
  PROVE  /\ UpdateList(A \o B \o C \o D)
         /\ \A s : WholeAmount(A \o B \o C \o D, s) =
                    WholeAmount(A, s) + WholeAmount(B, s) + WholeAmount(C, s) + WholeAmount(D, s)
<1> DEFINE X == A \o B \o C
<1>1. UpdateList(X) /\ \A s : WholeAmount(X, s) =
        WholeAmount(A, s) + WholeAmount(B, s) + WholeAmount(C, s)
  BY ListConcat3
<1> HIDE DEF X
<1>2. UpdateList(X \o D) /\ \A s : WholeAmount(X \o D, s) = WholeAmount(X, s) + WholeAmount(D, s)
  BY <1>1, ListConcat
<1> QED  BY <1>1, <1>2 DEF X

\* For five.
LEMMA ListConcat5 ==
  ASSUME NEW A, NEW B, NEW C, NEW D, NEW E,
         UpdateList(A), UpdateList(B), UpdateList(C), UpdateList(D), UpdateList(E)
  PROVE  /\ UpdateList(A \o B \o C \o D \o E)
         /\ \A s : WholeAmount(A \o B \o C \o D \o E, s) =
                    WholeAmount(A, s) + WholeAmount(B, s) + WholeAmount(C, s) + WholeAmount(D, s)
                    + WholeAmount(E, s)
<1> DEFINE X == A \o B \o C \o D
<1>1. UpdateList(X) /\ \A s : WholeAmount(X, s) =
        WholeAmount(A, s) + WholeAmount(B, s) + WholeAmount(C, s) + WholeAmount(D, s)
  BY ListConcat4
<1> HIDE DEF X
<1>2. UpdateList(X \o E) /\ \A s : WholeAmount(X \o E, s) = WholeAmount(X, s) + WholeAmount(E, s)
  BY <1>1, ListConcat
<1> QED  BY <1>1, <1>2 DEF X

\* A concatenation begins with the first element of its first part.
LEMMA ConcatFirst ==
  ASSUME NEW A, NEW B, UpdateList(A), UpdateList(B), Len(A) > 0
  PROVE  Len(A \o B) > 0 /\ (A \o B)[1] = A[1]
<1>1. PICK T : A \in Seq(T)
  BY DEF UpdateList
<1>2. PICK V : B \in Seq(V)
  BY DEF UpdateList
<1> DEFINE W == T \cup V
<1>3. A \in Seq(W) /\ B \in Seq(W)
  BY <1>1, <1>2
<1> HIDE DEF W
<1> QED  BY <1>3

\* Several conditions on one message are all counted, each once.
LEMMA FlaggedAmounts ==
  ASSUME NEW m
  PROVE  /\ UpdateList(Flagged(m))
         /\ \A f, l : WholeAmount(Flagged(m), <<f, l>>) =
              IF f \in ToSet(Conditions) /\ f \in m.traits /\ l = <<m.partition>> THEN 1 ELSE 0
<1> DEFINE flag(family) == IncIf(family \in m.traits, family, <<m.partition>>, 1)
<1>1. ASSUME NEW family
      PROVE  /\ UpdateList(flag(family))
             /\ \A f, l : WholeAmount(flag(family), <<f, l>>) =
                  IF family \in m.traits /\ f = family /\ l = <<m.partition>> THEN 1 ELSE 0
  <2> DEFINE condition == family \in m.traits
  <2>1. flag(family) = IncIf(condition, family, <<m.partition>>, 1)
    OBVIOUS
  <2> HIDE DEF condition, flag
  <2>2. /\ UpdateList(flag(family))
        /\ \A f, l : WholeAmount(flag(family), <<f, l>>) =
             IF condition /\ f = family /\ l = <<m.partition>> THEN 1 ELSE 0
    BY <2>1, ListIncIf
  <2> QED  BY <2>2 DEF condition
<1> HIDE DEF flag
<1> DEFINE A == flag("errored")
           B == flag("panicked")
           C == flag("dead_lettered")
           D == flag("duplicate")
           E == flag("used_overflow")
<1>2. UpdateList(A) /\ UpdateList(B) /\ UpdateList(C) /\ UpdateList(D) /\ UpdateList(E)
  BY <1>1
<1>3. Flagged(m) = A \o B \o C \o D \o E
  BY DEF Flagged, flag
<1>4. \A f, l :
        /\ WholeAmount(A, <<f, l>>) =
             IF "errored" \in m.traits /\ f = "errored" /\ l = <<m.partition>> THEN 1 ELSE 0
        /\ WholeAmount(B, <<f, l>>) =
             IF "panicked" \in m.traits /\ f = "panicked" /\ l = <<m.partition>> THEN 1 ELSE 0
        /\ WholeAmount(C, <<f, l>>) =
             IF "dead_lettered" \in m.traits /\ f = "dead_lettered" /\ l = <<m.partition>>
             THEN 1 ELSE 0
        /\ WholeAmount(D, <<f, l>>) =
             IF "duplicate" \in m.traits /\ f = "duplicate" /\ l = <<m.partition>> THEN 1 ELSE 0
        /\ WholeAmount(E, <<f, l>>) =
             IF "used_overflow" \in m.traits /\ f = "used_overflow" /\ l = <<m.partition>>
             THEN 1 ELSE 0
  BY <1>1
<1> HIDE DEF A, B, C, D, E
<1>5. /\ UpdateList(Flagged(m))
      /\ \A s : WholeAmount(Flagged(m), s) =
           WholeAmount(A, s) + WholeAmount(B, s) + WholeAmount(C, s)
           + WholeAmount(D, s) + WholeAmount(E, s)
  BY <1>2, <1>3, ListConcat5
<1>6. ASSUME NEW f, NEW l
      PROVE  WholeAmount(Flagged(m), <<f, l>>) =
               IF f \in ToSet(Conditions) /\ f \in m.traits /\ l = <<m.partition>> THEN 1 ELSE 0
  <2>1. CASE l = <<m.partition>> /\ f \in m.traits
    BY <1>4, <1>5, <2>1, FamiliesAre
  <2>2. CASE ~(l = <<m.partition>> /\ f \in m.traits)
    <3>1. /\ WholeAmount(A, <<f, l>>) = 0 /\ WholeAmount(B, <<f, l>>) = 0
          /\ WholeAmount(C, <<f, l>>) = 0 /\ WholeAmount(D, <<f, l>>) = 0
          /\ WholeAmount(E, <<f, l>>) = 0
      BY <1>4, <2>2
    <3> QED  BY <1>5, <2>2, <3>1
  <2> QED  BY <2>1, <2>2
<1> QED  BY <1>5, <1>6

\* A queue wait is observed for a message that was started after it was read.
LEMMA ObservedAmounts ==
  ASSUME NEW m \in Messages
  PROVE  /\ UpdateList(Observed(m))
         /\ \A f, l : WholeAmount(Observed(m), <<f, l>>) =
              IF f \in ToSet(Histograms) /\ l = <<m.partition>> THEN MessageWorth(m, f) ELSE 0
<1> DEFINE read  == UnixNano(m.readTime)
           start == UnixNano(m.startTime)
           label == <<m.partition>>
           A == IncIf(m.processNs > 0, "process_duration", label, 1)
           B == IncIf(m.deadLetterNs > 0, "dead_letter_duration", label, 1)
           C == IncIf(read # 0 /\ start # 0 /\ start - read > 0, "queue_wait_duration", label, 1)
<1>1. (read # 0 /\ start # 0 /\ start - read > 0) <=>
        (m.startTime # Unset /\ m.startTime > m.readTime)
  <2>1. /\ ZeroTimeNanos \in Int /\ ZeroTimeNanos < 0
        /\ m.readTime \in Nat /\ m.readTime # 0 /\ m.readTime # Unset
        /\ m.startTime = Unset \/ m.startTime \in Int
    BY TimesAssumption
  <2>2. read = m.readTime
    BY <2>1 DEF UnixNano
  <2>3. CASE m.startTime = Unset
    <3>1. start = ZeroTimeNanos
      BY <2>3 DEF UnixNano
    <3> QED  BY <2>1, <2>2, <2>3, <3>1
  <2>4. CASE m.startTime # Unset
    <3>1. start = m.startTime
      BY <2>4 DEF UnixNano
    <3> QED  BY <2>1, <2>2, <2>4, <3>1
  <2> QED  BY <2>3, <2>4
<1>2. Observed(m) = A \o B \o C
  BY DEF Observed
<1> DEFINE a == m.processNs > 0
           b == m.deadLetterNs > 0
           c == read # 0 /\ start # 0 /\ start - read > 0
<1>3. /\ A = IncIf(a, "process_duration", label, 1)
      /\ B = IncIf(b, "dead_letter_duration", label, 1)
      /\ C = IncIf(c, "queue_wait_duration", label, 1)
  OBVIOUS
<1> HIDE DEF A, B, C, a, b, c
<1>4. /\ UpdateList(A) /\ UpdateList(B) /\ UpdateList(C)
      /\ \A f, l :
           /\ WholeAmount(A, <<f, l>>) = IF a /\ f = "process_duration" /\ l = label THEN 1 ELSE 0
           /\ WholeAmount(B, <<f, l>>) =
                IF b /\ f = "dead_letter_duration" /\ l = label THEN 1 ELSE 0
           /\ WholeAmount(C, <<f, l>>) =
                IF c /\ f = "queue_wait_duration" /\ l = label THEN 1 ELSE 0
  BY <1>3, ListIncIf
<1>5. UpdateList(Observed(m)) /\ \A s : WholeAmount(Observed(m), s) =
        WholeAmount(A, s) + WholeAmount(B, s) + WholeAmount(C, s)
  BY <1>2, <1>4, ListConcat3
<1>6. ASSUME NEW f, NEW l
      PROVE  WholeAmount(Observed(m), <<f, l>>) =
               IF f \in ToSet(Histograms) /\ l = label THEN MessageWorth(m, f) ELSE 0
  <2>1. CASE l = label
    <3>1. /\ a => MessageWorth(m, "process_duration") = 1
          /\ ~a => MessageWorth(m, "process_duration") = 0
          /\ b => MessageWorth(m, "dead_letter_duration") = 1
          /\ ~b => MessageWorth(m, "dead_letter_duration") = 0
          /\ c => MessageWorth(m, "queue_wait_duration") = 1
          /\ ~c => MessageWorth(m, "queue_wait_duration") = 0
      BY <1>1 DEF MessageWorth, Indicator, a, b, c
    <3> QED  BY <1>4, <1>5, <2>1, <3>1, FamiliesAre
  <2>2. CASE l # label
    BY <1>4, <1>5, <2>2
  <2> QED  BY <2>1, <2>2
<1> QED  BY <1>5, <1>6

\* What MessageSink::handle adds is what the message is worth; it is counted
\* before any of its conditions.
LEMMA MessageAmounts ==
  ASSUME NEW m \in Messages
  PROVE  /\ UpdateList(MessageUpdates(m))
         /\ \A f \in AddingFamilies : \A l :
              WholeAmount(MessageUpdates(m), <<f, l>>) = PacketWorth(m, f, l)
         /\ Len(MessageUpdates(m)) > 0
         /\ MessageUpdates(m)[1] = Inc("processed", <<m.partition>>, 1)
<1> DEFINE label == <<m.partition>>
           u == Inc("processed", label, 1)
           A == <<u>>
           B == Flagged(m)
           q == Set("queue_depth", label, m.depth)
           o == Set("current_offset", label, m.offset)
           C == <<q, o>>
           D == Observed(m)
<1>1. /\ UpdateList(A)
      /\ \A f, l : WholeAmount(A, <<f, l>>) = IF f = "processed" /\ l = label THEN 1 ELSE 0
  <2>1. u.set = FALSE /\ u.series = <<"processed", label>> /\ u.value = 1
    BY DEF Inc
  <2> HIDE DEF u, label
  <2>2. GoodUpdate(u)
    BY <2>1 DEF GoodUpdate
  <2>3. \A f, l : Contribution(u, <<f, l>>) = IF f = "processed" /\ l = label THEN 1 ELSE 0
    BY <2>1 DEF Contribution
  <2> QED  BY <2>2, <2>3, ListOne
<1>2. UpdateList(C) /\ \A s : WholeAmount(C, s) = 0
  <2>1. "queue_depth" \notin AddingFamilies /\ "current_offset" \notin AddingFamilies
    BY FamiliesAre DEF AddingFamilies
  <2>2. /\ UpdateList(<<q>>) /\ UpdateList(<<o>>)
        /\ \A s : WholeAmount(<<q>>, s) = 0 /\ WholeAmount(<<o>>, s) = 0
    BY <2>1, ListSet
  <2> HIDE DEF q, o
  <2>3. <<q>> \o <<o>> = <<q, o>>
    <3> DEFINE r == <<q>> \o <<o>>
    <3>1. r \in Seq({q, o}) /\ Len(r) = 2 /\ r[1] = q /\ r[2] = o
      OBVIOUS
    <3> HIDE DEF r
    <3>2. r = <<r[1], r[2]>>
      BY <3>1
    <3> QED  BY <3>1, <3>2 DEF r
  <2>4. UpdateList(<<q>> \o <<o>>) /\ \A s : WholeAmount(<<q>> \o <<o>>, s) = 0
    BY <2>2, ListConcat
  <2>5. C = <<q>> \o <<o>>
    BY <2>3
  <2> HIDE DEF C
  <2> QED  BY <2>4, <2>5
<1>3. UpdateList(B) /\ \A f, l : WholeAmount(B, <<f, l>>) =
        IF f \in ToSet(Conditions) /\ f \in m.traits /\ l = label THEN 1 ELSE 0
  BY FlaggedAmounts
<1>4. UpdateList(D) /\ \A f, l : WholeAmount(D, <<f, l>>) =
        IF f \in ToSet(Histograms) /\ l = label THEN MessageWorth(m, f) ELSE 0
  BY ObservedAmounts
<1>5. MessageUpdates(m) = A \o B \o C \o D
  BY DEF MessageUpdates
<1> HIDE DEF A, B, C, D
<1>6. UpdateList(MessageUpdates(m)) /\ \A s : WholeAmount(MessageUpdates(m), s) =
        WholeAmount(A, s) + WholeAmount(B, s) + WholeAmount(C, s) + WholeAmount(D, s)
  BY <1>1, <1>2, <1>3, <1>4, <1>5, ListConcat4
<1>7. ASSUME NEW f \in AddingFamilies, NEW l
      PROVE  WholeAmount(MessageUpdates(m), <<f, l>>) = PacketWorth(m, f, l)
  <2>1. PacketWorth(m, f, l) = IF l = label THEN MessageWorth(m, f) ELSE 0
    BY DEF PacketWorth
  <2>2. CASE l # label
    BY <1>1, <1>2, <1>3, <1>4, <1>6, <2>1, <2>2
  <2>3. CASE l = label /\ f = "processed"
    BY <1>1, <1>2, <1>3, <1>4, <1>6, <2>1, <2>3, FamiliesAre DEF MessageWorth
  <2>4. CASE l = label /\ f \in ToSet(Conditions)
    BY <1>1, <1>2, <1>3, <1>4, <1>6, <2>1, <2>4, FamiliesAre DEF MessageWorth, Indicator
  <2>5. CASE l = label /\ f \in ToSet(Histograms)
    <3>1. MessageWorth(m, f) \in Nat
      BY <2>5, FamiliesAre DEF MessageWorth, Indicator
    <3> QED  BY <1>1, <1>2, <1>3, <1>4, <1>6, <2>1, <2>5, <3>1, FamiliesAre
  <2>6. CASE l = label /\ f \in ToSet(PartitionCounters) \cup ToSet(CompressionCounters)
    BY <1>1, <1>2, <1>3, <1>4, <1>6, <2>1, <2>6, FamiliesAre DEF MessageWorth, Indicator
  <2> QED  BY <2>2, <2>3, <2>4, <2>5, <2>6, FamiliesAre DEF AddingFamilies
<1>8. /\ Len(MessageUpdates(m)) > 0
      /\ MessageUpdates(m)[1] = u
  <2> DEFINE X == A \o B
             Y == X \o C
  <2>1. Len(A) = 1 /\ A[1] = u
    BY DEF A
  <2>2. UpdateList(X) /\ Len(X) > 0 /\ X[1] = u
    BY <1>1, <1>3, <2>1, ListConcat, ConcatFirst
  <2> HIDE DEF X
  <2>3. UpdateList(Y) /\ Len(Y) > 0 /\ Y[1] = u
    BY <1>2, <2>2, ListConcat, ConcatFirst
  <2> HIDE DEF Y
  <2>4. Len(Y \o D) > 0 /\ (Y \o D)[1] = u
    BY <1>4, <2>3, ConcatFirst
  <2> QED  BY <1>5, <2>4 DEF X, Y
<1> QED  BY <1>6, <1>7, <1>8 DEF u, label

\* A delta that is positive is added, any other ignored.
LEMMA DeltaAmounts ==
  ASSUME NEW p, NEW family, NEW label, p[family] \in Int, p[family] < CounterMod
  PROVE  /\ UpdateList(Delta(p, family, label))
         /\ \A f, l : WholeAmount(Delta(p, family, label), <<f, l>>) =
              IF f = family /\ l = label THEN Indicator(p[family] > 0) * p[family] ELSE 0
<1> DEFINE v == p[family]
           n == v % CounterMod
           condition == v > 0
<1>1. CounterMod \in Nat /\ CounterMod # 0 /\ CounterMod > 0
  BY PacketsAssumption
<1>2. v \in Int /\ v < CounterMod
  OBVIOUS
<1> HIDE DEF v
<1>3. n \in Nat /\ (v > 0 => n = v)
  BY <1>1, <1>2
<1>4. Delta(p, family, label) = IncIf(condition, family, label, n)
  BY DEF Delta, v
<1> HIDE DEF n, condition
<1>5. /\ UpdateList(Delta(p, family, label))
      /\ \A f, l : WholeAmount(Delta(p, family, label), <<f, l>>) =
           IF condition /\ f = family /\ l = label THEN n ELSE 0
  BY <1>3, <1>4, ListIncIf
<1>6. /\ condition => n = Indicator(v > 0) * v
      /\ ~condition => Indicator(v > 0) * v = 0
  BY <1>2, <1>3 DEF condition, Indicator
<1>7. CASE condition
  BY <1>5, <1>6, <1>7 DEF v
<1>8. CASE ~condition
  BY <1>5, <1>6, <1>8 DEF v
<1> QED  BY <1>7, <1>8

\* A partition's figures, each a number below 2^64.
Figures(p) ==
  \A f \in ToSet(PartitionCounters) \cup ToSet(CompressionCounters) :
    p[f] \in Int /\ p[f] < CounterMod

\* What a partition of a flush adds is what it is worth.
LEMMA PartitionAmounts ==
  ASSUME NEW p, Figures(p)
  PROVE  /\ UpdateList(PartitionUpdates(p))
         /\ \A f, l : /\ WholeAmount(PartitionUpdates(p), <<f, l>>) = PartitionWorth(p, f, l)
                      /\ PartitionWorth(p, f, l) \in Nat
<1> DEFINE label == CompressionLabel(p)
           id == <<p.id>>
           A == Delta(p, "received_bytes", id)
           B == Delta(p, "transmitted_bytes", id)
           C == Delta(p, "received_messages", id)
           D == Delta(p, "compressed_bytes", label)
           E == Delta(p, "uncompressed_bytes", label)
           worth(f) == Indicator(p[f] > 0) * p[f]
<1>1. \A f \in {"received_bytes", "transmitted_bytes", "received_messages",
               "compressed_bytes", "uncompressed_bytes"} : p[f] \in Int /\ p[f] < CounterMod
  BY FamiliesAre DEF Figures
<1>2. PartitionUpdates(p) = A \o B \o C \o D \o E
  BY DEF PartitionUpdates
<1>3. UpdateList(A) /\ UpdateList(B) /\ UpdateList(C) /\ UpdateList(D) /\ UpdateList(E)
  BY <1>1, DeltaAmounts
<1>4. ASSUME NEW f, NEW l
      PROVE  /\ WholeAmount(A, <<f, l>>) =
                  IF f = "received_bytes" /\ l = id THEN worth("received_bytes") ELSE 0
             /\ WholeAmount(B, <<f, l>>) =
                  IF f = "transmitted_bytes" /\ l = id THEN worth("transmitted_bytes") ELSE 0
             /\ WholeAmount(C, <<f, l>>) =
                  IF f = "received_messages" /\ l = id THEN worth("received_messages") ELSE 0
             /\ WholeAmount(D, <<f, l>>) =
                  IF f = "compressed_bytes" /\ l = label THEN worth("compressed_bytes") ELSE 0
             /\ WholeAmount(E, <<f, l>>) =
                  IF f = "uncompressed_bytes" /\ l = label THEN worth("uncompressed_bytes") ELSE 0
  BY <1>1, DeltaAmounts
<1>5. \A f \in {"received_bytes", "transmitted_bytes", "received_messages",
               "compressed_bytes", "uncompressed_bytes"} : worth(f) \in Nat
  BY <1>1 DEF Indicator
<1>6. \A f, l : PartitionWorth(p, f, l) =
        IF \/ f \in {"received_bytes", "transmitted_bytes", "received_messages"} /\ l = id
           \/ f \in {"compressed_bytes", "uncompressed_bytes"} /\ l = label
        THEN worth(f) ELSE 0
  BY FamiliesAre DEF PartitionWorth
<1> HIDE DEF A, B, C, D, E, worth, label, id
<1>7. UpdateList(PartitionUpdates(p)) /\ \A s : WholeAmount(PartitionUpdates(p), s) =
        WholeAmount(A, s) + WholeAmount(B, s) + WholeAmount(C, s) + WholeAmount(D, s)
        + WholeAmount(E, s)
  BY <1>2, <1>3, ListConcat5
<1>8. ASSUME NEW f, NEW l
      PROVE  /\ WholeAmount(PartitionUpdates(p), <<f, l>>) = PartitionWorth(p, f, l)
             /\ PartitionWorth(p, f, l) \in Nat
  BY <1>4, <1>5, <1>6, <1>7
<1> QED  BY <1>7, <1>8

\* What BandwidthSink::handle adds is what the flush's partitions are worth.
LEMMA BandwidthAmounts ==
  ASSUME NEW b \in Flushes
  PROVE  /\ UpdateList(BandwidthUpdates(b))
         /\ \A f, l : WholeAmount(BandwidthUpdates(b), <<f, l>>) = PacketWorth(b, f, l)
<1> DEFINE A == TopologyUpdates(b)
           B == IF UnixNano(b.ts) # 0
                THEN <<Set("last_collection_timestamp_seconds", Cluster, UnixNano(b.ts))>> ELSE <<>>
           C == [i \in DOMAIN b.brokers |-> Set("broker_info", <<b.brokers[i]>>, 1)]
           parts == [i \in DOMAIN b.partitions |-> PartitionUpdates(b.partitions[i])]
           D == FlattenSeq(parts)
           N == Len(b.partitions)
<1>1. /\ "topology" \notin AddingFamilies /\ "broker_info" \notin AddingFamilies
      /\ "last_collection_timestamp_seconds" \notin AddingFamilies
  BY FamiliesAre DEF AddingFamilies
<1>2. UpdateList(A) /\ \A s : WholeAmount(A, s) = 0
  BY <1>1, ListSet DEF TopologyUpdates
<1>3. UpdateList(B) /\ \A s : WholeAmount(B, s) = 0
  <2>1. CASE UnixNano(b.ts) # 0
    BY <1>1, <2>1, ListSet
  <2>2. CASE ~(UnixNano(b.ts) # 0)
    BY <2>2, ListNone
  <2> QED  BY <2>1, <2>2
<1>4. UpdateList(C) /\ \A s : WholeAmount(C, s) = 0
  <2>1. b.brokers \in Seq(STRING)
    BY PacketsAssumption
  <2>2. DOMAIN b.brokers = 1..Len(b.brokers) /\ Len(b.brokers) \in Nat
    BY <2>1
  <2> DEFINE n == Len(b.brokers)
             T == Range(C)
  <2>3. C \in Seq(T) /\ Len(C) = n
    BY <2>2 DEF Range
  <2>4. ASSUME NEW i \in 1..Len(C)
        PROVE  C[i].set = TRUE /\ C[i].series = <<"broker_info", <<b.brokers[i]>>>>
    BY <2>2, <2>3 DEF Set
  <2> HIDE DEF C, T
  <2>5. \A i \in 1..Len(C) : GoodUpdate(C[i])
    BY <1>1, <2>4 DEF GoodUpdate
  <2>6. UpdateList(C)
    BY <2>3, <2>5 DEF UpdateList
  <2>7. ASSUME NEW s PROVE WholeAmount(C, s) = 0
    <3> DEFINE c == Contributions(C, s)
    <3>1. \A i \in 1..Len(C) : c[i] = 0
      BY <2>4 DEF Contributions, Contribution
    <3>2. Len(C) \in Nat
      BY <2>2, <2>3
    <3> HIDE DEF c
    <3>3. SumTo(c, Len(C)) = 0
      BY <3>1, <3>2, SumZero
    <3> QED  BY <3>3 DEF c, WholeAmount, Amount
  <2> QED  BY <2>6, <2>7
<1>5. /\ UpdateList(D)
      /\ \A f, l : WholeAmount(D, <<f, l>>) = PacketWorth(b, f, l) /\ PacketWorth(b, f, l) \in Nat
  <2>1. N \in Nat /\ DOMAIN b.partitions = 1..N /\ \A i \in 1..N : Figures(b.partitions[i])
    <3> DEFINE Figure == {n \in Int : n < CounterMod}
               P == [id : Int, compression : STRING, received_bytes : Figure,
                     transmitted_bytes : Figure, received_messages : Figure,
                     compressed_bytes : Figure, uncompressed_bytes : Figure]
    <3>1. b.partitions \in Seq(P)
      BY PacketsAssumption
    <3>2. ASSUME NEW p \in P PROVE Figures(p)
      <4>1. /\ p["received_bytes"] \in Figure /\ p["transmitted_bytes"] \in Figure
            /\ p["received_messages"] \in Figure /\ p["compressed_bytes"] \in Figure
            /\ p["uncompressed_bytes"] \in Figure
        OBVIOUS
      <4> QED  BY <4>1, FamiliesAre DEF Figures
    <3> HIDE DEF P
    <3> QED  BY <3>1, <3>2
  <2>2. /\ parts \in Seq(Range(parts)) /\ Len(parts) = N
        /\ \A i \in 1..N : parts[i] = PartitionUpdates(b.partitions[i])
    BY <2>1 DEF Range
  <2> HIDE DEF parts, N
  <2>3. \A i \in 1..Len(parts) : UpdateList(parts[i])
    BY <2>1, <2>2, PartitionAmounts
  <2>4. UpdateList(D)
    BY <2>2, <2>3, ListFlatten
  <2>5. ASSUME NEW f, NEW l
        PROVE  WholeAmount(D, <<f, l>>) = PacketWorth(b, f, l) /\ PacketWorth(b, f, l) \in Nat
    <3> DEFINE c == [i \in DOMAIN b.partitions |-> PartitionWorth(b.partitions[i], f, l)]
               s == <<f, l>>
    <3>1. \A i \in 1..N : c[i] = PartitionWorth(b.partitions[i], f, l)
      BY <2>1
    <3>2. PacketWorth(b, f, l) = SumTo(c, N)
      BY PacketsAssumption DEF PacketWorth, N
    <3> HIDE DEF c, s
    <3>3. \A i \in 1..Len(parts) : c[i] = WholeAmount(parts[i], s)
      BY <2>1, <2>2, <3>1, PartitionAmounts DEF s
    <3>4. WholeAmount(D, s) = SumTo(c, Len(parts))
      BY <2>2, <2>3, <3>3, ListFlatten
    <3>5. \A i \in 1..N : c[i] \in Nat
      BY <2>1, <3>1, PartitionAmounts
    <3>6. N \in 0..N
      BY <2>1
    <3>7. SumTo(c, N) \in Nat
      BY <2>1, <3>5, <3>6, SumNat
    <3> QED  BY <2>2, <3>2, <3>4, <3>7 DEF s
  <2> QED  BY <2>4, <2>5
<1>6. BandwidthUpdates(b) = A \o B \o C \o D
  BY DEF BandwidthUpdates
<1> HIDE DEF A, B, C, D
<1>7. UpdateList(BandwidthUpdates(b)) /\ \A s : WholeAmount(BandwidthUpdates(b), s) =
        WholeAmount(A, s) + WholeAmount(B, s) + WholeAmount(C, s) + WholeAmount(D, s)
  BY <1>2, <1>3, <1>4, <1>5, <1>6, ListConcat4
<1> QED  BY <1>2, <1>3, <1>4, <1>5, <1>7

-----------------------------------------------------------------------------
(* The ledger: how far each packet's updates have been made *)

Goroutines == Workers \cup {Aggregator}
Packets    == Messages \cup Flushes

\* The updates a packet's call makes.
Updates(packet) == IF packet \in Messages THEN MessageUpdates(packet) ELSE BandwidthUpdates(packet)

\* What any call adds is what its packet is worth.
LEMMA PacketAmounts ==
  ASSUME NEW packet \in Packets
  PROVE  /\ UpdateList(Updates(packet))
         /\ \A f \in AddingFamilies : \A l :
              WholeAmount(Updates(packet), <<f, l>>) = PacketWorth(packet, f, l)
  BY MessageAmounts, BandwidthAmounts DEF Updates, Packets

\* rest is what is left of updates when n of them are made.
Rest(rest, updates, n) ==
  /\ \E T : rest \in Seq(T)
  /\ Len(rest) = Len(updates) - n
  /\ \A j \in 1..Len(rest) : rest[j] = updates[n + j]

(***************************************************************************)
(* k is how many updates of each packet given are made, at which packet    *)
(* each goroutine is (0 before its first): a packet that is not finished   *)
(* is at one goroutine, which has the rest of it before it.                *)
(***************************************************************************)
Places(k, at, packets, rest) ==
  /\ \A i \in 1..Len(packets) : k[i] \in 0..Len(Updates(packets[i]))
  /\ \A g \in Goroutines :
       /\ at[g] \in 0..Len(packets)
       /\ at[g] = 0 => rest[g] = <<>>
       /\ at[g] # 0 => Rest(rest[g], Updates(packets[at[g]]), k[at[g]])
  /\ \A g, h \in Goroutines : at[g] = at[h] /\ at[g] # 0 => g = h
  /\ \A i \in 1..Len(packets) :
       k[i] = Len(Updates(packets[i])) \/ \E g \in Goroutines : at[g] = i

\* What the updates made so far add to a series, packet by packet.
Parts(k, packets, s) == [i \in 1..Len(packets) |-> Amount(Updates(packets[i]), k[i], s)]

\* The counters in r hold exactly that.
Sums(k, packets, r) ==
  /\ \A s \in DOMAIN r : \E f, l : s = <<f, l>>
  /\ \A f \in AddingFamilies : \A l :
       /\ Value(r, <<f, l>>) = SumTo(Parts(k, packets, <<f, l>>), Len(packets)) % CounterMod
       /\ <<f, l>> \notin DOMAIN r =>
            \A i \in 1..Len(packets) : Parts(k, packets, <<f, l>>)[i] = 0

\* What the updates made so far add is a natural, packet by packet and in all.
LEMMA PartsNat ==
  ASSUME NEW k, NEW packets \in Seq(Packets),
         \A i \in 1..Len(packets) : k[i] \in 0..Len(Updates(packets[i])), NEW s
  PROVE  /\ \A i \in 1..Len(packets) : Parts(k, packets, s)[i] \in Nat
         /\ SumTo(Parts(k, packets, s), Len(packets)) \in Nat
<1> DEFINE p == Parts(k, packets, s)
<1>1. Len(packets) \in Nat /\ \A i \in 1..Len(packets) : packets[i] \in Packets
  OBVIOUS
<1>2. \A i \in 1..Len(packets) : p[i] \in Nat
  <2> SUFFICES ASSUME NEW i \in 1..Len(packets) PROVE p[i] \in Nat
    OBVIOUS
  <2>1. UpdateList(Updates(packets[i]))
    BY <1>1, PacketAmounts
  <2> QED  BY <2>1, AmountSteps DEF Parts
<1> HIDE DEF p
<1>3. Len(packets) \in 0..Len(packets)
  BY <1>1
<1>4. SumTo(p, Len(packets)) \in Nat
  BY <1>1, <1>2, <1>3, SumNat
<1> QED  BY <1>2, <1>4 DEF p

\* A goroutine that is idle takes up the next packet.
LEMMA ReportKeeps ==
  ASSUME NEW k, NEW at, NEW packets \in Seq(Packets), NEW rest, NEW r, NEW packet \in Packets,
         NEW g \in Goroutines, rest = [x \in Goroutines |-> rest[x]], rest[g] = <<>>,
         Places(k, at, packets, rest), Sums(k, packets, r)
  PROVE  \E kk, aa : /\ Places(kk, aa, Append(packets, packet),
                               [rest EXCEPT ![g] = Updates(packet)])
                     /\ Sums(kk, Append(packets, packet), r)
<1> DEFINE n  == Len(packets)
           pp == Append(packets, packet)
           rr == [rest EXCEPT ![g] = Updates(packet)]
           kk == [i \in 1..(n + 1) |-> IF i = n + 1 THEN 0 ELSE k[i]]
           aa == [x \in Goroutines |-> IF x = g THEN n + 1 ELSE at[x]]
<1>1. /\ n \in Nat /\ Len(pp) = n + 1 /\ pp[n + 1] = packet
      /\ \A i \in 1..n : pp[i] = packets[i]
  OBVIOUS
<1>2. rr[g] = Updates(packet) /\ \A x \in Goroutines : x # g => rr[x] = rest[x]
  OBVIOUS
<1>3. kk[n + 1] = 0 /\ \A i \in 1..n : kk[i] = k[i]
  BY <1>1
<1>4. aa[g] = n + 1 /\ \A x \in Goroutines : x # g => aa[x] = at[x]
  OBVIOUS
<1>5. UpdateList(Updates(packet)) /\ Len(Updates(packet)) \in Nat
  BY PacketAmounts DEF UpdateList
<1>6. \A i \in 1..(n + 1) : i = n + 1 \/ i \in 1..n
  BY <1>1
<1> HIDE DEF n, pp, rr, kk, aa
<1>7. \A x \in Goroutines : at[x] \in 0..n /\ (at[x] # 0 => at[x] \in 1..n)
  BY <1>1 DEF Places, n
<1>8. Places(kk, aa, pp, rr)
  <2>1. ASSUME NEW i \in 1..Len(pp) PROVE kk[i] \in 0..Len(Updates(pp[i]))
    <3>1. CASE i = n + 1
      BY <1>1, <1>3, <1>5, <3>1
    <3>2. CASE i \in 1..n
      BY <1>1, <1>3, <3>2 DEF Places, n
    <3> QED  BY <1>1, <1>6, <3>1, <3>2
  <2>2. ASSUME NEW x \in Goroutines
        PROVE  /\ aa[x] \in 0..Len(pp)
               /\ aa[x] = 0 => rr[x] = <<>>
               /\ aa[x] # 0 => Rest(rr[x], Updates(pp[aa[x]]), kk[aa[x]])
    <3>1. CASE x = g
      <4>1. aa[x] = n + 1 /\ n + 1 \in 0..Len(pp) /\ n + 1 # 0
        BY <1>1, <1>4, <3>1
      <4>2. Rest(Updates(packet), Updates(packet), 0)
        BY <1>5 DEF Rest, UpdateList
      <4> QED  BY <1>1, <1>2, <1>3, <3>1, <4>1, <4>2
    <3>2. CASE x # g
      <4>1. aa[x] = at[x] /\ rr[x] = rest[x] /\ at[x] \in 0..n /\ (at[x] # 0 => at[x] \in 1..n)
        BY <1>2, <1>4, <1>7, <3>2
      <4>2. at[x] = 0 => rest[x] = <<>>
        BY DEF Places
      <4>3. at[x] # 0 => Rest(rest[x], Updates(packets[at[x]]), k[at[x]])
        BY DEF Places
      <4>4. at[x] # 0 => pp[at[x]] = packets[at[x]] /\ kk[at[x]] = k[at[x]]
        BY <1>1, <1>3, <4>1
      <4>5. aa[x] \in 0..Len(pp)
        BY <1>1, <4>1
      <4> QED  BY <4>1, <4>2, <4>3, <4>4, <4>5
    <3> QED  BY <3>1, <3>2
  <2>3. ASSUME NEW x \in Goroutines, NEW y \in Goroutines, aa[x] = aa[y], aa[x] # 0 PROVE x = y
    <3>1. CASE x = g \/ y = g
      <4>1. \A z \in Goroutines : z # g => aa[z] # n + 1
        BY <1>1, <1>4, <1>7
      <4> QED  BY <1>4, <2>3, <3>1, <4>1
    <3>2. CASE x # g /\ y # g
      BY <1>4, <2>3, <3>2 DEF Places
    <3> QED  BY <3>1, <3>2
  <2>4. ASSUME NEW i \in 1..Len(pp)
        PROVE  kk[i] = Len(Updates(pp[i])) \/ \E x \in Goroutines : aa[x] = i
    <3>1. CASE i = n + 1
      BY <1>4, <3>1
    <3>2. CASE i \in 1..n
      <4>1. k[i] = Len(Updates(packets[i])) \/ \E x \in Goroutines : at[x] = i
        BY <3>2 DEF Places, n
      <4>2. pp[i] = packets[i] /\ kk[i] = k[i]
        BY <1>1, <1>3, <3>2
      <4>3. CASE at[g] = i
        <5>1. i # 0 /\ Rest(<<>>, Updates(packets[i]), k[i])
          BY <1>1, <3>2, <4>3 DEF Places
        <5>2. packets[i] \in Packets /\ k[i] \in Int
          BY <3>2 DEF Places, n
        <5>3. UpdateList(Updates(packets[i]))
          BY <5>2, PacketAmounts
        <5>4. Len(Updates(packets[i])) \in Nat
          BY <5>3 DEF UpdateList
        <5>5. 0 = Len(Updates(packets[i])) - k[i]
          BY <5>1 DEF Rest
        <5> QED  BY <4>2, <5>2, <5>4, <5>5
      <4> QED  BY <1>4, <4>1, <4>2, <4>3
    <3> QED  BY <1>1, <1>6, <3>1, <3>2
  <2> QED  BY <2>1, <2>2, <2>3, <2>4 DEF Places
<1>9. Sums(kk, pp, r)
  <2>1. ASSUME NEW f \in AddingFamilies, NEW l
        PROVE  /\ Value(r, <<f, l>>) = SumTo(Parts(kk, pp, <<f, l>>), Len(pp)) % CounterMod
               /\ <<f, l>> \notin DOMAIN r =>
                    \A i \in 1..Len(pp) : Parts(kk, pp, <<f, l>>)[i] = 0
    <3> DEFINE s == <<f, l>>
               p == Parts(k, packets, s)
               q == Parts(kk, pp, s)
    <3>1. q[n + 1] = 0
      <4>1. q[n + 1] = Amount(Updates(packet), 0, s)
        BY <1>1, <1>3 DEF Parts
      <4> QED  BY <1>5, <4>1, AmountSteps
    <3>2. \A i \in 1..n : q[i] = p[i]
      BY <1>1, <1>3 DEF Parts, n
    <3>3. /\ Value(r, s) = SumTo(p, n) % CounterMod
          /\ s \notin DOMAIN r => \A i \in 1..n : p[i] = 0
      BY DEF Sums, n
    <3>4. SumTo(p, n) \in Nat
      BY PartsNat DEF Places, n
    <3> HIDE DEF s, p, q
    <3>5. SumTo(q, n) = SumTo(p, n)
      BY <1>1, <3>2, SumSame
    <3>6. SumTo(q, n + 1) = SumTo(q, n) + q[n + 1]
      BY <1>1, SumSteps
    <3>7. SumTo(q, n + 1) = SumTo(p, n)
      BY <3>1, <3>4, <3>5, <3>6
    <3>8. Value(r, s) = SumTo(q, Len(pp)) % CounterMod
      BY <1>1, <3>3, <3>7
    <3>9. s \notin DOMAIN r => \A i \in 1..Len(pp) : q[i] = 0
      BY <1>1, <1>6, <3>1, <3>2, <3>3
    <3> QED  BY <3>8, <3>9 DEF s, q
  <2> QED  BY <2>1 DEF Sums
<1> QED  BY <1>8, <1>9 DEF pp, rr

\* A goroutine makes the next update of its packet.
Counted(k, a, n)   == [i \in 1..n |-> IF i = a THEN k[i] + 1 ELSE k[i]]
Shortened(rest, g) == [rest EXCEPT ![g] = Tail(rest[g])]

\* The update was the next of its packet, and the places still fit.
LEMMA ApplyPlaces ==
  ASSUME NEW k, NEW at, NEW packets \in Seq(Packets), NEW rest, NEW g \in Goroutines,
         rest = [x \in Goroutines |-> rest[x]], rest[g] # <<>>, Places(k, at, packets, rest)
  PROVE  /\ at[g] \in 1..Len(packets)
         /\ k[at[g]] \in Nat /\ k[at[g]] + 1 <= Len(Updates(packets[at[g]]))
         /\ Head(rest[g]) = Updates(packets[at[g]])[k[at[g]] + 1]
         /\ Places(Counted(k, at[g], Len(packets)), at, packets, Shortened(rest, g))
<1> DEFINE N  == Len(packets)
           a  == at[g]
           n  == k[a]
           us == Updates(packets[a])
           kk == Counted(k, a, N)
           rr == Shortened(rest, g)
<1>1. N \in Nat /\ a \in 1..N /\ Rest(rest[g], us, n)
  <2>1. N \in Nat /\ a \in 0..N /\ a # 0
    BY DEF Places
  <2>2. Rest(rest[g], us, n)
    BY <2>1 DEF Places
  <2> QED  BY <2>1, <2>2
<1>2. rr[g] = Tail(rest[g]) /\ \A x \in Goroutines : x # g => rr[x] = rest[x]
  BY DEF Shortened
<1>3. kk[a] = n + 1 /\ \A i \in 1..N : i # a => kk[i] = k[i]
  BY <1>1 DEF Counted
<1>4. n \in 0..Len(us) /\ Len(us) \in Nat
  <2>1. packets[a] \in Packets
    BY <1>1
  <2>2. UpdateList(us)
    BY <2>1, PacketAmounts
  <2>3. n \in 0..Len(us)
    BY <1>1 DEF Places
  <2> QED  BY <2>2, <2>3 DEF UpdateList
<1>5. /\ n + 1 <= Len(us) /\ n \in Nat /\ Head(rest[g]) = us[n + 1]
      /\ Rest(Tail(rest[g]), us, n + 1)
  <2> DEFINE h == rest[g]
  <2>1. PICK T : h \in Seq(T)
    BY <1>1 DEF Rest
  <2>2. h # <<>> /\ Len(h) = Len(us) - n /\ \A j \in 1..Len(h) : h[j] = us[n + j]
    BY <1>1 DEF Rest
  <2> HIDE DEF h, us, n
  <2>3. Len(h) \in Nat /\ Len(h) > 0
    BY <2>1, <2>2
  <2>4. n \in Nat /\ n + 1 <= Len(us) /\ Len(us) - (n + 1) = Len(h) - 1
    BY <1>4, <2>2, <2>3
  <2>5. Head(h) = h[1] /\ h[1] = us[n + 1]
    BY <2>1, <2>2, <2>3
  <2>6. /\ Tail(h) \in Seq(T) /\ Len(Tail(h)) = Len(h) - 1
        /\ \A j \in 1..(Len(h) - 1) : Tail(h)[j] = h[j + 1]
    BY <2>1, <2>2, <2>3
  <2>7. ASSUME NEW j \in 1..(Len(h) - 1) PROVE h[j + 1] = us[(n + 1) + j]
    <3>1. j + 1 \in 1..Len(h) /\ n + (j + 1) = (n + 1) + j
      BY <2>3, <2>4
    <3>2. h[j + 1] = us[n + (j + 1)]
      BY <2>2, <3>1
    <3> QED  BY <3>1, <3>2
  <2>8. Rest(Tail(h), us, n + 1)
    BY <2>4, <2>6, <2>7 DEF Rest
  <2> QED  BY <2>4, <2>5, <2>8 DEF h
<1> HIDE DEF kk, rr
<1>6. \A x \in Goroutines : at[x] \in 0..N /\ (x # g => at[x] # a)
  BY <1>1 DEF Places
<1>7. Places(kk, at, packets, rr)
  <2>1. ASSUME NEW i \in 1..N PROVE kk[i] \in 0..Len(Updates(packets[i]))
    <3>1. CASE i = a
      <4>1. n + 1 \in 0..Len(us)
        <5> HIDE DEF n, us
        <5> QED  BY <1>4, <1>5
      <4> QED  BY <1>3, <3>1, <4>1
    <3>2. CASE i # a
      BY <1>3, <3>2 DEF Places
    <3> QED  BY <3>1, <3>2
  <2>2. ASSUME NEW x \in Goroutines
        PROVE  /\ at[x] \in 0..N
               /\ at[x] = 0 => rr[x] = <<>>
               /\ at[x] # 0 => Rest(rr[x], Updates(packets[at[x]]), kk[at[x]])
    <3>1. CASE x = g
      <4>1. at[x] = a /\ rr[x] = Tail(rest[g]) /\ kk[at[x]] = n + 1
        BY <1>2, <1>3, <3>1
      <4> QED  BY <1>1, <1>5, <4>1
    <3>2. CASE x # g
      <4>1. rr[x] = rest[x] /\ at[x] \in 0..N /\ at[x] # a
        BY <1>2, <1>6, <3>2
      <4>2. at[x] # 0 => kk[at[x]] = k[at[x]]
        BY <1>1, <1>3, <4>1
      <4>3. at[x] = 0 => rest[x] = <<>>
        BY DEF Places
      <4>4. at[x] # 0 => Rest(rest[x], Updates(packets[at[x]]), k[at[x]])
        BY DEF Places
      <4> QED  BY <4>1, <4>2, <4>3, <4>4
    <3> QED  BY <3>1, <3>2
  <2>3. \A x, y \in Goroutines : at[x] = at[y] /\ at[x] # 0 => x = y
    BY DEF Places
  <2>4. ASSUME NEW i \in 1..N
        PROVE  kk[i] = Len(Updates(packets[i])) \/ \E x \in Goroutines : at[x] = i
    <3>1. CASE i = a
      BY <3>1
    <3>2. CASE i # a
      BY <1>3, <3>2 DEF Places
    <3> QED  BY <3>1, <3>2
  <2> QED  BY <2>1, <2>2, <2>3, <2>4 DEF Places
<1> QED  BY <1>1, <1>5, <1>7 DEF kk, rr

\* The registry after an update.
Updated(r, u) ==
  [s \in DOMAIN r \cup {u.series} |->
     IF s = u.series
     THEN IF u.set THEN u.value ELSE (Value(r, u.series) + u.value) % CounterMod
     ELSE r[s]]

\* The sums still fit after that update, and none of them has fallen.
LEMMA ApplySums ==
  ASSUME NEW k, NEW packets \in Seq(Packets), NEW r, NEW a \in 1..Len(packets), NEW u,
         \A i \in 1..Len(packets) : k[i] \in 0..Len(Updates(packets[i])),
         k[a] \in Nat, k[a] + 1 <= Len(Updates(packets[a])), u = Updates(packets[a])[k[a] + 1],
         Sums(k, packets, r)
  PROVE  /\ Sums(Counted(k, a, Len(packets)), packets, Updated(r, u))
         /\ \A f \in AddingFamilies : \A l :
              SumTo(Parts(k, packets, <<f, l>>), Len(packets)) <=
                SumTo(Parts(Counted(k, a, Len(packets)), packets, <<f, l>>), Len(packets))
<1> DEFINE N  == Len(packets)
           kk == Counted(k, a, N)
           rr == Updated(r, u)
           us == Updates(packets[a])
<1>1. N \in Nat /\ packets[a] \in Packets
  OBVIOUS
<1>2. UpdateList(us)
  BY <1>1, PacketAmounts
<1>3. GoodUpdate(u)
  <2>1. k[a] + 1 \in 1..Len(us)
    BY <1>2 DEF UpdateList
  <2> QED  BY <1>2, <2>1 DEF UpdateList
<1>4. kk[a] = k[a] + 1 /\ \A i \in 1..N : i # a => kk[i] = k[i]
  BY DEF Counted
<1>5. /\ DOMAIN rr = DOMAIN r \cup {u.series}
      /\ rr[u.series] = IF u.set THEN u.value ELSE (Value(r, u.series) + u.value) % CounterMod
      /\ \A s \in DOMAIN r : s # u.series => rr[s] = r[s]
  BY DEF Updated
<1> HIDE DEF kk, rr
<1>6. \A s \in DOMAIN rr : \E f, l : s = <<f, l>>
  BY <1>3, <1>5 DEF Sums, GoodUpdate
<1>7. ASSUME NEW f \in AddingFamilies, NEW l
      PROVE  /\ Value(rr, <<f, l>>) = SumTo(Parts(kk, packets, <<f, l>>), N) % CounterMod
             /\ <<f, l>> \notin DOMAIN rr =>
                  \A i \in 1..N : Parts(kk, packets, <<f, l>>)[i] = 0
             /\ SumTo(Parts(k, packets, <<f, l>>), N) <= SumTo(Parts(kk, packets, <<f, l>>), N)
  <2> DEFINE s == <<f, l>>
             p == Parts(k, packets, s)
             q == Parts(kk, packets, s)
             c == Contribution(u, s)
  <2>1. c \in Nat
    BY <1>3, ContributionNat
  <2>2. q[a] = p[a] + c
    <3>1. p[a] = Amount(us, k[a], s) /\ q[a] = Amount(us, k[a] + 1, s)
      BY <1>4 DEF Parts
    <3> QED  BY <1>2, <3>1, AmountSteps
  <2>3. \A i \in 1..N : i # a => q[i] = p[i]
    BY <1>4 DEF Parts
  <2>4. /\ Value(r, s) = SumTo(p, N) % CounterMod
        /\ s \notin DOMAIN r => \A i \in 1..N : p[i] = 0
    BY DEF Sums
  <2>5. (\A i \in 1..N : p[i] \in Nat) /\ SumTo(p, N) \in Nat
    BY PartsNat
  <2>6. u.series = s => c = u.value /\ ~u.set
    BY <1>3 DEF Contribution, GoodUpdate
  <2>7. u.series # s => c = 0
    BY DEF Contribution
  <2>0. N \in Nat /\ a \in 1..N
    OBVIOUS
  <2> HIDE DEF s, p, q, c, N
  <2>8. SumTo(q, N) = SumTo(p, N) + c /\ SumTo(p, N) <= SumTo(q, N)
    <3>1. \A i \in 1..N : p[i] \in Nat
      BY <2>5
    <3>2. SumTo(q, N) = SumTo(p, N) + c
      BY <2>0, <2>1, <2>2, <2>3, <3>1, SumGrows
    <3>3. SumTo(p, N) \in Nat
      BY <2>5
    <3>4. \A x, y : x \in Nat /\ c \in Nat /\ y = x + c => x <= y
      OBVIOUS
    <3> QED  BY <2>1, <3>2, <3>3, <3>4
  <2>9. CounterMod \in Nat /\ CounterMod > 0
    BY PacketsAssumption
  <2>10. CASE u.series = s
    <3> DEFINE x == SumTo(p, N)
    <3>1. Value(rr, s) = (Value(r, s) + c) % CounterMod /\ s \in DOMAIN rr
      BY <1>5, <2>6, <2>10 DEF Value
    <3> HIDE DEF x
    <3>2. ((x % CounterMod) + c) % CounterMod = (x + c) % CounterMod
      BY <2>1, <2>5, <2>9, WrapOnce DEF x
    <3>3. Value(rr, s) = SumTo(q, N) % CounterMod
      BY <2>4, <2>8, <3>1, <3>2 DEF x
    <3> QED  BY <2>8, <3>1, <3>3 DEF s, p, q
  <2>11. CASE u.series # s
    <3>1. Value(rr, s) = Value(r, s) /\ (s \in DOMAIN rr <=> s \in DOMAIN r)
      BY <1>5, <2>11 DEF Value
    <3>2. c = 0
      BY <2>7, <2>11
    <3>3. SumTo(q, N) = SumTo(p, N)
      BY <2>5, <2>8, <3>2
    <3>4. \A i \in 1..N : q[i] = p[i]
      BY <2>2, <2>3, <2>5, <3>2
    <3>5. s \notin DOMAIN rr => \A i \in 1..N : q[i] = 0
      BY <2>4, <3>1, <3>4
    <3>6. Value(rr, s) = SumTo(q, N) % CounterMod
      BY <2>4, <3>1, <3>3
    <3> QED  BY <2>8, <3>5, <3>6 DEF s, p, q
  <2> QED  BY <2>10, <2>11
<1>8. Sums(kk, packets, rr)
  BY <1>6, <1>7 DEF Sums
<1> QED  BY <1>7, <1>8 DEF kk, rr

-----------------------------------------------------------------------------
(* Totals *)

\* Only a rollback stops the endpoint, and nothing is reported before the
\* build succeeded.
StageInv ==
  /\ owner \in {"stored", "woken"} => build = "rollback"
  /\ build # "built" => given = <<>> /\ DOMAIN registry = {}

LedgerInv ==
  /\ given \in Seq(Packets)
  /\ handling = [g \in Goroutines |-> handling[g]]
  /\ \E k, at : Places(k, at, given, handling) /\ Sums(k, given, registry)

TotalsInv == StageInv /\ LedgerInv

\* An empty registry fits a ledger without packets.
LEMMA NothingGiven ==
  ASSUME NEW k, NEW r, DOMAIN r = {} PROVE Sums(k, <<>>, r)
<1>1. Len(<<>>) = 0 /\ 0 % CounterMod = 0 /\ 1..0 = {}
  BY PacketsAssumption
<1>2. \A s : SumTo(Parts(k, <<>>, s), 0) = 0
  BY SumSteps
<1>3. \A s : Value(r, s) = 0
  BY DEF Value
<1> QED  BY <1>1, <1>2, <1>3 DEF Sums

\* The ledger is empty before the first build.
LEMMA TotalsInit == MetricsInit => TotalsInv
<1> SUFFICES ASSUME MetricsInit PROVE TotalsInv
  OBVIOUS
<1>1. StageInv
  BY DEF MetricsInit, Init, StageInv
<1>2. LedgerInv
  <2> DEFINE at == [g \in Goroutines |-> 0]
  <2>1. given = <<>> /\ Len(<<>>) = 0 /\ registry = <<>> /\ DOMAIN <<>> = {}
        /\ handling = [g \in Goroutines |-> <<>>]
    BY DEF MetricsInit, Goroutines
  <2>2. 1..Len(given) = {} /\ 0..Len(given) = {0}
    BY <2>1
  <2>3. \A g \in Goroutines : at[g] = 0 /\ handling[g] = <<>>
    BY <2>1
  <2> HIDE DEF at
  <2>4. Places(at, at, given, handling)
    BY <2>2, <2>3 DEF Places
  <2>5. Sums(at, given, registry)
    BY <2>1, NothingGiven
  <2> QED  BY <2>1, <2>4, <2>5 DEF LedgerInv
<1> QED  BY <1>1, <1>2 DEF TotalsInv

\* Every step keeps the stages.
LEMMA StageKeeps == TotalsInv /\ [MetricsNext]_allVars => StageInv'
<1> SUFFICES ASSUME TotalsInv, [MetricsNext]_allVars PROVE StageInv'
  OBVIOUS
<1> USE DEF StageInv, TotalsInv
<1>1. CASE \E taken \in BOOLEAN : RealiseServe(taken)
  BY <1>1 DEF RealiseServe, ServeExposition
<1>2. CASE RealiseRegistry
  BY <1>2 DEF RealiseRegistry
<1>3. CASE BuildSucceeds
  BY <1>3 DEF BuildSucceeds, vars
<1>4. CASE BuildFails
  BY <1>4 DEF BuildFails, StoreStop, vars, sinkVars
<1>5. CASE RollbackJoins
  BY <1>5 DEF RollbackJoins, Join, sinkVars
<1>6. CASE \E g, packet, updates : Report(g, packet, updates)
  BY <1>6 DEF Report, vars
<1>7. CASE \E g \in Workers \cup {Aggregator} : Apply(g)
  <2>1. PICK g \in Workers \cup {Aggregator} : Apply(g)
    BY <1>7
  <2>2. UNCHANGED <<vars, build, given>> /\ handling[g] # <<>>
    BY <2>1 DEF Apply
  <2>3. given # <<>>
    <3> SUFFICES ASSUME given = <<>> PROVE FALSE
      OBVIOUS
    <3>1. PICK k, at : Places(k, at, given, handling)
      BY DEF LedgerInv
    <3>2. 0..Len(<<>>) = {0}
      OBVIOUS
    <3>3. at[g] = 0 /\ handling[g] = <<>>
      BY <3>1, <3>2 DEF Places, Goroutines
    <3> QED  BY <2>2, <3>3
  <2> QED  BY <2>2, <2>3 DEF vars
<1>8. CASE (\E t \in Threads : StartScrape(t) \/ ReadFamily(t) \/ FinishScrape(t)) \/ RespondRefused
  BY <1>8 DEF StartScrape, ReadFamily, FinishScrape, RespondRefused, Respond, vars, sinkVars
<1>9. CASE \/ Alone(Unblock) \/ Alone(CheckStop) \/ Alone(Receive) \/ Alone(ReceiveNothing)
           \/ Alone(ReceiveFails) \/ Alone(Scrape) \/ Alone(AcceptEnds)
  BY <1>9 DEF Alone, Unblock, CheckStop, Receive, ReceiveNothing, ReceiveFails, Scrape, AcceptEnds,
              sinkVars
<1>10. CASE UNCHANGED allVars
  BY <1>10 DEF allVars, vars, sinkVars
<1> QED  BY <1>1, <1>2, <1>3, <1>4, <1>5, <1>6, <1>7, <1>8, <1>9, <1>10
         DEF MetricsNext, ReportMessage, FlushBandwidth

\* Every step keeps the ledger.
LEMMA LedgerKeeps == TotalsInv /\ [MetricsNext]_allVars => LedgerInv'
<1> SUFFICES ASSUME TotalsInv, [MetricsNext]_allVars PROVE LedgerInv'
  OBVIOUS
<1>1. /\ given \in Seq(Packets)
      /\ handling = [g \in Goroutines |-> handling[g]]
      /\ \E k, at : Places(k, at, given, handling) /\ Sums(k, given, registry)
  BY DEF TotalsInv, LedgerInv
<1>2. PICK k, at : Places(k, at, given, handling) /\ Sums(k, given, registry)
  BY <1>1
<1>3. CASE UNCHANGED sinkVars
  BY <1>1, <1>3 DEF LedgerInv, sinkVars
<1>4. CASE build = "none" /\ registry' = <<>> /\ UNCHANGED <<handling, given>>
  <2>1. given = <<>> /\ DOMAIN registry' = {}
    BY <1>4 DEF TotalsInv, StageInv
  <2>2. Sums(k, given, registry')
    BY <2>1, NothingGiven
  <2> QED  BY <1>1, <1>2, <1>4, <2>2 DEF LedgerInv
<1>5. ASSUME NEW g \in Goroutines, NEW packet \in Packets, Report(g, packet, Updates(packet))
      PROVE  LedgerInv'
  <2>1. /\ handling[g] = <<>> /\ handling' = [handling EXCEPT ![g] = Updates(packet)]
        /\ given' = Append(given, packet) /\ registry' = registry
    BY <1>5 DEF Report
  <2>2. \E kk, aa : /\ Places(kk, aa, Append(given, packet),
                              [handling EXCEPT ![g] = Updates(packet)])
                    /\ Sums(kk, Append(given, packet), registry)
    BY <1>1, <1>2, <2>1, ReportKeeps
  <2>3. handling' = [x \in Goroutines |-> handling'[x]]
    BY <1>1, <2>1
  <2>4. given' \in Seq(Packets)
    BY <1>1, <2>1
  <2>5. \E kk, aa : Places(kk, aa, given', handling') /\ Sums(kk, given', registry')
    BY <2>1, <2>2
  <2> QED  BY <2>3, <2>4, <2>5 DEF LedgerInv
<1>6. ASSUME NEW g \in Goroutines, Apply(g) PROVE LedgerInv'
  <2> DEFINE u == Head(handling[g])
             a == at[g]
             kk == Counted(k, a, Len(given))
  <2>1. /\ handling[g] # <<>> /\ handling' = Shortened(handling, g)
        /\ registry' = Updated(registry, u) /\ given' = given
    BY <1>6 DEF Apply, Updated, Shortened
  <2>2. /\ a \in 1..Len(given)
        /\ k[a] \in Nat /\ k[a] + 1 <= Len(Updates(given[a]))
        /\ u = Updates(given[a])[k[a] + 1]
        /\ Places(kk, at, given, Shortened(handling, g))
    BY <1>1, <1>2, <2>1, ApplyPlaces
  <2> HIDE DEF u, a
  <2>3. \A i \in 1..Len(given) : k[i] \in 0..Len(Updates(given[i]))
    BY <1>2 DEF Places
  <2>4. Sums(kk, given, Updated(registry, u))
    BY <1>1, <1>2, <2>2, <2>3, ApplySums
  <2> HIDE DEF kk
  <2>5. handling' = [x \in Goroutines |-> handling'[x]]
    BY <1>1, <2>1 DEF Shortened
  <2>6. Places(kk, at, given', handling') /\ Sums(kk, given', registry')
    BY <2>1, <2>2, <2>4
  <2> QED  BY <1>1, <2>1, <2>5, <2>6 DEF LedgerInv
<1>7. ASSUME NEW w \in Workers, NEW m \in Messages, ReportMessage(w, m) PROVE LedgerInv'
  <2>1. w \in Goroutines /\ m \in Packets /\ Updates(m) = MessageUpdates(m)
    BY DEF Goroutines, Packets, Updates
  <2> QED  BY <1>5, <1>7, <2>1 DEF ReportMessage
<1>8. ASSUME NEW b \in Flushes, FlushBandwidth(b) PROVE LedgerInv'
  <2>1. b \notin Messages
    BY PacketsAssumption
  <2>2. Aggregator \in Goroutines /\ b \in Packets /\ Updates(b) = BandwidthUpdates(b)
    BY <2>1 DEF Goroutines, Packets, Updates
  <2> QED  BY <1>5, <1>8, <2>2 DEF FlushBandwidth
<1>9. \/ UNCHANGED sinkVars
      \/ build = "none" /\ registry' = <<>> /\ UNCHANGED <<handling, given>>
      \/ \E w \in Workers, m \in Messages : ReportMessage(w, m)
      \/ \E b \in Flushes : FlushBandwidth(b)
      \/ \E g \in Workers \cup {Aggregator} : Apply(g)
  BY DEF MetricsNext, RealiseServe, RealiseRegistry, BuildSucceeds, BuildFails, RollbackJoins,
         StartScrape, ReadFamily, FinishScrape, RespondRefused, Alone, allVars
<1> QED  BY <1>3, <1>4, <1>6, <1>7, <1>8, <1>9 DEF Goroutines

\* The inductive invariant of the pipeline: the stages of a build and the
\* ledger of updates, for any number of goroutines, packets and retries.
THEOREM TotalsInvariant == MetricsSpec => []TotalsInv
<1>1. TotalsInv /\ [MetricsNext]_allVars => TotalsInv'
  BY StageKeeps, LedgerKeeps DEF TotalsInv
<1> QED  BY <1>1, TotalsInit, PTL DEF MetricsSpec

\* Nothing is lost or counted twice: when no sink call is in progress, each
\* counter and each histogram's count is, as a u64, what the packets are worth,
\* however MessageSink::handle and BandwidthSink::handle interleaved.
THEOREM Totals == MetricsSpec => []TotalsAddUp
<1>1. TotalsInv => TotalsAddUp
  <2> SUFFICES ASSUME TotalsInv, \A g \in DOMAIN handling : handling[g] = <<>>
               PROVE  /\ \A s \in DOMAIN registry :
                           s[1] \in AddingFamilies => registry[s] = Worth(s) % CounterMod
                      /\ \A i \in DOMAIN given : \A f \in AddingFamilies, label \in LabelsOf(given[i]) :
                           PacketWorth(given[i], f, label) > 0 => <<f, label>> \in DOMAIN registry
    BY DEF TotalsAddUp
  <2>1. given \in Seq(Packets) /\ handling = [g \in Goroutines |-> handling[g]]
    BY DEF TotalsInv, LedgerInv
  <2>2. PICK k, at : Places(k, at, given, handling) /\ Sums(k, given, registry)
    BY DEF TotalsInv, LedgerInv
  <2>3. Len(given) \in Nat /\ DOMAIN given = 1..Len(given)
    BY <2>1
  <2>4. \A i \in 1..Len(given) : given[i] \in Packets
    BY <2>1
  <2>5. ASSUME NEW i \in 1..Len(given) PROVE k[i] = Len(Updates(given[i]))
    <3>1. CASE \E g \in Goroutines : at[g] = i
      <4>1. PICK g \in Goroutines : at[g] = i
        BY <3>1
      <4>2. i # 0 /\ handling[g] = <<>>
        BY <2>1
      <4>3. Rest(<<>>, Updates(given[i]), k[i])
        BY <2>2, <4>1, <4>2 DEF Places
      <4>4. 0 = Len(Updates(given[i])) - k[i]
        BY <4>3 DEF Rest
      <4>5. UpdateList(Updates(given[i]))
        BY <2>4, PacketAmounts
      <4>6. k[i] \in Int /\ Len(Updates(given[i])) \in Int
        BY <2>2, <4>5 DEF Places, UpdateList
      <4> QED  BY <4>4, <4>6
    <3>2. CASE ~\E g \in Goroutines : at[g] = i
      BY <2>2, <3>2 DEF Places
    <3> QED  BY <3>1, <3>2
  <2>6. ASSUME NEW i \in 1..Len(given), NEW f \in AddingFamilies, NEW l
        PROVE  Parts(k, given, <<f, l>>)[i] = PacketWorth(given[i], f, l)
    <3>1. Parts(k, given, <<f, l>>)[i] = WholeAmount(Updates(given[i]), <<f, l>>)
      BY <2>5 DEF Parts, WholeAmount
    <3> QED  BY <2>4, <3>1, PacketAmounts
  <2>7. ASSUME NEW s \in DOMAIN registry, s[1] \in AddingFamilies
        PROVE  registry[s] = Worth(s) % CounterMod
    <3>1. PICK f, l : s = <<f, l>>
      BY <2>2 DEF Sums
    <3>2. f \in AddingFamilies /\ s[1] = f /\ s[2] = l
      BY <2>7, <3>1
    <3> DEFINE p == Parts(k, given, <<f, l>>)
               w == [i \in DOMAIN given |-> PacketWorth(given[i], s[1], s[2])]
    <3>3. \A i \in 1..Len(given) : w[i] = PacketWorth(given[i], f, l)
      BY <2>3, <3>2
    <3>4. \A i \in 1..Len(given) : p[i] = PacketWorth(given[i], f, l)
      BY <2>6, <3>2
    <3>5. Worth(s) = SumTo(w, Len(given))
      BY DEF Worth
    <3>6. Value(registry, <<f, l>>) = SumTo(p, Len(given)) % CounterMod
      BY <2>2, <3>2 DEF Sums
    <3> HIDE DEF p, w
    <3>7. SumTo(p, Len(given)) = SumTo(w, Len(given))
      BY <2>3, <3>3, <3>4, SumSame
    <3> QED  BY <3>1, <3>5, <3>6, <3>7 DEF Value
  <2>8. ASSUME NEW i \in DOMAIN given, NEW f \in AddingFamilies, NEW l \in LabelsOf(given[i]),
               PacketWorth(given[i], f, l) > 0
        PROVE  <<f, l>> \in DOMAIN registry
    <3>1. i \in 1..Len(given)
      BY <2>3
    <3>2. Parts(k, given, <<f, l>>)[i] > 0
      BY <2>6, <2>8, <3>1
    <3>3. <<f, l>> \notin DOMAIN registry => Parts(k, given, <<f, l>>)[i] = 0
      BY <2>2, <3>1 DEF Sums
    <3> QED  BY <3>2, <3>3
  <2> QED  BY <2>7, <2>8
<1> QED  BY <1>1, TotalsInvariant, PTL

-----------------------------------------------------------------------------
(* Scrapes *)

\* No counter and no histogram has wrapped: all that was reported fits a u64.
NoWrap == \A s \in DOMAIN registry : s[1] \in AddingFamilies => Worth(s) < CounterMod

\* While none has, a counter holds the sum itself.
LEMMA Exact ==
  ASSUME NEW k, NEW packets \in Seq(Packets), NEW r,
         \A i \in 1..Len(packets) : k[i] \in 0..Len(Updates(packets[i])), Sums(k, packets, r),
         \A s \in DOMAIN r : s[1] \in AddingFamilies =>
           SumTo([i \in DOMAIN packets |-> PacketWorth(packets[i], s[1], s[2])], Len(packets))
             < CounterMod
  PROVE  \A f \in AddingFamilies : \A l :
           /\ Value(r, <<f, l>>) = SumTo(Parts(k, packets, <<f, l>>), Len(packets))
           /\ Value(r, <<f, l>>) \in Nat
<1> SUFFICES ASSUME NEW f \in AddingFamilies, NEW l
             PROVE  /\ Value(r, <<f, l>>) = SumTo(Parts(k, packets, <<f, l>>), Len(packets))
                    /\ Value(r, <<f, l>>) \in Nat
  OBVIOUS
<1> DEFINE s == <<f, l>>
           N == Len(packets)
           p == Parts(k, packets, s)
           w == [i \in DOMAIN packets |-> PacketWorth(packets[i], s[1], s[2])]
<1>1. N \in Nat /\ DOMAIN packets = 1..N /\ \A i \in 1..N : packets[i] \in Packets
  OBVIOUS
<1>2. (\A i \in 1..N : p[i] \in Nat) /\ SumTo(p, N) \in Nat
  BY PartsNat
<1>3. Value(r, s) = SumTo(p, N) % CounterMod /\ (s \notin DOMAIN r => \A i \in 1..N : p[i] = 0)
  BY DEF Sums
<1>4. s[1] = f /\ s[2] = l
  OBVIOUS
<1>5. s \in DOMAIN r => SumTo(w, N) < CounterMod
  BY <1>4
<1>6. ASSUME NEW i \in 1..N PROVE w[i] \in Nat /\ p[i] \in Nat /\ p[i] <= w[i]
  <2> DEFINE us == Updates(packets[i])
  <2>1. UpdateList(us) /\ WholeAmount(us, s) = PacketWorth(packets[i], f, l)
    BY <1>1, PacketAmounts
  <2>2. w[i] = WholeAmount(us, s)
    BY <1>1, <1>4, <2>1
  <2>3. p[i] = Amount(us, k[i], s) /\ k[i] \in 0..Len(us)
    BY DEF Parts
  <2>4. Len(us) \in Nat
    BY <2>1 DEF UpdateList
  <2>5. Len(us) \in 0..Len(us)
    BY <2>4
  <2> HIDE DEF us, p, w, s
  <2>6. Amount(us, k[i], s) <= WholeAmount(us, s) /\ Amount(us, k[i], s) \in Nat
    BY <2>1, <2>3, AmountSteps
  <2>7. Amount(us, Len(us), s) \in Nat
    BY <2>1, <2>5, AmountSteps
  <2> QED  BY <2>2, <2>3, <2>6, <2>7 DEF WholeAmount
<1> HIDE DEF p, w, N, s
<1>7. CASE s \in DOMAIN r
  <2>1. SumTo(p, N) <= SumTo(w, N)
    BY <1>1, <1>6, SumLess
  <2>2. N \in 0..N
    BY <1>1
  <2>3. SumTo(w, N) \in Nat
    BY <1>1, <1>6, <2>2, SumNat
  <2>4. SumTo(p, N) < CounterMod /\ CounterMod \in Nat
    BY <1>2, <1>5, <1>7, <2>1, <2>3, PacketsAssumption
  <2>5. SumTo(p, N) % CounterMod = SumTo(p, N)
    <3> DEFINE x == SumTo(p, N)
    <3>1. x \in Nat /\ x < CounterMod /\ CounterMod > 0 /\ 0 \in Int
      BY <1>2, <2>4
    <3> HIDE DEF x
    <3>2. x = CounterMod * 0 + x
      BY <2>4, <3>1
    <3>3. x % CounterMod = x
      BY <2>4, <3>1, <3>2, Remainder
    <3> QED  BY <3>3 DEF x
  <2> QED  BY <1>2, <1>3, <2>5 DEF s, p, N
<1>8. CASE s \notin DOMAIN r
  <2>1. SumTo(p, N) = 0
    BY <1>1, <1>3, <1>8, SumZero
  <2>2. Value(r, s) = 0
    BY <1>8 DEF Value
  <2> QED  BY <2>1, <2>2 DEF s, p, N
<1> QED  BY <1>7, <1>8

\* At any point of a call, the message is counted if a condition of it is.
LEMMA CountedFirst ==
  ASSUME NEW packet \in Packets, NEW n \in 0..Len(Updates(packet)),
         NEW f \in ToSet(Conditions), NEW l
  PROVE  Amount(Updates(packet), n, <<f, l>>) <= Amount(Updates(packet), n, <<"processed", l>>)
<1> DEFINE us == Updates(packet)
           s  == <<f, l>>
           t  == <<"processed", l>>
<1>1. UpdateList(us) /\ f \in AddingFamilies /\ WholeAmount(us, s) = PacketWorth(packet, f, l)
  BY PacketAmounts, FamiliesAre DEF AddingFamilies
<1>2. n \in Nat /\ Len(us) \in Nat /\ n <= Len(us) /\ n \in 0..Len(us)
  BY <1>1 DEF UpdateList
<1> HIDE DEF us
<1>3. /\ Amount(us, 0, s) = 0 /\ Amount(us, 0, t) = 0
      /\ Amount(us, n, s) <= WholeAmount(us, s)
      /\ Amount(us, n, s) \in Nat /\ Amount(us, n, t) \in Nat
  <2> HIDE DEF s, t
  <2> QED  BY <1>1, <1>2, AmountSteps
<1>4. CASE n = 0
  BY <1>3, <1>4 DEF us
<1>5. CASE n # 0 /\ packet \in Messages
  <2> DEFINE u == us[1]
  <2>1. u = Inc("processed", <<packet.partition>>, 1)
    BY <1>5, MessageAmounts DEF us, Updates
  <2>2. u.set = FALSE /\ u.series = <<"processed", <<packet.partition>>>> /\ u.value = 1
    BY <2>1 DEF Inc
  <2>3. Contribution(u, t) = IF l = <<packet.partition>> THEN 1 ELSE 0
    BY <2>2 DEF Contribution
  <2> HIDE DEF u
  <2>4. Amount(us, 1, t) = Contribution(u, t)
    <3>1. 0 \in Nat /\ 0 + 1 = 1 /\ 0 + 1 <= Len(us)
      BY <1>2, <1>5
    <3>2. Amount(us, 0 + 1, t) = Amount(us, 0, t) + Contribution(us[0 + 1], t)
      BY <1>1, <3>1, AmountSteps
    <3> QED  BY <1>3, <2>3, <3>1, <3>2 DEF u
  <2>5. Amount(us, 1, t) <= Amount(us, n, t)
    <3> DEFINE c == Contributions(us, t)
    <3>1. \A j \in 1..n : c[j] \in Nat
      BY <1>1, <1>2, ContributionNat DEF Contributions, UpdateList
    <3>2. 1 \in 0..n
      BY <1>2, <1>5
    <3> HIDE DEF c
    <3>3. SumTo(c, 1) <= SumTo(c, n)
      BY <1>2, <3>1, <3>2, SumMonotone
    <3> QED  BY <3>3 DEF Amount, c
  <2>6. PacketWorth(packet, f, l) = IF l = <<packet.partition>> THEN MessageWorth(packet, f) ELSE 0
    BY <1>5 DEF PacketWorth
  <2>7. MessageWorth(packet, f) \in {0, 1}
    BY FamiliesAre DEF MessageWorth, Indicator
  <2> HIDE DEF s, t
  <2>8. Amount(us, n, s) <= Amount(us, n, t)
    BY <1>1, <1>3, <2>3, <2>4, <2>5, <2>6, <2>7
  <2> QED  BY <2>8 DEF s, t, us
<1>6. CASE packet \notin Messages
  <2> DEFINE N == Len(packet.partitions)
             c == [i \in DOMAIN packet.partitions |-> PartitionWorth(packet.partitions[i], f, l)]
  <2>1. N \in Nat /\ DOMAIN packet.partitions = 1..N
    <3>1. packet \in Flushes
      BY <1>6 DEF Packets
    <3>2. \E T : packet.partitions \in Seq(T)
      BY <3>1, PacketsAssumption
    <3> QED  BY <3>2
  <2>2. \A i \in 1..N : c[i] = 0
    <3>1. f \notin ToSet(PartitionCounters) /\ f \notin ToSet(CompressionCounters)
      BY FamiliesAre
    <3> QED  BY <2>1, <3>1 DEF PartitionWorth
  <2>3. PacketWorth(packet, f, l) = SumTo(c, N)
    BY <1>6 DEF PacketWorth
  <2> HIDE DEF c, N
  <2>4. SumTo(c, N) = 0
    BY <2>1, <2>2, SumZero
  <2> HIDE DEF s, t
  <2>5. Amount(us, n, s) <= Amount(us, n, t)
    BY <1>1, <1>3, <2>3, <2>4
  <2> QED  BY <2>5 DEF s, t, us
<1> QED  BY <1>4, <1>5, <1>6

\* So the registry never shows more of a condition than messages.
LEMMA MessagesFirst ==
  ASSUME TotalsInv, NoWrap
  PROVE  \A f \in ToSet(Conditions) : \A l :
           /\ Value(registry, <<f, l>>) <= Value(registry, <<"processed", l>>)
           /\ Value(registry, <<f, l>>) \in Nat /\ Value(registry, <<"processed", l>>) \in Nat
<1> SUFFICES ASSUME NEW f \in ToSet(Conditions), NEW l
             PROVE  /\ Value(registry, <<f, l>>) <= Value(registry, <<"processed", l>>)
                    /\ Value(registry, <<f, l>>) \in Nat
                    /\ Value(registry, <<"processed", l>>) \in Nat
  OBVIOUS
<1>1. given \in Seq(Packets)
  BY DEF TotalsInv, LedgerInv
<1>2. PICK k, at : Places(k, at, given, handling) /\ Sums(k, given, registry)
  BY DEF TotalsInv, LedgerInv
<1>3. \A i \in 1..Len(given) : k[i] \in 0..Len(Updates(given[i]))
  BY <1>2 DEF Places
<1>4. \A f1 \in AddingFamilies : \A l1 :
        /\ Value(registry, <<f1, l1>>) = SumTo(Parts(k, given, <<f1, l1>>), Len(given))
        /\ Value(registry, <<f1, l1>>) \in Nat
  BY <1>1, <1>2, <1>3, Exact DEF NoWrap, Worth
<1>5. f \in AddingFamilies /\ "processed" \in AddingFamilies
  BY FamiliesAre DEF AddingFamilies
<1> DEFINE p == Parts(k, given, <<f, l>>)
           q == Parts(k, given, <<"processed", l>>)
<1>6. Len(given) \in Nat /\ \A i \in 1..Len(given) : given[i] \in Packets
  BY <1>1
<1>7. \A i \in 1..Len(given) : p[i] \in Nat
  BY <1>1, <1>3, PartsNat
<1>8. \A i \in 1..Len(given) : q[i] \in Nat
  BY <1>1, <1>3, PartsNat
<1>9. ASSUME NEW i \in 1..Len(given) PROVE p[i] <= q[i]
  BY <1>3, <1>6, CountedFirst DEF Parts
<1> HIDE DEF p, q
<1>10. SumTo(p, Len(given)) <= SumTo(q, Len(given))
  BY <1>6, <1>7, <1>8, <1>9, SumLess
<1> QED  BY <1>4, <1>5, <1>10 DEF p, q

\* A step takes no series away and lowers no counter.
LEMMA RegistryGrows ==
  ASSUME TotalsInv, NoWrap, NoWrap', [MetricsNext]_allVars
  PROVE  \A s \in DOMAIN registry :
           /\ s \in DOMAIN registry'
           /\ s[1] \in AddingFamilies =>
                registry[s] \in Nat /\ registry'[s] \in Nat /\ registry[s] <= registry'[s]
<1> SUFFICES ASSUME NEW s \in DOMAIN registry
             PROVE  /\ s \in DOMAIN registry'
                    /\ s[1] \in AddingFamilies =>
                         registry[s] \in Nat /\ registry'[s] \in Nat /\ registry[s] <= registry'[s]
  OBVIOUS
<1>1. given \in Seq(Packets) /\ handling = [g \in Goroutines |-> handling[g]]
  BY DEF TotalsInv, LedgerInv
<1>2. PICK k, at : Places(k, at, given, handling) /\ Sums(k, given, registry)
  BY DEF TotalsInv, LedgerInv
<1>3. \A i \in 1..Len(given) : k[i] \in 0..Len(Updates(given[i]))
  BY <1>2 DEF Places
<1>4. \A f \in AddingFamilies : \A l :
        /\ Value(registry, <<f, l>>) = SumTo(Parts(k, given, <<f, l>>), Len(given))
        /\ Value(registry, <<f, l>>) \in Nat
  BY <1>1, <1>2, <1>3, Exact DEF NoWrap, Worth
<1>5. PICK f, l : s = <<f, l>>
  BY <1>2 DEF Sums
<1>6. s[1] = f /\ registry[s] = Value(registry, <<f, l>>)
  BY <1>5 DEF Value
<1>7. CASE registry' = registry
  BY <1>4, <1>6, <1>7
<1>8. ASSUME NEW g \in Goroutines, Apply(g)
      PROVE  /\ s \in DOMAIN registry'
             /\ s[1] \in AddingFamilies =>
                  registry[s] \in Nat /\ registry'[s] \in Nat /\ registry[s] <= registry'[s]
  <2> DEFINE u == Head(handling[g])
             a == at[g]
             kk == Counted(k, a, Len(given))
  <2>1. /\ handling[g] # <<>> /\ handling' = Shortened(handling, g)
        /\ registry' = Updated(registry, u) /\ given' = given
    BY <1>8 DEF Apply, Updated, Shortened
  <2>2. /\ a \in 1..Len(given)
        /\ k[a] \in Nat /\ k[a] + 1 <= Len(Updates(given[a]))
        /\ u = Updates(given[a])[k[a] + 1]
        /\ Places(kk, at, given, Shortened(handling, g))
    BY <1>1, <1>2, <2>1, ApplyPlaces
  <2>3. DOMAIN registry' = DOMAIN registry \cup {u.series}
    BY <2>1 DEF Updated
  <2> HIDE DEF u, a
  <2>4. /\ Sums(kk, given, Updated(registry, u))
        /\ \A f1 \in AddingFamilies : \A l1 :
             SumTo(Parts(k, given, <<f1, l1>>), Len(given)) <=
               SumTo(Parts(kk, given, <<f1, l1>>), Len(given))
    BY <1>1, <1>2, <1>3, <2>2, ApplySums
  <2>5. \A i \in 1..Len(given) : kk[i] \in 0..Len(Updates(given[i]))
    <3> HIDE DEF kk
    <3> QED  BY <2>2 DEF Places
  <2> HIDE DEF kk
  <2>6. \A x \in DOMAIN registry' : x[1] \in AddingFamilies =>
          SumTo([i \in DOMAIN given |-> PacketWorth(given[i], x[1], x[2])], Len(given)) < CounterMod
    BY <2>1 DEF NoWrap, Worth
  <2>7. Sums(kk, given, registry')
    BY <2>1, <2>4
  <2>8. \A f1 \in AddingFamilies : \A l1 :
          /\ Value(registry', <<f1, l1>>) = SumTo(Parts(kk, given, <<f1, l1>>), Len(given))
          /\ Value(registry', <<f1, l1>>) \in Nat
    BY <1>1, <2>5, <2>6, <2>7, Exact
  <2>9. s \in DOMAIN registry' /\ registry'[s] = Value(registry', <<f, l>>)
    BY <1>5, <2>3 DEF Value
  <2>10. ASSUME f \in AddingFamilies
         PROVE  registry[s] \in Nat /\ registry'[s] \in Nat /\ registry[s] <= registry'[s]
    BY <1>4, <1>6, <2>4, <2>8, <2>9, <2>10
  <2> QED  BY <1>6, <2>9, <2>10
<1>9. CASE build = "none"
  BY <1>9 DEF TotalsInv, StageInv
<1>10. \/ registry' = registry
       \/ build = "none"
       \/ \E g \in Workers \cup {Aggregator} : Apply(g)
  BY DEF MetricsNext, RealiseServe, RealiseRegistry, BuildSucceeds, BuildFails, RollbackJoins,
         ReportMessage, FlushBandwidth, Report,
         StartScrape, ReadFamily, FinishScrape, RespondRefused, Alone, allVars, sinkVars
<1> QED  BY <1>7, <1>8, <1>9, <1>10 DEF Goroutines

\* An exposition shows counters, none above the registry's.
Within(shown, r) ==
  \A s \in DOMAIN shown :
    /\ s \in DOMAIN r /\ s[1] \in ToSet(CounterFamilies)
    /\ shown[s] \in Nat /\ r[s] \in Nat /\ shown[s] <= r[s]

\* What a scrape under way shows is within the registry.
RenderedBy(x, r) == Within(x.shown, r) /\ x.left \in Seq(ToSet(CounterFamilies))

(***************************************************************************)
(* Of the families already read, the scrape x shows no counter below the   *)
(* exposition e; and once it has read processed, it has all the messages   *)
(* whose conditions e shows.                                               *)
(***************************************************************************)
After(x, e) ==
  /\ \A s \in DOMAIN e :
       \/ s[1] \in ToSet(x.left)
       \/ s \in DOMAIN x.shown /\ e[s] <= x.shown[s]
  /\ \/ "processed" \in ToSet(x.left)
     \/ \A s \in DOMAIN e :
          s[1] \in ToSet(Conditions) => e[s] <= Value(x.shown, <<"processed", s[2]>>)

ScrapeInv ==
  /\ scrape = [t \in Threads |-> scrape[t]]
  /\ \A e \in rendered : Within(e, registry)
  /\ \A t \in Threads :
       scrape[t] # Null =>
         /\ RenderedBy(scrape[t], registry)
         /\ scrape[t].before \subseteq rendered
         /\ \A e \in scrape[t].before : After(scrape[t], e)

\* What was within the registry stays within it as it grows.
LEMMA WithinGrows ==
  ASSUME NEW shown, NEW r, NEW rr, Within(shown, r),
         \A s \in DOMAIN r :
           /\ s \in DOMAIN rr
           /\ s[1] \in AddingFamilies => r[s] \in Nat /\ rr[s] \in Nat /\ r[s] <= rr[s]
  PROVE  Within(shown, rr)
<1> SUFFICES ASSUME NEW s \in DOMAIN shown
             PROVE  /\ s \in DOMAIN rr /\ s[1] \in ToSet(CounterFamilies)
                    /\ shown[s] \in Nat /\ rr[s] \in Nat /\ shown[s] <= rr[s]
  BY DEF Within
<1>1. /\ s \in DOMAIN r /\ s[1] \in ToSet(CounterFamilies)
      /\ shown[s] \in Nat /\ r[s] \in Nat /\ shown[s] <= r[s]
  BY DEF Within
<1>2. s \in DOMAIN rr /\ rr[s] \in Nat /\ r[s] <= rr[s]
  BY <1>1 DEF AddingFamilies
<1> QED  BY <1>1, <1>2

\* The encoder reads its next family.
LEMMA ReadKeeps ==
  ASSUME TotalsInv, NoWrap, NEW x, x.left # <<>>, RenderedBy(x, registry),
         NEW e, Within(e, registry), After(x, e)
  PROVE  RenderedBy(WithFamily(x, registry), registry) /\ After(WithFamily(x, registry), e)
<1> DEFINE h == Head(x.left)
           series == {s \in DOMAIN registry : s[1] = h}
           shown == x.shown
           next == [s \in DOMAIN shown \cup series |->
                      IF s \in series THEN registry[s] ELSE shown[s]]
<1>2. WithFamily(x, registry).left = Tail(x.left) /\ WithFamily(x, registry).shown = next
  BY DEF WithFamily
<1>3. /\ Within(shown, registry) /\ x.left \in Seq(ToSet(CounterFamilies))
      /\ \A s \in DOMAIN e :
           s[1] \in ToSet(x.left) \/ (s \in DOMAIN shown /\ e[s] <= shown[s])
      /\ \/ "processed" \in ToSet(x.left)
         \/ \A s \in DOMAIN e :
              s[1] \in ToSet(Conditions) => e[s] <= Value(shown, <<"processed", s[2]>>)
      /\ Within(e, registry)
  BY DEF RenderedBy, After
<1> DEFINE left == x.left
<1>4. /\ Tail(left) \in Seq(ToSet(CounterFamilies)) /\ h \in ToSet(CounterFamilies)
      /\ \A y \in ToSet(left) : y = h \/ y \in ToSet(Tail(left))
  <2> DEFINE T == ToSet(CounterFamilies)
  <2>1. left \in Seq(T) /\ left # <<>>
    BY <1>3
  <2> HIDE DEF left, T
  <2>2. Len(left) \in Nat /\ Len(left) > 0 /\ DOMAIN left = 1..Len(left)
    BY <2>1
  <2>3. /\ Tail(left) \in Seq(T) /\ Head(left) = left[1] /\ left[1] \in T
        /\ Len(Tail(left)) = Len(left) - 1 /\ DOMAIN Tail(left) = 1..(Len(left) - 1)
        /\ \A i \in 1..(Len(left) - 1) : Tail(left)[i] = left[i + 1]
    BY <2>1, <2>2
  <2>4. ASSUME NEW y \in ToSet(left), y # left[1] PROVE y \in ToSet(Tail(left))
    <3>1. PICK i \in 1..Len(left) : y = left[i]
      BY <2>2 DEF ToSet
    <3> DEFINE j == i - 1
    <3>2. j \in 1..(Len(left) - 1) /\ i = j + 1
      BY <2>2, <2>4, <3>1
    <3> HIDE DEF j
    <3>3. y = Tail(left)[j]
      BY <2>3, <3>1, <3>2
    <3> QED  BY <2>3, <3>2, <3>3 DEF ToSet
  <2>5. h = left[1]
    BY <2>3 DEF left
  <2> QED  BY <2>3, <2>4, <2>5 DEF T
<1>5. /\ DOMAIN next = DOMAIN shown \cup series
      /\ \A s \in series : next[s] = registry[s]
      /\ \A s \in DOMAIN shown : s \notin series => next[s] = shown[s]
  OBVIOUS
<1>6. \A s \in DOMAIN registry : s[1] = h <=> s \in series
  OBVIOUS
<1>7. \A s \in DOMAIN registry : s[1] \in AddingFamilies => registry[s] \in Nat
  <2>1. PICK k, at : Places(k, at, given, handling) /\ Sums(k, given, registry)
    BY DEF TotalsInv, LedgerInv
  <2>2. given \in Seq(Packets) /\ \A i \in 1..Len(given) : k[i] \in 0..Len(Updates(given[i]))
    BY <2>1 DEF Places, TotalsInv, LedgerInv
  <2>3. \A f \in AddingFamilies : \A l : Value(registry, <<f, l>>) \in Nat
    BY <2>1, <2>2, Exact DEF NoWrap, Worth
  <2>4. \A s \in DOMAIN registry : \E f, l : s = <<f, l>>
    BY <2>1 DEF Sums
  <2>5. ASSUME NEW s \in DOMAIN registry, s[1] \in AddingFamilies PROVE registry[s] \in Nat
    <3>1. PICK f, l : s = <<f, l>>
      BY <2>4
    <3>2. Value(registry, <<f, l>>) = registry[s] /\ f \in AddingFamilies
      BY <2>5, <3>1 DEF Value
    <3> QED  BY <2>3, <3>2
  <2> QED  BY <2>5
<1> HIDE DEF next, h, series, shown, left
<1>8. ASSUME NEW s \in series PROVE s \in DOMAIN registry /\ s[1] = h
  BY DEF series
<1>9. Within(next, registry)
  <2> SUFFICES ASSUME NEW s \in DOMAIN next
               PROVE  /\ s \in DOMAIN registry /\ s[1] \in ToSet(CounterFamilies)
                      /\ next[s] \in Nat /\ registry[s] \in Nat /\ next[s] <= registry[s]
    BY DEF Within
  <2>1. CASE s \in series
    BY <1>4, <1>5, <1>7, <1>8, <2>1 DEF AddingFamilies
  <2>2. CASE s \notin series
    BY <1>3, <1>5, <2>2 DEF Within
  <2> QED  BY <2>1, <2>2
<1>10. ASSUME NEW s \in DOMAIN e
       PROVE  s[1] \in ToSet(Tail(left)) \/ (s \in DOMAIN next /\ e[s] <= next[s])
  <2>1. s \in DOMAIN registry /\ e[s] <= registry[s]
    BY <1>3 DEF Within
  <2>2. CASE s \in series
    BY <1>5, <2>1, <2>2
  <2>3. CASE s \notin series
    <3>1. s[1] # h
      BY <1>6, <2>1, <2>3
    <3>2. s[1] \in ToSet(left) \/ (s \in DOMAIN shown /\ e[s] <= shown[s])
      BY <1>3 DEF left
    <3>3. CASE s[1] \in ToSet(left)
      BY <1>4, <3>1, <3>3
    <3>4. CASE s \in DOMAIN shown /\ e[s] <= shown[s]
      <4>1. next[s] = shown[s] /\ s \in DOMAIN next
        BY <1>5, <2>3, <3>4
      <4> QED  BY <3>4, <4>1
    <3> QED  BY <3>2, <3>3, <3>4
  <2> QED  BY <2>2, <2>3
<1>11. \/ "processed" \in ToSet(Tail(left))
       \/ \A s \in DOMAIN e :
            s[1] \in ToSet(Conditions) => e[s] <= Value(next, <<"processed", s[2]>>)
  <2>1. CASE h = "processed"
    <3> SUFFICES ASSUME NEW s \in DOMAIN e, s[1] \in ToSet(Conditions)
                 PROVE  e[s] <= Value(next, <<"processed", s[2]>>)
      OBVIOUS
    <3>1. s \in DOMAIN registry /\ e[s] \in Nat /\ registry[s] \in Nat /\ e[s] <= registry[s]
      BY <1>3 DEF Within
    <3>2. PICK f, l : s = <<f, l>>
      BY <3>1 DEF TotalsInv, LedgerInv, Sums
    <3>3. f \in ToSet(Conditions) /\ s[2] = l /\ registry[s] = Value(registry, <<f, l>>)
      BY <3>1, <3>2 DEF Value
    <3> DEFINE t == <<"processed", l>>
    <3>4. registry[s] <= Value(registry, t) /\ Value(registry, t) \in Nat
      BY <3>3, MessagesFirst
    <3>5. t[1] = "processed"
      OBVIOUS
    <3> HIDE DEF t
    <3>6. CASE t \in DOMAIN registry
      <4>1. t \in series /\ next[t] = registry[t] /\ t \in DOMAIN next
        BY <1>5, <1>6, <2>1, <3>5, <3>6
      <4>2. Value(next, t) = Value(registry, t)
        BY <3>6, <4>1 DEF Value
      <4> QED  BY <3>1, <3>3, <3>4, <4>2 DEF t
    <3>7. CASE t \notin DOMAIN registry
      <4>1. t \notin DOMAIN next
        BY <1>9, <3>7 DEF Within
      <4>2. Value(next, t) = 0 /\ Value(registry, t) = 0
        BY <3>7, <4>1 DEF Value
      <4> QED  BY <3>1, <3>3, <3>4, <4>2 DEF t
    <3> QED  BY <3>6, <3>7
  <2>2. CASE h # "processed" /\ "processed" \in ToSet(left)
    BY <1>4, <2>2
  <2>3. CASE h # "processed" /\ "processed" \notin ToSet(left)
    <3>1. \A s \in DOMAIN e :
            s[1] \in ToSet(Conditions) => e[s] <= Value(shown, <<"processed", s[2]>>)
      BY <1>3, <2>3 DEF left
    <3>2. ASSUME NEW l PROVE Value(next, <<"processed", l>>) = Value(shown, <<"processed", l>>)
      <4> DEFINE t == <<"processed", l>>
      <4>1. t[1] = "processed"
        OBVIOUS
      <4> HIDE DEF t
      <4>2. t \notin series
        BY <1>8, <2>3, <4>1
      <4>3. (t \in DOMAIN next <=> t \in DOMAIN shown) /\ (t \in DOMAIN shown => next[t] = shown[t])
        BY <1>5, <4>2
      <4> QED  BY <4>3 DEF Value, t
    <3> QED  BY <3>1, <3>2
  <2> QED  BY <2>1, <2>2, <2>3
<1>12. RenderedBy(WithFamily(x, registry), registry)
  BY <1>2, <1>4, <1>9 DEF RenderedBy
<1>13. After(WithFamily(x, registry), e)
  BY <1>2, <1>10, <1>11 DEF After, left
<1> QED  BY <1>12, <1>13

\* A scrape that has read nothing.
LEMMA StartShows ==
  ASSUME NEW r, NEW x, x.left = CounterFamilies, x.shown = <<>>
  PROVE  RenderedBy(x, r) /\ \A e : Within(e, r) => After(x, e)
<1>1. x.left \in Seq(ToSet(CounterFamilies)) /\ DOMAIN x.shown = {}
  BY FamiliesAre
<1>2. RenderedBy(x, r)
  BY <1>1 DEF RenderedBy, Within
<1>3. "processed" \in ToSet(x.left)
  BY FamiliesAre
<1>4. ASSUME NEW e, Within(e, r) PROVE After(x, e)
  BY <1>3, <1>4 DEF After, Within
<1> QED  BY <1>2, <1>4

\* An exposition that shows nothing asks nothing of the scrapes after it.
LEMMA EmptyBefore ==
  ASSUME NEW x, NEW e, DOMAIN e = {} PROVE After(x, e)
  BY DEF After

\* While nothing wraps, every step keeps what scrapes have shown.
LEMMA ScrapeKeeps ==
  ASSUME TotalsInv, NoWrap, NoWrap', ScrapeInv, [MetricsNext]_allVars
  PROVE  ScrapeInv'
<1> DEFINE Kept(x) == /\ RenderedBy(x, registry')
                      /\ x.before \subseteq rendered'
                      /\ \A e \in x.before : After(x, e)
<1>1. \A s \in DOMAIN registry :
        /\ s \in DOMAIN registry'
        /\ s[1] \in AddingFamilies =>
             registry[s] \in Nat /\ registry'[s] \in Nat /\ registry[s] <= registry'[s]
  BY RegistryGrows
<1>2. ASSUME NEW e \in rendered PROVE Within(e, registry) /\ Within(e, registry')
  <2>1. Within(e, registry)
    BY DEF ScrapeInv
  <2> QED  BY <1>1, <2>1, WithinGrows
<1>3. ASSUME NEW t \in Threads, scrape[t] # Null
      PROVE  /\ RenderedBy(scrape[t], registry) /\ RenderedBy(scrape[t], registry')
             /\ scrape[t].before \subseteq rendered
             /\ \A e \in scrape[t].before : After(scrape[t], e)
  <2>1. /\ RenderedBy(scrape[t], registry) /\ scrape[t].before \subseteq rendered
        /\ \A e \in scrape[t].before : After(scrape[t], e)
    BY <1>3 DEF ScrapeInv
  <2>2. Within(scrape[t].shown, registry')
    BY <1>1, <2>1, WithinGrows DEF RenderedBy
  <2> QED  BY <2>1, <2>2 DEF RenderedBy
<1>4. scrape = [t \in Threads |-> scrape[t]]
  BY DEF ScrapeInv
<1> HIDE DEF Kept
<1>5. ASSUME NEW t \in Threads, scrape[t] # Null, rendered \subseteq rendered'
      PROVE  Kept(scrape[t])
  BY <1>3, <1>5 DEF Kept
<1>6. ASSUME scrape' = [t \in Threads |-> scrape'[t]],
             \A e \in rendered' : Within(e, registry'),
             \A t \in Threads : scrape'[t] # Null => Kept(scrape'[t])
      PROVE  ScrapeInv'
  BY <1>6 DEF ScrapeInv, Kept
<1>7. CASE UNCHANGED <<scrape, rendered>>
  <2>1. \A t \in Threads : scrape'[t] # Null => Kept(scrape'[t])
    BY <1>5, <1>7
  <2> QED  BY <1>2, <1>4, <1>6, <1>7, <2>1
<1>8. ASSUME NEW t \in Threads, StartScrape(t) PROVE ScrapeInv'
  <2> DEFINE x == [left |-> CounterFamilies, shown |-> <<>>, before |-> rendered]
  <2>1. scrape' = [scrape EXCEPT ![t] = x] /\ rendered' = rendered /\ registry' = registry
    BY <1>8 DEF StartScrape, sinkVars
  <2>2. x.left = CounterFamilies /\ x.shown = <<>> /\ x.before = rendered
    OBVIOUS
  <2> HIDE DEF x
  <2>3. Kept(x)
    BY <1>2, <2>1, <2>2, StartShows DEF Kept
  <2>4. \A u \in Threads : scrape'[u] = IF u = t THEN x ELSE scrape[u]
    BY <1>4, <2>1
  <2>5. \A u \in Threads : scrape'[u] # Null => Kept(scrape'[u])
    BY <1>5, <2>1, <2>3, <2>4
  <2>6. scrape' = [u \in Threads |-> scrape'[u]]
    BY <1>4, <2>1
  <2> QED  BY <1>2, <1>6, <2>1, <2>5, <2>6
<1>9. ASSUME NEW t \in Threads, ReadFamily(t) PROVE ScrapeInv'
  <2> DEFINE x == WithFamily(scrape[t], registry)
  <2>1. /\ scrape[t] # Null /\ scrape[t].left # <<>> /\ scrape' = [scrape EXCEPT ![t] = x]
        /\ rendered' = rendered /\ registry' = registry
    BY <1>9 DEF ReadFamily, sinkVars
  <2>2. x.before = scrape[t].before
    BY DEF WithFamily
  <2>3. RenderedBy(scrape[t], registry) /\ scrape[t].before \subseteq rendered
        /\ \A e \in scrape[t].before : After(scrape[t], e) /\ Within(e, registry)
    BY <1>2, <1>3, <2>1
  <2>4. \A e \in scrape[t].before : After(x, e)
    BY <2>1, <2>3, ReadKeeps
  <2>5. RenderedBy(x, registry)
    <3>1. DOMAIN <<>> = {}
      OBVIOUS
    <3>2. Within(<<>>, registry) /\ After(scrape[t], <<>>)
      BY <3>1, EmptyBefore DEF Within
    <3> QED  BY <2>1, <2>3, <3>2, ReadKeeps
  <2> HIDE DEF x
  <2>6. Kept(x)
    BY <2>1, <2>2, <2>3, <2>4, <2>5 DEF Kept
  <2>7. \A u \in Threads : scrape'[u] = IF u = t THEN x ELSE scrape[u]
    BY <1>4, <2>1
  <2>8. \A u \in Threads : scrape'[u] # Null => Kept(scrape'[u])
    BY <1>5, <2>1, <2>6, <2>7
  <2>9. scrape' = [u \in Threads |-> scrape'[u]]
    BY <1>4, <2>1
  <2> QED  BY <1>2, <1>6, <2>1, <2>8, <2>9
<1>10. ASSUME NEW t \in Threads, FinishScrape(t) PROVE ScrapeInv'
  <2>1. /\ scrape[t] # Null /\ rendered' = rendered \cup {scrape[t].shown}
        /\ scrape' = [scrape EXCEPT ![t] = Null]
    BY <1>10 DEF FinishScrape
  <2>2. Within(scrape[t].shown, registry')
    BY <1>3, <2>1 DEF RenderedBy
  <2>3. \A e \in rendered' : Within(e, registry')
    BY <1>2, <2>1, <2>2
  <2>4. \A u \in Threads : scrape'[u] = IF u = t THEN Null ELSE scrape[u]
    BY <1>4, <2>1
  <2>5. rendered \subseteq rendered'
    BY <2>1
  <2>6. \A u \in Threads : scrape'[u] # Null => Kept(scrape'[u])
    BY <1>5, <2>4, <2>5
  <2>7. scrape' = [u \in Threads |-> scrape'[u]]
    BY <1>4, <2>1
  <2> QED  BY <1>6, <2>3, <2>6, <2>7
<1>11. ASSUME BuildFails, scrape' # scrape PROVE ScrapeInv'
  <2> DEFINE Stopped(t) == [left |-> <<>>, shown |-> scrape[t].shown, before |-> scrape[t].before]
  <2>1. /\ scrape' = [t \in Threads |-> IF scrape[t] = Null THEN Null ELSE Stopped(t)]
        /\ build = "realised" /\ rendered' = rendered /\ registry' = registry
    BY <1>11 DEF BuildFails, sinkVars
  <2>2. DOMAIN registry = {}
    BY <2>1 DEF TotalsInv, StageInv
  <2>3. ASSUME NEW t \in Threads
        PROVE  /\ Stopped(t).left = <<>> /\ Stopped(t).shown = scrape[t].shown
               /\ Stopped(t).before = scrape[t].before
    OBVIOUS
  <2>4. \A t \in Threads : scrape'[t] = IF scrape[t] = Null THEN Null ELSE Stopped(t)
    BY <2>1
  <2>5. scrape' = [t \in Threads |-> scrape'[t]]
    BY <2>1
  <2> HIDE DEF Stopped
  <2>6. ASSUME NEW t \in Threads, scrape[t] # Null PROVE Kept(Stopped(t))
    <3>1. RenderedBy(scrape[t], registry') /\ scrape[t].before \subseteq rendered
      BY <1>3, <2>6
    <3>2. <<>> \in Seq(ToSet(CounterFamilies))
      OBVIOUS
    <3>3. RenderedBy(Stopped(t), registry')
      BY <2>3, <3>1, <3>2 DEF RenderedBy
    <3>4. \A e \in scrape[t].before : DOMAIN e = {}
      BY <1>2, <2>2, <3>1 DEF Within
    <3>5. \A e \in scrape[t].before : After(Stopped(t), e)
      BY <3>4, EmptyBefore
    <3> QED  BY <2>1, <2>3, <3>1, <3>3, <3>5 DEF Kept
  <2>7. \A t \in Threads : scrape'[t] # Null => Kept(scrape'[t])
    BY <2>4, <2>6
  <2> QED  BY <1>2, <1>6, <2>1, <2>5, <2>7
<1>12. \/ UNCHANGED <<scrape, rendered>>
       \/ \E t \in Threads : StartScrape(t) \/ ReadFamily(t) \/ FinishScrape(t)
       \/ BuildFails /\ scrape' # scrape
  <2>1. BuildFails => rendered' = rendered
    BY DEF BuildFails
  <2> QED  BY <2>1 DEF MetricsNext, RealiseServe, RealiseRegistry, BuildSucceeds, RollbackJoins,
              ReportMessage, FlushBandwidth, Report, Apply, RespondRefused, Alone, allVars, viewVars
<1> QED  BY <1>7, <1>8, <1>9, <1>10, <1>11, <1>12

\* What a scrape that finishes shows, against one that was finished before it
\* began.
LEMMA FinishShows ==
  ASSUME ScrapeInv, NEW t \in Threads, FinishScrape(t), NEW e \in scrape[t].before,
         NEW s \in DOMAIN e
  PROVE  /\ s \in DOMAIN scrape[t].shown /\ scrape[t].shown[s] >= e[s]
         /\ s[1] \in ToSet(Conditions) => e[s] <= Value(scrape[t].shown, <<"processed", s[2]>>)
<1>1. scrape[t] # Null /\ scrape[t].left = <<>>
  BY DEF FinishScrape
<1>2. ToSet(<<>>) = {}
  BY DEF ToSet
<1>3. /\ RenderedBy(scrape[t], registry) /\ e \in rendered
      /\ After(scrape[t], e)
  BY <1>1 DEF ScrapeInv
<1>4. Within(scrape[t].shown, registry) /\ Within(e, registry)
  BY <1>3 DEF ScrapeInv, RenderedBy
<1>5. s \in DOMAIN scrape[t].shown /\ e[s] <= scrape[t].shown[s]
  BY <1>1, <1>2, <1>3 DEF After
<1>6. s[1] \in ToSet(Conditions) => e[s] <= Value(scrape[t].shown, <<"processed", s[2]>>)
  BY <1>1, <1>2, <1>3 DEF After
<1>7. e[s] \in Nat /\ scrape[t].shown[s] \in Nat
  BY <1>4, <1>5 DEF Within
<1> QED  BY <1>5, <1>6, <1>7

\* No scrape has shown anything before the first build.
LEMMA ScrapeInit == MetricsInit => ScrapeInv
  BY DEF MetricsInit, ScrapeInv

\* While no total reaches 2^64, what scrapes have shown, and what the one
\* being rendered shows, stays within the registry.
THEOREM ScrapeInvariant == MetricsSpec /\ []NoWrap => [](TotalsInv /\ ScrapeInv)
<1>1. TotalsInv /\ [MetricsNext]_allVars => TotalsInv'
  BY StageKeeps, LedgerKeeps DEF TotalsInv
<1>2. TotalsInv /\ ScrapeInv /\ NoWrap /\ NoWrap' /\ [MetricsNext]_allVars => ScrapeInv'
  BY ScrapeKeeps
<1> QED  BY <1>1, <1>2, TotalsInit, ScrapeInit, PTL DEF MetricsSpec

\* While no total reaches 2^64, no counter is lower in a scrape than in any that
\* was finished when it began, nor gone, for any deltas, any number of threads
\* that scrape, and any interleaving of scrapes and sink calls (the sign checks
\* of BandwidthSink::handle).
THEOREM NeverFall == MetricsSpec /\ []NoWrap => CountersNeverFall
<1>1. ScrapeInv =>
        [\A t \in Threads : FinishScrape(t) =>
           \A e \in scrape[t].before : \A s \in DOMAIN e :
             s \in DOMAIN scrape[t].shown /\ scrape[t].shown[s] >= e[s]]_allVars
  BY FinishShows
<1> QED  BY <1>1, ScrapeInvariant, PTL DEF MetricsSpec, CountersNeverFall

\* While no total reaches 2^64, each condition a scrape shows is within the
\* messages of every scrape that begins once it is finished, because
\* MessageSink::handle counts the message before its conditions.
THEOREM NextHasMessages == MetricsSpec /\ []NoWrap => NextScrapeHasTheMessages
<1>1. ScrapeInv =>
        [\A t \in Threads : FinishScrape(t) =>
           \A e \in scrape[t].before : \A s \in DOMAIN e :
             s[1] \in ToSet(Conditions) =>
               e[s] <= Value(scrape[t].shown, <<"processed", s[2]>>)]_allVars
  BY FinishShows
<1> QED  BY <1>1, ScrapeInvariant, PTL DEF MetricsSpec, NextScrapeHasTheMessages
=============================================================================
