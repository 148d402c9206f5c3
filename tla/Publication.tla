---------------------------- MODULE Publication ----------------------------
(***************************************************************************)
(* How an engine comes to exist: Builder::build (src/engine.rs) under      *)
(* INIT_LOCK publishes the boxed handler set through HANDLERS, registers   *)
(* the trampolines with the Go bridge, and calls llingr_init; a failed     *)
(* build rolls the publication back and may be retried.  On the Go side    *)
(* (bridge/main.go) the registered callbacks are a copy-on-write set that  *)
(* the first successful llingr_init seals.                                 *)
(*                                                                         *)
(* Threads build concurrently and retry.  A trampoline loads HANDLERS      *)
(* without a lock and uses the box until it returns.  The thread inside    *)
(* llingr_init calls the log trampoline, synchronously; the engine's       *)
(* goroutines call any, once a consumer exists.  What else the external    *)
(* engine starts during init is not in this repository: main.go speaks of  *)
(* "the goroutines a partial build started", so one may call a trampoline  *)
(* as soon as callbacks are registered, and is remembered as early.        *)
(***************************************************************************)
EXTENDS Naturals

CONSTANTS
  Builders,     \* threads that call build()
  Goroutines,   \* engine goroutines that call a trampoline
  MaxBuilds,    \* bound: calls of build() altogether
  None

ASSUME BoundAssumption == MaxBuilds \in Nat \ {0}
ASSUME NoneAssumption  == None \notin Builders /\ None \notin 1..MaxBuilds
ASSUME CallersDistinct == Builders \cap Goroutines = {}

Builds       == 1..MaxBuilds       \* one per build() call, and its Handlers box
Callers      == Builders \cup Goroutines
MetricsKinds == {"off", "serve", "registry"}   \* Builder::metrics

\* The six fields of callbackSet.
AlwaysRegistered == {"process", "deadletter", "metrics", "shutdown", "log"}
CallbackNames    == AlwaysRegistered \cup {"bandwidth"}

VARIABLES
  initLock,     \* INIT_LOCK's holder, or None
  inited,       \* the flag INIT_LOCK guards
  handlers,     \* HANDLERS: the box published, or None for null
  box,          \* each build's Handlers box: "none", "live" or "freed"
  kind,         \* each build's metrics configuration
  endpoint,     \* the build that has the scrape address bound, or None
  registered,   \* registeredCallbacks: the non-nil fields
  sealed,       \* callbacksSealed
  consumer,     \* state.consumer: the build it came from, or None
  collecting,   \* the built consumer collects bandwidth telemetry
  builds,       \* calls of build() so far
  pc,           \* where each builder is
  mine,         \* the build each builder is in
  displaced,    \* the set each builder's swap found in HANDLERS, or None
  using,        \* the box each thread's trampoline is using, or None
  early         \* the goroutines in a trampoline since before a consumer was

rustVars  == <<initLock, inited, handlers, box, endpoint>>
goVars    == <<registered, sealed, consumer, collecting>>
trampVars == <<using, early>>
vars      == <<rustVars, goVars, kind, builds, pc, mine, displaced, trampVars>>

Phases == {"idle", "lock", "realise", "publish", "register", "init",
           "seal", "finish", "unpublish", "drop"}

(***************************************************************************)
(* The type invariant of the build's shared state.                         *)
(***************************************************************************)
TypeOK ==
  /\ initLock \in Builders \cup {None}
  /\ inited \in BOOLEAN
  /\ handlers \in Builds \cup {None}
  /\ box \in [Builds -> {"none", "live", "freed"}]
  /\ kind \in [Builds -> MetricsKinds]
  /\ endpoint \in Builds \cup {None}
  /\ registered \subseteq CallbackNames
  /\ sealed \in BOOLEAN
  /\ consumer \in Builds \cup {None}
  /\ collecting \in BOOLEAN
  /\ builds \in 0..MaxBuilds
  /\ pc \in [Builders -> Phases]
  /\ mine \in [Builders -> Builds \cup {None}]
  /\ displaced \in [Builders -> Builds \cup {None}]
  /\ using \in [Callers -> Builds \cup {None}]
  /\ early \subseteq Goroutines

Init ==
  /\ initLock = None
  /\ inited = FALSE
  /\ handlers = None
  /\ box = [n \in Builds |-> "none"]
  /\ kind = [n \in Builds |-> "off"]
  /\ endpoint = None
  /\ registered = {}
  /\ sealed = FALSE
  /\ consumer = None
  /\ collecting = FALSE
  /\ builds = 0
  /\ pc = [b \in Builders |-> "idle"]
  /\ mine = [b \in Builders |-> None]
  /\ displaced = [b \in Builders |-> None]
  /\ using = [t \in Callers |-> None]
  /\ early = {}

Goto(b, from, to) ==
  /\ pc[b] = from
  /\ pc' = [pc EXCEPT ![b] = to]

\* build() returns: the guard of INIT_LOCK is dropped.
Return(b, from) ==
  /\ Goto(b, from, "idle")
  /\ mine' = [mine EXCEPT ![b] = None]
  /\ initLock' = IF initLock = b THEN None ELSE initLock

-----------------------------------------------------------------------------
(* build(): the checks before the lock *)

\* A deferred configuration error or an ABI mismatch returns before any
\* global state is touched; otherwise the build goes on to the lock.
BuildCalled(b, k) ==
  /\ builds < MaxBuilds
  /\ builds' = builds + 1
  /\ kind' = [kind EXCEPT ![builds + 1] = k]
  /\ \/ /\ Goto(b, "idle", "lock")
        /\ mine' = [mine EXCEPT ![b] = builds + 1]
     \/ /\ pc[b] = "idle"
        /\ UNCHANGED <<pc, mine>>
  /\ UNCHANGED <<rustVars, goVars, displaced, trampVars>>

\* Mutant: the guard is not bound to a name, and is dropped at once.
TakeInitLockDropsGuard(b) ==
  /\ initLock = None
  /\ \/ Goto(b, "lock", "realise") /\ ~inited /\ UNCHANGED <<mine, initLock>>
     \/ Return(b, "lock")
  /\ UNCHANGED <<inited, handlers, box, endpoint, goVars, kind, builds, displaced, trampVars>>

\* INIT_LOCK is taken; an engine already built, or a configuration with a
\* NUL in it, returns at once.
TakeInitLock(b) ==
  /\ initLock = None
  /\ \/ /\ Goto(b, "lock", "realise")
        /\ ~inited
        /\ initLock' = b
        /\ UNCHANGED mine
     \/ Return(b, "lock")
  /\ UNCHANGED <<inited, handlers, box, endpoint, goVars, kind, builds, displaced, trampVars>>

-----------------------------------------------------------------------------
(* build(): publication, with the lock held *)

\* Metrics::realise: serve mode binds its address, or fails and returns.
RealiseMetrics(b) ==
  LET n == mine[b] IN
  /\ pc[b] = "realise"
  /\ \/ /\ Goto(b, "realise", "publish")
        /\ \/ kind[n] = "serve" /\ endpoint = None /\ endpoint' = n
           \/ kind[n] # "serve" /\ UNCHANGED endpoint
        /\ UNCHANGED <<mine, initLock>>
     \/ /\ kind[n] = "serve"
        /\ Return(b, "realise")
        /\ UNCHANGED endpoint
  /\ UNCHANGED <<inited, handlers, box, goVars, kind, builds, displaced, trampVars>>

\* HANDLERS.swap(new).
PublishHandlers(b) ==
  /\ Goto(b, "publish", "register")
  /\ handlers' = mine[b]
  /\ box' = [box EXCEPT ![mine[b]] = "live"]
  /\ displaced' = [displaced EXCEPT ![b] = handlers]
  /\ UNCHANGED <<initLock, inited, endpoint, goVars, kind, builds, mine, trampVars>>

\* Mutants: callbacks are registered by the first build only; the log
\* callback is left to run().
RegisteredOnce(n) ==
  IF registered # {} THEN registered
  ELSE AlwaysRegistered \cup (IF kind[n] # "off" THEN {"bandwidth"} ELSE {})

RegisteredWithoutLog(n) ==
  IF sealed THEN registered
  ELSE registered \cup (AlwaysRegistered \ {"log"})
                  \cup (IF kind[n] # "off" THEN {"bandwidth"} ELSE {})

\* setCallback for each llingr_on_* the build calls: a field is added to the
\* set, unless it is sealed; none is ever removed.
Registered(n) ==
  IF sealed THEN registered
  ELSE registered \cup AlwaysRegistered
                  \cup (IF kind[n] # "off" THEN {"bandwidth"} ELSE {})

\* A set that the swap displaced is put back, and the new one goes the way of
\* a rollback; otherwise the trampolines are registered.
RegisterTrampolines(b) ==
  LET refused == displaced[b] # None IN
  /\ Goto(b, "register", IF refused THEN "drop" ELSE "init")
  /\ handlers' = IF refused THEN displaced[b] ELSE handlers
  /\ registered' = IF refused THEN registered ELSE Registered(mine[b])
  /\ UNCHANGED <<initLock, inited, box, endpoint, sealed, consumer, collecting,
                 kind, builds, mine, displaced, trampVars>>

-----------------------------------------------------------------------------
(* llingr_init, called from build() *)

\* emitLog on the thread of llingr_init, into the log trampoline and back.
InitLogs(b) ==
  /\ pc[b] = "init"
  /\ using[b] = None
  /\ "log" \in registered
  /\ handlers # None
  /\ using' = [using EXCEPT ![b] = handlers]
  /\ UNCHANGED <<rustVars, goVars, kind, builds, pc, mine, displaced, early>>

InitLogReturns(b) ==
  /\ using[b] # None
  /\ using' = [using EXCEPT ![b] = None]
  /\ UNCHANGED <<rustVars, goVars, kind, builds, pc, mine, displaced, early>>

\* The adapter and the engine collect bandwidth iff its callback is registered.
CollectsBandwidth == "bandwidth" \in registered

\* buildConsumer succeeded and the state is published.
InitSucceeds(b) ==
  /\ consumer = None
  /\ using[b] = None
  /\ Goto(b, "init", "seal")
  /\ consumer' = mine[b]
  /\ collecting' = CollectsBandwidth
  /\ UNCHANGED <<rustVars, registered, sealed, kind, builds, mine, displaced, trampVars>>

\* Mutant: llingr_init publishes its state, then fails.
InitFailsPublished(b) ==
  /\ using[b] = None
  /\ Goto(b, "init", "unpublish")
  /\ consumer' = mine[b]
  /\ UNCHANGED <<rustVars, registered, sealed, collecting, kind, builds, mine, displaced, trampVars>>

\* Already initialised, a configuration error, an adapter error or a
\* recovered panic: the context is cancelled and nothing is published.
InitFails(b) ==
  /\ using[b] = None
  /\ Goto(b, "init", "unpublish")
  /\ UNCHANGED <<rustVars, goVars, kind, builds, mine, displaced, trampVars>>

SealCallbacks(b) ==
  /\ Goto(b, "seal", "finish")
  /\ sealed' = TRUE
  /\ UNCHANGED <<rustVars, registered, consumer, collecting, kind, builds, mine, displaced, trampVars>>

-----------------------------------------------------------------------------
(* build(): success, or the rollback *)

BuildSucceeds(b) ==
  /\ Return(b, "finish")
  /\ inited' = TRUE
  /\ UNCHANGED <<handlers, box, endpoint, goVars, kind, builds, displaced, trampVars>>

Unpublish(b) ==
  /\ Goto(b, "unpublish", "drop")
  /\ handlers' = None
  /\ UNCHANGED <<initLock, inited, box, endpoint, goVars, kind, builds, mine, displaced, trampVars>>

\* Mutant: the rollback forgets the box and the endpoint it owns.
DropHandlersLeaks(b) ==
  /\ Return(b, "drop")
  /\ UNCHANGED <<inited, handlers, box, endpoint, goVars, kind, builds, displaced, trampVars>>

\* Dropping the box stops the exporter thread and closes its endpoint.
DropHandlers(b) ==
  LET n == mine[b] IN
  /\ Return(b, "drop")
  /\ box' = [box EXCEPT ![n] = "freed"]
  /\ endpoint' = IF endpoint = n THEN None ELSE endpoint
  /\ UNCHANGED <<inited, handlers, goVars, kind, builds, displaced, trampVars>>

-----------------------------------------------------------------------------
(* Engine goroutines: a trampoline loads HANDLERS, then uses the box *)

TrampolineEnter(g) ==
  /\ registered # {}
  /\ using[g] = None
  /\ handlers # None
  /\ using' = [using EXCEPT ![g] = handlers]
  /\ early' = IF consumer = None THEN early \cup {g} ELSE early
  /\ UNCHANGED <<rustVars, goVars, kind, builds, pc, mine, displaced>>

TrampolineReturn(g) ==
  /\ using[g] # None
  /\ using' = [using EXCEPT ![g] = None]
  /\ early' = early \ {g}
  /\ UNCHANGED <<rustVars, goVars, kind, builds, pc, mine, displaced>>

BuildStep(b) ==
  \/ TakeInitLock(b)
  \/ RealiseMetrics(b)
  \/ PublishHandlers(b)
  \/ RegisterTrampolines(b)
  \/ InitLogs(b)
  \/ InitLogReturns(b)
  \/ InitSucceeds(b)
  \/ InitFails(b)
  \/ SealCallbacks(b)
  \/ BuildSucceeds(b)
  \/ Unpublish(b)
  \/ DropHandlers(b)

Next ==
  \/ \E b \in Builders : (\E k \in MetricsKinds : BuildCalled(b, k)) \/ BuildStep(b)
  \/ \E g \in Goroutines : TrampolineEnter(g) \/ TrampolineReturn(g)

Spec == Init /\ [][Next]_vars

-----------------------------------------------------------------------------
(* Properties *)

(***************************************************************************)
(* The SAFETY note on handlers(): no trampoline uses a handler set that a  *)
(* build freed, be it called by the thread inside llingr_init, by another  *)
(* build's, or by the engine.  A set is freed by a rollback and by a build *)
(* that finds one published already, so it takes INIT_LOCK around both,    *)
(* and llingr_init's log calls to have returned.  The exception is a       *)
(* goroutine that called a trampoline before its build had succeeded: the  *)
(* note says no engine does ("a future engine that logged from a goroutine *)
(* spawned during init would break this invariant"), and nothing in the    *)
(* code prevents it.                                                       *)
(***************************************************************************)
NoUseAfterFree ==
  \A t \in Callers \ early : using[t] # None => box[using[t]] = "live"

(***************************************************************************)
(* The engine that exists always finds its own handler set published, so   *)
(* no trampoline meets a null HANDLERS and no message, dead letter or      *)
(* shutdown notice is dropped there, whatever later builds attempt.        *)
(***************************************************************************)
EngineHasItsHandlers == consumer # None => handlers = consumer /\ box[consumer] = "live"

(***************************************************************************)
(* "A failed build can be retried": while nobody builds and no engine      *)
(* exists, no set is published or allocated, and no endpoint of ours is    *)
(* open on the scrape address (when the address itself is free, Exporter   *)
(* says).                                                                  *)
(***************************************************************************)
RetryStartsClean ==
  initLock = None /\ ~inited =>
    /\ handlers = None
    /\ endpoint = None
    /\ \A n \in Builds : box[n] # "live"

(***************************************************************************)
(* Build-time engine logs reach the log facade: while llingr_init runs,    *)
(* the set published is the one of the build that called it.               *)
(***************************************************************************)
BuildLogsReachOwnHandlers ==
  \A b \in Builders : pc[b] = "init" => handlers = mine[b] /\ "log" \in registered

(***************************************************************************)
(* An engine built with metrics collects bandwidth telemetry, an earlier   *)
(* failed build without them notwithstanding.                              *)
(***************************************************************************)
ConfiguredMetricsAreCollected ==
  consumer # None /\ kind[consumer] # "off" => collecting

(***************************************************************************)
(* What Builder::metrics and the registration in build() say: bandwidth    *)
(* telemetry is collected only when the engine was built with metrics.     *)
(***************************************************************************)
CollectedOnlyWhenConfigured ==
  collecting => kind[consumer] # "off"
=============================================================================
