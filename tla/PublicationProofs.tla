-------------------------- MODULE PublicationProofs --------------------------
(***************************************************************************)
(* Proofs that the publication of the handler set is sound for any number  *)
(* of builders, goroutines and retries.  Freeing a box is a step of one    *)
(* thread and using it a step of another, so the invariant ties what is    *)
(* published, allocated and bound to the phase of the one builder that     *)
(* holds INIT_LOCK.                                                        *)
(***************************************************************************)
EXTENDS Publication, TLAPS

Holding   == Phases \ {"idle", "lock"}
Published == {"register", "init", "seal", "finish", "unpublish"}

\* Who holds INIT_LOCK, and that builds are not shared between builders.
LockInv ==
  /\ \A b \in Builders : pc[b] \in Holding <=> initLock = b
  /\ \A b \in Builders : pc[b] # "idle" => mine[b] \in 1..builds
  /\ \A b, c \in Builders : pc[b] # "idle" /\ pc[c] # "idle" /\ mine[b] = mine[c] => b = c
  /\ inited => initLock = None

\* What HANDLERS holds in each phase of the builder with the lock.
HandlersInv ==
  /\ \A b \in Builders : pc[b] \in Published => handlers = mine[b]
  /\ \A b \in Builders : pc[b] \in {"realise", "publish", "drop"} => handlers = None
  /\ initLock = None /\ ~inited => handlers = None
  /\ inited => consumer # None
  /\ consumer # None => handlers = consumer /\ consumer \in 1..builds
  /\ \A b \in Builders :
       pc[b] \in Holding \ {"seal", "finish"} => consumer = None /\ ~sealed
  /\ \A b \in Builders : pc[b] \in {"seal", "finish"} => consumer = mine[b]
  /\ sealed => consumer # None
  /\ initLock = None /\ ~inited => consumer = None

\* The only live box is the one published, or the one being dropped.
BoxInv ==
  /\ handlers # None => box[handlers] = "live"
  /\ \A n \in Builds :
       box[n] = "live" => \/ n = handlers
                          \/ \E b \in Builders : pc[b] = "drop" /\ mine[b] = n

\* A log call of llingr_init uses its own build's set, a goroutine that came
\* after the build the engine's; and no swap displaced a set.
UsingInv ==
  /\ \A b \in Builders : using[b] # None => pc[b] = "init" /\ using[b] = mine[b]
  /\ \A g \in Goroutines \ early : using[g] # None => using[g] = consumer
  /\ \A b \in Builders : pc[b] = "register" => displaced[b] = None

\* The scrape address belongs to the builder with the lock or to the engine.
EndpointInv ==
  endpoint # None /\ ~inited =>
    \E b \in Builders : pc[b] \in Holding \ {"realise"} /\ mine[b] = endpoint

\* What is registered when llingr_init reads it.
RegisteredInv ==
  /\ \A b \in Builders :
       pc[b] = "init" => /\ "log" \in registered
                         /\ kind[mine[b]] # "off" => "bandwidth" \in registered
  /\ ConfiguredMetricsAreCollected

IInv ==
  /\ TypeOK
  /\ LockInv
  /\ HandlersInv
  /\ BoxInv
  /\ UsingInv
  /\ EndpointInv
  /\ RegisteredInv
-----------------------------------------------------------------------------

\* A build() begins, with a number no other build has.
LEMMA BuildCalledKeeps ==
  ASSUME IInv, NEW b \in Builders, NEW k \in MetricsKinds, BuildCalled(b, k)
  PROVE  IInv'
<1> USE BoundAssumption, NoneAssumption, CallersDistinct DEF IInv, TypeOK, BuildCalled, Goto,
      rustVars, goVars, trampVars, Callers, Builds, Phases, Holding, Published
<1>1. TypeOK'
  <2>1. CASE Goto(b, "idle", "lock") /\ mine' = [mine EXCEPT ![b] = builds + 1]
    BY <2>1 DEF MetricsKinds, LockInv
  <2>2. CASE pc[b] = "idle" /\ UNCHANGED <<pc, mine>>
    BY <2>2 DEF MetricsKinds, LockInv
  <2> QED
    BY <2>1, <2>2
<1>2. LockInv'
  <2>1. CASE Goto(b, "idle", "lock") /\ mine' = [mine EXCEPT ![b] = builds + 1]
    BY <2>1 DEF LockInv
  <2>2. CASE pc[b] = "idle" /\ UNCHANGED <<pc, mine>>
    BY <2>2 DEF LockInv
  <2> QED
    BY <2>1, <2>2
<1>3. HandlersInv'
  <2>1. CASE Goto(b, "idle", "lock") /\ mine' = [mine EXCEPT ![b] = builds + 1]
    BY <2>1 DEF HandlersInv, LockInv
  <2>2. CASE pc[b] = "idle" /\ UNCHANGED <<pc, mine>>
    BY <2>2 DEF HandlersInv, LockInv
  <2> QED
    BY <2>1, <2>2
<1>4. BoxInv'
  BY DEF BoxInv
<1>5. EndpointInv'
  BY DEF EndpointInv
<1>6. RegisteredInv'
  BY DEF RegisteredInv, ConfiguredMetricsAreCollected, LockInv, HandlersInv
<1>7. UsingInv'
  BY DEF UsingInv, LockInv, HandlersInv
<1> QED
  BY <1>1, <1>2, <1>3, <1>4, <1>5, <1>6, <1>7

\* INIT_LOCK is granted to one builder, or the build returns.
LEMMA TakeInitLockKeeps ==
  ASSUME IInv, NEW b \in Builders, TakeInitLock(b)
  PROVE  IInv'
<1> USE BoundAssumption, NoneAssumption, CallersDistinct DEF IInv, TypeOK, TakeInitLock, Goto,
      Return, rustVars, goVars, trampVars, Callers, Builds, Phases, Holding, Published
<1>1. TypeOK'
  BY DEF MetricsKinds, LockInv
<1>2. LockInv'
  <2>1. CASE Goto(b, "lock", "realise") /\ ~inited /\ initLock' = b /\ UNCHANGED mine
    BY <2>1 DEF LockInv
  <2>2. CASE Return(b, "lock")
    BY <2>2 DEF LockInv
  <2> QED
    BY <2>1, <2>2
<1>3. HandlersInv'
  BY DEF HandlersInv
<1>4. BoxInv'
  BY DEF BoxInv
<1>5. EndpointInv'
  BY DEF EndpointInv
<1>6. RegisteredInv'
  BY DEF RegisteredInv, ConfiguredMetricsAreCollected
<1>7. UsingInv'
  BY DEF UsingInv, LockInv, HandlersInv
<1> QED
  BY <1>1, <1>2, <1>3, <1>4, <1>5, <1>6, <1>7

\* The metrics endpoint is bound under the lock.
LEMMA RealiseMetricsKeeps ==
  ASSUME IInv, NEW b \in Builders, RealiseMetrics(b)
  PROVE  IInv'
<1> USE BoundAssumption, NoneAssumption, CallersDistinct DEF IInv, TypeOK, RealiseMetrics, Goto,
      Return, rustVars, goVars, trampVars, Callers, Builds, Phases, Holding, Published
<1>1. TypeOK'
  <2>1. CASE Goto(b, "realise", "publish") /\ UNCHANGED <<mine, initLock>>
    BY <2>1 DEF MetricsKinds, LockInv
  <2>2. CASE Return(b, "realise") /\ UNCHANGED endpoint
    BY <2>2 DEF MetricsKinds, LockInv
  <2> QED
    BY <2>1, <2>2
<1>2. LockInv'
  <2>1. CASE Goto(b, "realise", "publish") /\ UNCHANGED <<mine, initLock>>
    BY <2>1 DEF LockInv
  <2>2. CASE Return(b, "realise") /\ UNCHANGED endpoint
    BY <2>2 DEF LockInv
  <2> QED
    BY <2>1, <2>2
<1>3. HandlersInv'
  BY DEF HandlersInv
<1>4. BoxInv'
  BY DEF BoxInv
<1>5. EndpointInv'
  BY DEF EndpointInv
<1>6. RegisteredInv'
  BY DEF RegisteredInv, ConfiguredMetricsAreCollected
<1>7. UsingInv'
  BY DEF UsingInv, LockInv, HandlersInv
<1> QED
  BY <1>1, <1>2, <1>3, <1>4, <1>5, <1>6, <1>7

\* The handler set is published into an empty HANDLERS.
LEMMA PublishHandlersKeeps ==
  ASSUME IInv, NEW b \in Builders, PublishHandlers(b)
  PROVE  IInv'
<1> USE BoundAssumption, NoneAssumption, CallersDistinct DEF IInv, TypeOK, Builds, Phases,
      Holding, Published
<1>1. pc[b] = "publish" /\ handlers = None /\ mine[b] \in Builds
  BY DEF PublishHandlers, Goto, HandlersInv, LockInv
<1>2. /\ handlers' = mine[b]
      /\ box' = [box EXCEPT ![mine[b]] = "live"]
      /\ displaced' = [displaced EXCEPT ![b] = None]
      /\ pc' = [pc EXCEPT ![b] = "register"]
      /\ UNCHANGED <<initLock, inited, endpoint, registered, sealed, consumer,
                     collecting, kind, builds, mine, using, early>>
  BY <1>1 DEF PublishHandlers, Goto, goVars, trampVars
<1>3. TypeOK'
  BY <1>1, <1>2
<1>4. LockInv'
  BY <1>1, <1>2 DEF LockInv
<1>5. HandlersInv'
  <2>1. \A c \in Builders : pc'[c] \in Holding => c = b
    BY <1>1, <1>2 DEF LockInv
  <2>2. consumer = None /\ ~sealed /\ ~inited /\ initLock = b
    BY <1>1 DEF HandlersInv, LockInv
  <2> QED
    BY <1>1, <1>2, <2>1, <2>2 DEF HandlersInv
<1>6. BoxInv'
  BY <1>1, <1>2 DEF BoxInv, HandlersInv
<1>7. EndpointInv'
  BY <1>1, <1>2 DEF EndpointInv
<1>8. RegisteredInv'
  BY <1>1, <1>2 DEF RegisteredInv, ConfiguredMetricsAreCollected
<1>9. UsingInv'
  BY <1>1, <1>2 DEF UsingInv, Callers
<1> QED
  BY <1>3, <1>4, <1>5, <1>6, <1>7, <1>8, <1>9

\* The swap displaced nothing, so the callbacks are registered, while the set
\* is not sealed.
LEMMA RegisterTrampolinesKeeps ==
  ASSUME IInv, NEW b \in Builders, RegisterTrampolines(b)
  PROVE  IInv'
<1> USE BoundAssumption, NoneAssumption, CallersDistinct DEF IInv, TypeOK,
      Registered, AlwaysRegistered, CallbackNames, Builds, Phases, Holding,
      Published
<1>1. displaced[b] = None /\ pc[b] = "register"
  BY DEF RegisterTrampolines, Goto, UsingInv
<1>2. /\ pc' = [pc EXCEPT ![b] = "init"]
      /\ registered' = Registered(mine[b])
      /\ UNCHANGED <<rustVars, sealed, consumer, collecting, kind, builds, mine,
                     displaced, using, early>>
  BY <1>1 DEF RegisterTrampolines, Goto, rustVars, trampVars
<1>3. TypeOK'
  BY <1>1, <1>2 DEF MetricsKinds, LockInv, rustVars
<1>4. LockInv'
  BY <1>1, <1>2 DEF LockInv, rustVars
<1>5. HandlersInv'
  BY <1>1, <1>2 DEF HandlersInv, rustVars
<1>6. BoxInv'
  BY <1>1, <1>2 DEF BoxInv, rustVars
<1>7. EndpointInv'
  BY <1>1, <1>2 DEF EndpointInv, rustVars
<1>8. RegisteredInv'
  BY <1>1, <1>2 DEF RegisteredInv, ConfiguredMetricsAreCollected, HandlersInv
<1>9. UsingInv'
  BY <1>1, <1>2 DEF UsingInv
<1> QED
  BY <1>3, <1>4, <1>5, <1>6, <1>7, <1>8, <1>9

\* llingr_init logs into the set of its own build.
LEMMA InitLogsKeeps ==
  ASSUME IInv, NEW b \in Builders, InitLogs(b)
  PROVE  IInv'
<1> USE BoundAssumption, NoneAssumption, CallersDistinct DEF IInv, TypeOK,
      InitLogs, rustVars, goVars, trampVars, Callers, Builds, Phases,
      Holding, Published
<1>1. TypeOK'
  BY DEF MetricsKinds, LockInv
<1>2. LockInv'
  BY DEF LockInv
<1>3. HandlersInv'
  BY DEF HandlersInv
<1>4. BoxInv'
  BY DEF BoxInv
<1>5. EndpointInv'
  BY DEF EndpointInv
<1>6. RegisteredInv'
  BY DEF RegisteredInv, ConfiguredMetricsAreCollected
<1>7. UsingInv'
  BY DEF UsingInv, LockInv, HandlersInv
<1> QED
  BY <1>1, <1>2, <1>3, <1>4, <1>5, <1>6, <1>7

\* The log call returns.
LEMMA InitLogReturnsKeeps ==
  ASSUME IInv, NEW b \in Builders, InitLogReturns(b)
  PROVE  IInv'
<1> USE BoundAssumption, NoneAssumption, CallersDistinct DEF IInv, TypeOK,
      InitLogReturns, rustVars, goVars, trampVars, Callers, Builds, Phases,
      Holding, Published
<1>1. TypeOK'
  BY DEF MetricsKinds, LockInv
<1>2. LockInv'
  BY DEF LockInv
<1>3. HandlersInv'
  BY DEF HandlersInv
<1>4. BoxInv'
  BY DEF BoxInv
<1>5. EndpointInv'
  BY DEF EndpointInv
<1>6. RegisteredInv'
  BY DEF RegisteredInv, ConfiguredMetricsAreCollected
<1>7. UsingInv'
  BY DEF UsingInv, LockInv, HandlersInv
<1> QED
  BY <1>1, <1>2, <1>3, <1>4, <1>5, <1>6, <1>7

\* llingr_init publishes a consumer for the set that HANDLERS holds.
LEMMA InitSucceedsKeeps ==
  ASSUME IInv, NEW b \in Builders, InitSucceeds(b)
  PROVE  IInv'
<1> USE BoundAssumption, NoneAssumption, CallersDistinct DEF IInv, TypeOK, InitSucceeds, Goto,
      CollectsBandwidth, rustVars, goVars, trampVars, Callers, Builds, Phases, Holding, Published
<1>1. TypeOK'
  BY DEF MetricsKinds, LockInv
<1>2. LockInv'
  BY DEF LockInv
<1>3. HandlersInv'
  BY DEF HandlersInv, LockInv
<1>4. BoxInv'
  BY DEF BoxInv
<1>5. EndpointInv'
  BY DEF EndpointInv
<1>6. RegisteredInv'
  BY DEF RegisteredInv, ConfiguredMetricsAreCollected
<1>7. UsingInv'
  BY DEF UsingInv, LockInv, HandlersInv
<1> QED
  BY <1>1, <1>2, <1>3, <1>4, <1>5, <1>6, <1>7

\* llingr_init fails and publishes nothing.
LEMMA InitFailsKeeps ==
  ASSUME IInv, NEW b \in Builders, InitFails(b)
  PROVE  IInv'
<1> USE BoundAssumption, NoneAssumption, CallersDistinct DEF IInv, TypeOK, InitFails, Goto,
      rustVars, goVars, trampVars, Callers, Builds, Phases, Holding, Published
<1>1. TypeOK'
  BY DEF MetricsKinds, LockInv
<1>2. LockInv'
  BY DEF LockInv
<1>3. HandlersInv'
  BY DEF HandlersInv
<1>4. BoxInv'
  BY DEF BoxInv, LockInv
<1>5. EndpointInv'
  BY DEF EndpointInv
<1>6. RegisteredInv'
  BY DEF RegisteredInv, ConfiguredMetricsAreCollected
<1>7. UsingInv'
  BY DEF UsingInv, LockInv, HandlersInv
<1> QED
  BY <1>1, <1>2, <1>3, <1>4, <1>5, <1>6, <1>7

\* The callbacks are sealed.
LEMMA SealCallbacksKeeps ==
  ASSUME IInv, NEW b \in Builders, SealCallbacks(b)
  PROVE  IInv'
<1> USE BoundAssumption, NoneAssumption, CallersDistinct DEF IInv, TypeOK, SealCallbacks, Goto,
      rustVars, goVars, trampVars, Callers, Builds, Phases, Holding, Published
<1>1. TypeOK'
  BY DEF MetricsKinds, LockInv
<1>2. LockInv'
  BY DEF LockInv
<1>3. HandlersInv'
  BY DEF HandlersInv, LockInv
<1>4. BoxInv'
  BY DEF BoxInv
<1>5. EndpointInv'
  BY DEF EndpointInv
<1>6. RegisteredInv'
  BY DEF RegisteredInv, ConfiguredMetricsAreCollected
<1>7. UsingInv'
  BY DEF UsingInv, LockInv, HandlersInv
<1> QED
  BY <1>1, <1>2, <1>3, <1>4, <1>5, <1>6, <1>7

\* The build succeeds and hands HANDLERS over to the engine.
LEMMA BuildSucceedsKeeps ==
  ASSUME IInv, NEW b \in Builders, BuildSucceeds(b)
  PROVE  IInv'
<1> USE BoundAssumption, NoneAssumption, CallersDistinct DEF IInv, TypeOK, BuildSucceeds, Goto,
      Return, rustVars, goVars, trampVars, Callers, Builds, Phases, Holding, Published
<1>1. TypeOK'
  BY DEF MetricsKinds, LockInv
<1>2. LockInv'
  BY DEF LockInv
<1>3. HandlersInv'
  BY DEF HandlersInv, LockInv
<1>4. BoxInv'
  BY DEF BoxInv
<1>5. EndpointInv'
  BY DEF EndpointInv
<1>6. RegisteredInv'
  BY DEF RegisteredInv, ConfiguredMetricsAreCollected
<1>7. UsingInv'
  BY DEF UsingInv, LockInv, HandlersInv
<1> QED
  BY <1>1, <1>2, <1>3, <1>4, <1>5, <1>6, <1>7

\* The rollback empties HANDLERS; no goroutine exists that loaded it.
LEMMA UnpublishKeeps ==
  ASSUME IInv, NEW b \in Builders, Unpublish(b)
  PROVE  IInv'
<1> USE BoundAssumption, NoneAssumption, CallersDistinct DEF IInv, TypeOK, Unpublish, Goto,
      rustVars, goVars, trampVars, Callers, Builds, Phases, Holding, Published
<1>1. TypeOK'
  BY DEF MetricsKinds, LockInv
<1>2. LockInv'
  BY DEF LockInv
<1>3. HandlersInv'
  BY DEF HandlersInv, LockInv
<1>4. BoxInv'
  BY DEF BoxInv, HandlersInv
<1>5. EndpointInv'
  BY DEF EndpointInv
<1>6. RegisteredInv'
  BY DEF RegisteredInv, ConfiguredMetricsAreCollected
<1>7. UsingInv'
  BY DEF UsingInv, LockInv, HandlersInv
<1> QED
  BY <1>1, <1>2, <1>3, <1>4, <1>5, <1>6, <1>7

\* The rollback frees the box and its endpoint.
LEMMA DropHandlersKeeps ==
  ASSUME IInv, NEW b \in Builders, DropHandlers(b)
  PROVE  IInv'
<1> USE BoundAssumption, NoneAssumption, CallersDistinct DEF IInv, TypeOK, DropHandlers, Goto,
      Return, rustVars, goVars, trampVars, Callers, Builds, Phases, Holding, Published
<1>1. TypeOK'
  BY DEF MetricsKinds, LockInv
<1>2. LockInv'
  BY DEF LockInv
<1>3. HandlersInv'
  BY DEF HandlersInv
<1>4. BoxInv'
  BY DEF BoxInv, HandlersInv
<1>5. EndpointInv'
  BY DEF EndpointInv
<1>6. RegisteredInv'
  BY DEF RegisteredInv, ConfiguredMetricsAreCollected
<1>7. UsingInv'
  BY DEF UsingInv, LockInv, HandlersInv
<1> QED
  BY <1>1, <1>2, <1>3, <1>4, <1>5, <1>6, <1>7

\* A goroutine of the engine loads the engine's own set.
LEMMA TrampolineEnterKeeps ==
  ASSUME IInv, NEW g \in Goroutines, TrampolineEnter(g)
  PROVE  IInv'
<1> USE BoundAssumption, NoneAssumption, CallersDistinct DEF IInv, TypeOK, TrampolineEnter,
      rustVars, goVars, trampVars, Callers, Builds, Phases, Holding, Published
<1>1. TypeOK'
  BY DEF MetricsKinds, LockInv
<1>2. LockInv'
  BY DEF LockInv
<1>3. HandlersInv'
  BY DEF HandlersInv
<1>4. BoxInv'
  BY DEF BoxInv, HandlersInv
<1>5. EndpointInv'
  BY DEF EndpointInv
<1>6. RegisteredInv'
  BY DEF RegisteredInv, ConfiguredMetricsAreCollected
<1>7. UsingInv'
  BY DEF UsingInv, LockInv, HandlersInv
<1> QED
  BY <1>1, <1>2, <1>3, <1>4, <1>5, <1>6, <1>7

\* A goroutine returns from a trampoline.
LEMMA TrampolineReturnKeeps ==
  ASSUME IInv, NEW g \in Goroutines, TrampolineReturn(g)
  PROVE  IInv'
<1> USE BoundAssumption, NoneAssumption, CallersDistinct DEF IInv, TypeOK, TrampolineReturn,
      rustVars, goVars, trampVars, Callers, Builds, Phases, Holding, Published
<1>1. TypeOK'
  BY DEF MetricsKinds, LockInv
<1>2. LockInv'
  BY DEF LockInv
<1>3. HandlersInv'
  BY DEF HandlersInv
<1>4. BoxInv'
  BY DEF BoxInv
<1>5. EndpointInv'
  BY DEF EndpointInv
<1>6. RegisteredInv'
  BY DEF RegisteredInv, ConfiguredMetricsAreCollected
<1>7. UsingInv'
  BY DEF UsingInv, LockInv, HandlersInv
<1> QED
  BY <1>1, <1>2, <1>3, <1>4, <1>5, <1>6, <1>7

-----------------------------------------------------------------------------

\* Initially nothing is published, allocated or bound, and nobody builds.
LEMMA InitIInv == Init => IInv
<1> SUFFICES ASSUME Init PROVE IInv
  OBVIOUS
<1> USE BoundAssumption, NoneAssumption, CallersDistinct DEF Init, Builds, Callers
<1>1. inited \in BOOLEAN /\ sealed \in BOOLEAN /\ collecting \in BOOLEAN
  BY Zenon
<1>2. TypeOK
  BY <1>1 DEF TypeOK, MetricsKinds, CallbackNames, Phases
<1>3. LockInv /\ HandlersInv /\ BoxInv /\ UsingInv /\ EndpointInv /\ RegisteredInv
  BY DEF LockInv, HandlersInv, BoxInv, UsingInv, EndpointInv, Callers, RegisteredInv,
     ConfiguredMetricsAreCollected, Holding, Published, Phases
<1> QED
  BY <1>2, <1>3 DEF IInv

\* Every step keeps the inductive invariant.
LEMMA NextIInv == IInv /\ [Next]_vars => IInv'
<1> SUFFICES ASSUME IInv, [Next]_vars PROVE IInv'
  OBVIOUS
<1>1. ASSUME NEW b \in Builders, NEW k \in MetricsKinds, BuildCalled(b, k)
      PROVE IInv'
  BY <1>1, BuildCalledKeeps
<1>2. ASSUME NEW b \in Builders, BuildStep(b) PROVE IInv'
  BY <1>2, TakeInitLockKeeps, RealiseMetricsKeeps, PublishHandlersKeeps,
     RegisterTrampolinesKeeps, InitLogsKeeps, InitLogReturnsKeeps, InitSucceedsKeeps, InitFailsKeeps,
     SealCallbacksKeeps, BuildSucceedsKeeps, UnpublishKeeps, DropHandlersKeeps
     DEF BuildStep
<1>3. ASSUME NEW g \in Goroutines, TrampolineEnter(g) \/ TrampolineReturn(g)
      PROVE IInv'
  BY <1>3, TrampolineEnterKeeps, TrampolineReturnKeeps
<1>4. CASE UNCHANGED vars
  BY <1>4 DEF vars, rustVars, goVars, trampVars, Callers, IInv, TypeOK, LockInv, HandlersInv,
     BoxInv, UsingInv, EndpointInv, RegisteredInv, Callers, trampVars,
     ConfiguredMetricsAreCollected
<1> QED
  BY <1>1, <1>2, <1>3, <1>4 DEF Next

\* The inductive invariant holds in every state.
LEMMA Inductive == Spec => []IInv
BY InitIInv, NextIInv, PTL DEF Spec

\* The type invariant of the build's shared state.
THEOREM TypeCorrect == Spec => []TypeOK
<1>1. IInv => TypeOK
  BY DEF IInv
<1> QED
  BY <1>1, Inductive, PTL

\* No trampoline uses a handler set that a rollback or a refused build freed,
\* unless a goroutine called it before its build had succeeded.
THEOREM NeverUsedAfterFree == Spec => []NoUseAfterFree
<1>1. ASSUME IInv, NEW t \in Callers \ early, using[t] # None
      PROVE  box[using[t]] = "live"
  <2>1. CASE t \in Builders
    BY <1>1, <2>1 DEF IInv, UsingInv, BoxInv, HandlersInv, LockInv, Published
  <2>2. CASE t \in Goroutines
    BY <1>1, <2>2 DEF IInv, UsingInv, BoxInv, HandlersInv
  <2> QED
    BY <1>1, <2>1, <2>2 DEF Callers
<1>2. IInv => NoUseAfterFree
  BY <1>1 DEF NoUseAfterFree
<1> QED
  BY <1>2, Inductive, PTL

\* Whatever later builds attempt, HANDLERS keeps the engine's own live set.
THEOREM HandlersStayPublished == Spec => []EngineHasItsHandlers
<1>1. IInv => EngineHasItsHandlers
  BY DEF IInv, BoxInv, HandlersInv, EngineHasItsHandlers
<1> QED
  BY <1>1, Inductive, PTL

\* A failed build leaves no published or allocated set and no bound address.
THEOREM RetriesStartClean == Spec => []RetryStartsClean
<1>1. IInv => RetryStartsClean
  BY NoneAssumption DEF IInv, TypeOK, LockInv, HandlersInv, BoxInv, EndpointInv,
     RetryStartsClean, Builds, Phases, Holding
<1> QED
  BY <1>1, Inductive, PTL

\* Build-time engine logs reach the handler set of the build that is running.
THEOREM BuildLogsReachHandlers == Spec => []BuildLogsReachOwnHandlers
<1>1. IInv => BuildLogsReachOwnHandlers
  BY DEF IInv, HandlersInv, RegisteredInv, Published, BuildLogsReachOwnHandlers
<1> QED
  BY <1>1, Inductive, PTL

\* An engine built with metrics collects bandwidth telemetry.
THEOREM MetricsCollected == Spec => []ConfiguredMetricsAreCollected
<1>1. IInv => ConfiguredMetricsAreCollected
  BY DEF IInv, RegisteredInv
<1> QED
  BY <1>1, Inductive, PTL
=============================================================================
