--------------------------- MODULE LifecycleProofs ---------------------------
(***************************************************************************)
(* Proofs that the lifecycle keeps its safety invariants, for any sets of  *)
(* threads.  The promises are about what a call finds many steps after it  *)
(* crossed the gate, so they need an invariant that says who may be inside *)
(* Shutdown, and what the context, the client and the callback look like   *)
(* while somebody is.                                                      *)
(***************************************************************************)
EXTENDS Lifecycle, TLAPS

\* Once the callback has closed the gate, only a llingr_run that opened it
\* afterwards can have left it open.
GateInv == stopGateOpen /\ callback \notin {"idle", "entered"} => reopens > 0

\* Nothing but "start" before llingr_init; every field set after it.
PublishedInv ==
  /\ ~consumer => /\ runDone = "nil" /\ ctx = "nil" /\ broker = "none"
                  /\ notice = "none" /\ opens = 0 /\ engine = "ready"
                  /\ \A s \in Stopping : pc[s] \in {"start", "done"}
                  /\ \A r \in Runners : pc[r] \in {"start", "notInitialised"}
  /\ consumer => runDone # "nil" /\ ctx # "nil" /\ broker # "none"

\* The callback runs exactly when an exit was elected, cleans up only after
\* an emergency, and the handler's own call stays inside it.
CallbackInv ==
  /\ callback = "idle" <=> notice = "none"
  /\ callback \in {"cleanup", "cancel"} => Emergency
  /\ pc[HostHandler] \notin {"start", "done"} => callback = "handler"
  /\ notice = "graceful" => drives > 0 /\ broker # "connected"
  /\ callback \in {"cancel", "signal", "returned"} => broker # "connected"

\* Who is inside Shutdown crossed the gate, and crossed it alone unless the
\* gate was crossed twice.
WinnerInv ==
  /\ \A s \in Stopping : InsideShutdown(s) => drives > 0
  /\ drives <= 1 =>
       \A s, t \in Stopping : InsideShutdown(s) /\ InsideShutdown(t) => s = t

\* While the winner has not finished its Shutdown, nobody has notified a
\* graceful exit, cancelled the context, or taken the engine out of its drain.
DrainInv ==
  /\ notice = "graceful" /\ drives <= 1 =>
       \A s \in Stopping : pc[s] \notin {"shutdown", "draining"}
  /\ ctx = "cancelled" /\ ~Emergency => drives > 0
  /\ ctx = "cancelled" /\ ~Emergency /\ drives <= 1 =>
       \A s \in Stopping : pc[s] \notin {"shutdown", "draining", "notifying", "cancel"}
  /\ broker \in {"released", "failed"} => notice # "none"
  /\ engine = "stopped" => notice # "none"
  /\ engine = "draining" => \E s \in Stopping : pc[s] = "draining"
  /\ engine = "panicked" => drives > 0
  /\ engine = "panicked" /\ drives <= 1 =>
       \A s \in Stopping : pc[s] \notin {"shutdown", "draining", "notifying"}

\* What releasing runDone waits for.
Finished ==
  \/ callback = "returned" /\ broker # "connected"
  \/ engine = "panicked"
  \/ Emergency /\ drives > 0
  \/ opens > 1

ReturnInv ==
  /\ \A s \in Stopping : pc[s] \in {"cancel", "signal"} => Finished
  /\ runDone = "closed" => Finished
  /\ \A r \in Runners : pc[r] = "ok" => Finished

IInv ==
  /\ TypeOK
  /\ ShutdownsBoundedByRuns
  /\ GateInv
  /\ PublishedInv
  /\ CallbackInv
  /\ WinnerInv
  /\ DrainInv
  /\ ReturnInv
  /\ FinalCommitNotCut
  /\ ReentrantStopSkipsShutdown
-----------------------------------------------------------------------------

\* Publication: before it nothing can have happened.
LEMMA LlingrInitKeeps ==
  ASSUME IInv, LlingrInit
  PROVE  IInv'
<1> USE ThreadsDistinct DEF IInv, TypeOK, LlingrInit, Threads, Stopping,
      bridgeVars, engineVars, histVars
<1>1. TypeOK'
  BY DEF RunPhases, StopPhases, RunReturned, EnginePhases, CallbackPhases
<1>2. ShutdownsBoundedByRuns' /\ GateInv' /\ PublishedInv' /\ WinnerInv' /\ DrainInv' /\
      FinalCommitNotCut' /\ ReentrantStopSkipsShutdown'
  BY DEF ShutdownsBoundedByRuns, GateInv, PublishedInv, WinnerInv, DrainInv,
     FinalCommitNotCut, ReentrantStopSkipsShutdown, InsideShutdown, Emergency
<1>3. CallbackInv'
  BY DEF CallbackInv, PublishedInv, Emergency
<1>4. ReturnInv'
  BY DEF ReturnInv, PublishedInv, Finished, Emergency
<1> QED
  BY <1>1, <1>2, <1>3, <1>4

\* llingr_run reads the consumer.
LEMMA RunEnterKeeps ==
  ASSUME IInv, NEW r \in Runners, RunEnter(r)
  PROVE  IInv'
<1> USE ThreadsDistinct DEF IInv, TypeOK, RunEnter, Move, Threads, Stopping,
      bridgeVars, engineVars, histVars
<1>1. TypeOK'
  BY DEF RunPhases, StopPhases, RunReturned, EnginePhases, CallbackPhases
<1>2. ShutdownsBoundedByRuns' /\ GateInv' /\ PublishedInv' /\ CallbackInv' /\ WinnerInv' /\
      DrainInv' /\ ReturnInv' /\ FinalCommitNotCut' /\
      ReentrantStopSkipsShutdown'
  BY DEF ShutdownsBoundedByRuns, GateInv, PublishedInv, CallbackInv, WinnerInv,
     DrainInv, ReturnInv, FinalCommitNotCut, ReentrantStopSkipsShutdown,
     Emergency, InsideShutdown, Finished
<1> QED
  BY <1>1, <1>2

\* Opening the gate raises the bound on Shutdowns with it.
LEMMA RunOpenGateKeeps ==
  ASSUME IInv, NEW r \in Runners, RunOpenGate(r)
  PROVE  IInv'
<1> USE ThreadsDistinct DEF IInv, TypeOK, RunOpenGate, Move, Threads, Stopping,
      bridgeVars, engineVars, histVars
<1>1. TypeOK'
  BY DEF RunPhases, StopPhases, RunReturned, EnginePhases, CallbackPhases
<1>2. ShutdownsBoundedByRuns' /\ GateInv' /\ PublishedInv' /\ CallbackInv' /\ WinnerInv' /\
      DrainInv' /\ ReturnInv' /\ FinalCommitNotCut' /\
      ReentrantStopSkipsShutdown'
  BY DEF ShutdownsBoundedByRuns, GateInv, PublishedInv, CallbackInv, WinnerInv,
     DrainInv, ReturnInv, FinalCommitNotCut, ReentrantStopSkipsShutdown,
     Emergency, InsideShutdown, Finished
<1> QED
  BY <1>1, <1>2

\* Subscribe is called.
LEMMA SubscribeCalledKeeps ==
  ASSUME IInv, NEW r \in Runners, SubscribeCalled(r)
  PROVE  IInv'
<1> USE ThreadsDistinct DEF IInv, TypeOK, SubscribeCalled, Move, Threads,
      Stopping, bridgeVars, engineVars, histVars
<1>1. TypeOK'
  BY DEF RunPhases, StopPhases, RunReturned, EnginePhases, CallbackPhases
<1>2. ShutdownsBoundedByRuns' /\ GateInv' /\ PublishedInv' /\ CallbackInv' /\ WinnerInv' /\
      DrainInv' /\ ReturnInv' /\ FinalCommitNotCut' /\
      ReentrantStopSkipsShutdown'
  BY DEF ShutdownsBoundedByRuns, GateInv, PublishedInv, CallbackInv, WinnerInv,
     DrainInv, ReturnInv, FinalCommitNotCut, ReentrantStopSkipsShutdown,
     Emergency, InsideShutdown, Finished
<1> QED
  BY <1>1, <1>2

\* Subscribe returns.
LEMMA SubscribeReturnsKeeps ==
  ASSUME IInv, NEW r \in Runners, SubscribeReturns(r)
  PROVE  IInv'
<1> USE ThreadsDistinct DEF IInv, TypeOK, SubscribeReturns, Move, Threads,
      Stopping, bridgeVars, engineVars, histVars
<1>1. TypeOK'
  BY DEF RunPhases, StopPhases, RunReturned, EnginePhases, CallbackPhases
<1>2. ShutdownsBoundedByRuns' /\ GateInv' /\ PublishedInv' /\ CallbackInv' /\ WinnerInv' /\
      DrainInv' /\ ReturnInv' /\ FinalCommitNotCut' /\
      ReentrantStopSkipsShutdown'
  BY DEF ShutdownsBoundedByRuns, GateInv, PublishedInv, CallbackInv, WinnerInv,
     DrainInv, ReturnInv, FinalCommitNotCut, ReentrantStopSkipsShutdown,
     Emergency, InsideShutdown, Finished
<1> QED
  BY <1>1, <1>2

\* A parked run returns: what held when runDone was closed still holds.
LEMMA RunReturnKeeps ==
  ASSUME IInv, NEW r \in Runners, RunReturn(r)
  PROVE  IInv'
<1> USE ThreadsDistinct DEF IInv, TypeOK, RunReturn, Move, Threads, Stopping,
      bridgeVars, engineVars, histVars
<1>1. TypeOK'
  BY DEF RunPhases, StopPhases, RunReturned, EnginePhases, CallbackPhases
<1>2. ShutdownsBoundedByRuns' /\ GateInv' /\ PublishedInv' /\ CallbackInv' /\ WinnerInv' /\
      DrainInv' /\ ReturnInv' /\ FinalCommitNotCut' /\
      ReentrantStopSkipsShutdown'
  BY DEF ShutdownsBoundedByRuns, GateInv, PublishedInv, CallbackInv, WinnerInv,
     DrainInv, ReturnInv, FinalCommitNotCut, ReentrantStopSkipsShutdown,
     Emergency, InsideShutdown, Finished
<1> QED
  BY <1>1, <1>2

\* llingr_stop reads the consumer; the handler's call is inside the callback.
LEMMA StopEnterKeeps ==
  ASSUME IInv, NEW s \in Stopping, StopEnter(s)
  PROVE  IInv'
<1> USE ThreadsDistinct DEF IInv, TypeOK, StopEnter, Move, Threads, Stopping,
      bridgeVars, engineVars, histVars
<1>1. TypeOK'
  BY DEF RunPhases, StopPhases, RunReturned, EnginePhases, CallbackPhases
<1>2. ShutdownsBoundedByRuns' /\ GateInv' /\ PublishedInv' /\ CallbackInv' /\ WinnerInv' /\
      DrainInv' /\ ReturnInv' /\ FinalCommitNotCut' /\
      ReentrantStopSkipsShutdown'
  BY DEF ShutdownsBoundedByRuns, GateInv, PublishedInv, CallbackInv, WinnerInv,
     DrainInv, ReturnInv, FinalCommitNotCut, ReentrantStopSkipsShutdown,
     Emergency, InsideShutdown, Finished
<1> QED
  BY <1>1, <1>2

\* Crossing the gate: with one run() it is the first crossing, so nobody is
\* inside Shutdown and no graceful exit was notified.
LEMMA StopCASKeeps ==
  ASSUME IInv, NEW s \in Stopping, StopCAS(s)
  PROVE  IInv'
<1> USE ThreadsDistinct DEF IInv, TypeOK, StopCAS, Move, Threads, Stopping,
      bridgeVars, engineVars, histVars
<1>1. TypeOK'
  <2>1. stopGateOpen' \in BOOLEAN
    BY Zenon
  <2>2. stopGateOpen' \in BOOLEAN => TypeOK'
    BY DEF RunPhases, StopPhases, RunReturned, EnginePhases, CallbackPhases
  <2> QED
    BY <2>1, <2>2
<1>2. ShutdownsBoundedByRuns' /\ GateInv' /\ PublishedInv' /\ CallbackInv' /\ WinnerInv' /\
      ReturnInv' /\ FinalCommitNotCut'
  BY DEF ShutdownsBoundedByRuns, GateInv, PublishedInv, CallbackInv, WinnerInv,
     ReturnInv, FinalCommitNotCut, Emergency, InsideShutdown, Finished
<1>3. DrainInv'
  BY DEF DrainInv, CallbackInv, Emergency
<1>4. ReentrantStopSkipsShutdown'
  BY DEF ReentrantStopSkipsShutdown, GateInv, CallbackInv, InsideShutdown
<1> QED
  BY <1>1, <1>2, <1>3, <1>4

\* A Shutdown that returns at once found an emergency, a panic, or a second
\* crossing of the gate.
LEMMA ShutdownCalledKeeps ==
  ASSUME IInv, NEW s \in Stopping, ShutdownCalled(s)
  PROVE  IInv'
<1> USE ThreadsDistinct DEF IInv, TypeOK, ShutdownCalled, Move, Threads,
      Stopping, bridgeVars, engineVars, histVars
<1>1. TypeOK'
  BY DEF RunPhases, StopPhases, RunReturned, EnginePhases, CallbackPhases
<1>2. ShutdownsBoundedByRuns' /\ GateInv' /\ PublishedInv' /\ CallbackInv' /\ WinnerInv' /\
      DrainInv' /\ FinalCommitNotCut' /\ ReentrantStopSkipsShutdown'
  BY DEF ShutdownsBoundedByRuns, GateInv, PublishedInv, CallbackInv, WinnerInv,
     DrainInv, FinalCommitNotCut, ReentrantStopSkipsShutdown, Emergency,
     InsideShutdown
<1>3. ReturnInv'
  BY DEF ReturnInv, ShutdownsBoundedByRuns, WinnerInv, DrainInv, Finished,
     Emergency, InsideShutdown, EnginePhases
<1> QED
  BY <1>1, <1>2, <1>3

\* The drain ends: its driver is alone inside Shutdown, so the context is
\* live and the client connected, or else the exit is an emergency.
LEMMA ShutdownDrainedKeeps ==
  ASSUME IInv, NEW s \in Stopping, ShutdownDrained(s)
  PROVE  IInv'
<1> USE ThreadsDistinct DEF IInv, TypeOK, ShutdownDrained, Move, Threads,
      Stopping, bridgeVars, engineVars, histVars
<1>1. TypeOK'
  BY DEF RunPhases, StopPhases, RunReturned, EnginePhases, CallbackPhases
<1>2. ShutdownsBoundedByRuns' /\ GateInv' /\ PublishedInv' /\ WinnerInv' /\
      ReentrantStopSkipsShutdown'
  BY DEF ShutdownsBoundedByRuns, GateInv, PublishedInv, WinnerInv,
     ReentrantStopSkipsShutdown, InsideShutdown, Emergency
<1>3. CallbackInv'
  BY DEF CallbackInv, WinnerInv, Emergency, InsideShutdown
<1>4. DrainInv'
  BY DEF DrainInv, WinnerInv, Emergency, InsideShutdown
<1>5. ReturnInv'
  BY DEF ReturnInv, ShutdownsBoundedByRuns, WinnerInv, DrainInv, CallbackInv,
     Finished, Emergency, InsideShutdown
<1>6. FinalCommitNotCut'
  BY DEF FinalCommitNotCut, ShutdownsBoundedByRuns, PublishedInv, DrainInv,
     Emergency
<1> QED
  BY <1>1, <1>2, <1>3, <1>4, <1>5, <1>6

\* Shutdown panics.
LEMMA ShutdownPanicsKeeps ==
  ASSUME IInv, NEW s \in Stopping, ShutdownPanics(s)
  PROVE  IInv'
<1> USE ThreadsDistinct DEF IInv, TypeOK, ShutdownPanics, Move, Threads,
      Stopping, bridgeVars, engineVars, histVars
<1>1. TypeOK'
  BY DEF RunPhases, StopPhases, RunReturned, EnginePhases, CallbackPhases
<1>2. ShutdownsBoundedByRuns' /\ GateInv' /\ PublishedInv' /\ CallbackInv' /\ WinnerInv' /\
      ReturnInv' /\ FinalCommitNotCut' /\ ReentrantStopSkipsShutdown'
  BY DEF ShutdownsBoundedByRuns, GateInv, PublishedInv, CallbackInv, WinnerInv,
     ReturnInv, FinalCommitNotCut, ReentrantStopSkipsShutdown, Emergency,
     InsideShutdown, Finished
<1>3. DrainInv'
  BY DEF DrainInv, WinnerInv, Emergency, InsideShutdown
<1> QED
  BY <1>1, <1>2, <1>3

\* Shutdown returns after its notice.
LEMMA ShutdownReturnsKeeps ==
  ASSUME IInv, NEW s \in Stopping, ShutdownReturns(s)
  PROVE  IInv'
<1> USE ThreadsDistinct DEF IInv, TypeOK, ShutdownReturns, Move, Threads,
      Stopping, bridgeVars, engineVars, histVars
<1>1. TypeOK'
  BY DEF RunPhases, StopPhases, RunReturned, EnginePhases, CallbackPhases
<1>2. ShutdownsBoundedByRuns' /\ GateInv' /\ PublishedInv' /\ CallbackInv' /\ WinnerInv' /\
      DrainInv' /\ FinalCommitNotCut' /\ ReentrantStopSkipsShutdown'
  BY DEF ShutdownsBoundedByRuns, GateInv, PublishedInv, CallbackInv, WinnerInv,
     DrainInv, FinalCommitNotCut, ReentrantStopSkipsShutdown, Emergency,
     InsideShutdown
<1>3. ReturnInv'
  BY DEF ReturnInv, CallbackInv, Finished, Emergency
<1> QED
  BY <1>1, <1>2, <1>3

\* The driver of Shutdown cancels the context.
LEMMA StopCancelKeeps ==
  ASSUME IInv, NEW s \in Stopping, StopCancel(s)
  PROVE  IInv'
<1> USE ThreadsDistinct DEF IInv, TypeOK, StopCancel, Move, Threads, Stopping,
      bridgeVars, engineVars, histVars
<1>1. TypeOK'
  BY DEF RunPhases, StopPhases, RunReturned, EnginePhases, CallbackPhases
<1>2. ShutdownsBoundedByRuns' /\ GateInv' /\ PublishedInv' /\ CallbackInv' /\ WinnerInv' /\
      ReturnInv' /\ FinalCommitNotCut' /\ ReentrantStopSkipsShutdown'
  BY DEF ShutdownsBoundedByRuns, GateInv, PublishedInv, CallbackInv, WinnerInv,
     ReturnInv, FinalCommitNotCut, ReentrantStopSkipsShutdown, Emergency,
     InsideShutdown, Finished
<1>3. DrainInv'
  BY DEF DrainInv, WinnerInv, Emergency, InsideShutdown
<1> QED
  BY <1>1, <1>2, <1>3

\* The driver of Shutdown backs up runDone.
LEMMA StopSignalKeeps ==
  ASSUME IInv, NEW s \in Stopping, StopSignal(s)
  PROVE  IInv'
<1> USE ThreadsDistinct DEF IInv, TypeOK, StopSignal, Move, SignalRunDone,
      Threads, Stopping, bridgeVars, engineVars, histVars
<1>1. TypeOK'
  BY DEF RunPhases, StopPhases, RunReturned, EnginePhases, CallbackPhases
<1>2. ShutdownsBoundedByRuns' /\ GateInv' /\ PublishedInv' /\ CallbackInv' /\ WinnerInv' /\
      DrainInv' /\ ReturnInv' /\ FinalCommitNotCut' /\
      ReentrantStopSkipsShutdown'
  BY DEF ShutdownsBoundedByRuns, GateInv, PublishedInv, CallbackInv, WinnerInv,
     DrainInv, ReturnInv, FinalCommitNotCut, ReentrantStopSkipsShutdown,
     Emergency, InsideShutdown, Finished
<1> QED
  BY <1>1, <1>2

\* A host's emergency stop: it elects the exit unless one was.
LEMMA EmergencyStopKeeps ==
  ASSUME IInv, NEW q \in Requesters, EmergencyStop(q)
  PROVE  IInv'
<1> USE ThreadsDistinct DEF IInv, TypeOK, EmergencyStop, Move,
      EmergencyShutdown, Threads, Stopping, bridgeVars, engineVars, histVars
<1>1. TypeOK'
  BY DEF RunPhases, StopPhases, RunReturned, EnginePhases, CallbackPhases
<1>2. ShutdownsBoundedByRuns' /\ GateInv' /\ PublishedInv' /\ CallbackInv' /\ WinnerInv' /\
      DrainInv' /\ FinalCommitNotCut' /\ ReentrantStopSkipsShutdown'
  BY DEF ShutdownsBoundedByRuns, GateInv, PublishedInv, CallbackInv, WinnerInv,
     DrainInv, FinalCommitNotCut, ReentrantStopSkipsShutdown, Emergency,
     InsideShutdown
<1>3. ReturnInv'
  BY DEF ReturnInv, CallbackInv, DrainInv, Finished, Emergency
<1> QED
  BY <1>1, <1>2, <1>3

\* The engine's own emergency.
LEMMA EngineFaultKeeps ==
  ASSUME IInv, EngineFault
  PROVE  IInv'
<1> USE ThreadsDistinct DEF IInv, TypeOK, EngineFault, EmergencyShutdown,
      Threads, Stopping, bridgeVars, engineVars, histVars
<1>1. TypeOK'
  BY DEF RunPhases, StopPhases, RunReturned, EnginePhases, CallbackPhases
<1>2. ShutdownsBoundedByRuns' /\ GateInv' /\ PublishedInv' /\ CallbackInv' /\ WinnerInv' /\
      DrainInv' /\ FinalCommitNotCut' /\ ReentrantStopSkipsShutdown'
  BY DEF ShutdownsBoundedByRuns, GateInv, PublishedInv, CallbackInv, WinnerInv,
     DrainInv, FinalCommitNotCut, ReentrantStopSkipsShutdown, Emergency,
     InsideShutdown
<1>3. ReturnInv'
  BY DEF ReturnInv, CallbackInv, DrainInv, Finished, Emergency
<1> QED
  BY <1>1, <1>2, <1>3

\* The callback closes the gate.
LEMMA CallbackCloseGateKeeps ==
  ASSUME IInv, CallbackCloseGate
  PROVE  IInv'
<1> USE ThreadsDistinct DEF IInv, TypeOK, CallbackCloseGate, Threads, Stopping,
      bridgeVars, engineVars, histVars
<1>1. TypeOK'
  <2>1. stopGateOpen' \in BOOLEAN
    BY Zenon
  <2>2. stopGateOpen' \in BOOLEAN => TypeOK'
    BY DEF RunPhases, StopPhases, RunReturned, EnginePhases, CallbackPhases
  <2> QED
    BY <2>1, <2>2
<1>2. ShutdownsBoundedByRuns' /\ GateInv' /\ PublishedInv' /\ CallbackInv' /\ WinnerInv' /\
      DrainInv' /\ ReturnInv' /\ FinalCommitNotCut' /\
      ReentrantStopSkipsShutdown'
  BY DEF ShutdownsBoundedByRuns, GateInv, PublishedInv, CallbackInv, WinnerInv,
     DrainInv, ReturnInv, FinalCommitNotCut, ReentrantStopSkipsShutdown,
     Emergency, InsideShutdown, Finished
<1> QED
  BY <1>1, <1>2

\* The host handler returns.
LEMMA CallbackHandlerReturnsKeeps ==
  ASSUME IInv, CallbackHandlerReturns
  PROVE  IInv'
<1> USE ThreadsDistinct DEF IInv, TypeOK, CallbackHandlerReturns, Threads,
      Stopping, bridgeVars, engineVars, histVars
<1>1. TypeOK'
  BY DEF RunPhases, StopPhases, RunReturned, EnginePhases, CallbackPhases
<1>2. ShutdownsBoundedByRuns' /\ GateInv' /\ PublishedInv' /\ CallbackInv' /\ WinnerInv' /\
      DrainInv' /\ ReturnInv' /\ FinalCommitNotCut' /\
      ReentrantStopSkipsShutdown'
  BY DEF ShutdownsBoundedByRuns, GateInv, PublishedInv, CallbackInv, WinnerInv,
     DrainInv, ReturnInv, FinalCommitNotCut, ReentrantStopSkipsShutdown,
     Emergency, InsideShutdown, Finished
<1> QED
  BY <1>1, <1>2

\* The emergency clean-up releases the client.
LEMMA CallbackCleanupKeeps ==
  ASSUME IInv, CallbackCleanup
  PROVE  IInv'
<1> USE ThreadsDistinct DEF IInv, TypeOK, CallbackCleanup, Threads, Stopping,
      bridgeVars, engineVars, histVars
<1>1. TypeOK'
  BY DEF RunPhases, StopPhases, RunReturned, EnginePhases, CallbackPhases
<1>2. ShutdownsBoundedByRuns' /\ GateInv' /\ PublishedInv' /\ CallbackInv' /\ WinnerInv' /\
      ReturnInv' /\ FinalCommitNotCut' /\ ReentrantStopSkipsShutdown'
  BY DEF ShutdownsBoundedByRuns, GateInv, PublishedInv, CallbackInv, WinnerInv,
     ReturnInv, FinalCommitNotCut, ReentrantStopSkipsShutdown, Emergency,
     InsideShutdown, Finished
<1>3. DrainInv'
  BY DEF DrainInv, CallbackInv, Emergency
<1> QED
  BY <1>1, <1>2, <1>3

\* The emergency clean-up cancels the context.
LEMMA CallbackCancelKeeps ==
  ASSUME IInv, CallbackCancel
  PROVE  IInv'
<1> USE ThreadsDistinct DEF IInv, TypeOK, CallbackCancel, Threads, Stopping,
      bridgeVars, engineVars, histVars
<1>1. TypeOK'
  BY DEF RunPhases, StopPhases, RunReturned, EnginePhases, CallbackPhases
<1>2. ShutdownsBoundedByRuns' /\ GateInv' /\ PublishedInv' /\ CallbackInv' /\ WinnerInv' /\
      ReturnInv' /\ FinalCommitNotCut' /\ ReentrantStopSkipsShutdown'
  BY DEF ShutdownsBoundedByRuns, GateInv, PublishedInv, CallbackInv, WinnerInv,
     ReturnInv, FinalCommitNotCut, ReentrantStopSkipsShutdown, Emergency,
     InsideShutdown, Finished
<1>3. DrainInv'
  BY DEF DrainInv, CallbackInv, Emergency
<1> QED
  BY <1>1, <1>2, <1>3

\* The callback closes runDone, its last step.
LEMMA CallbackSignalKeeps ==
  ASSUME IInv, CallbackSignal
  PROVE  IInv'
<1> USE ThreadsDistinct DEF IInv, TypeOK, CallbackSignal, SignalRunDone,
      Threads, Stopping, bridgeVars, engineVars, histVars
<1>1. TypeOK'
  BY DEF RunPhases, StopPhases, RunReturned, EnginePhases, CallbackPhases
<1>2. ShutdownsBoundedByRuns' /\ GateInv' /\ PublishedInv' /\ CallbackInv' /\ WinnerInv' /\
      DrainInv' /\ FinalCommitNotCut' /\ ReentrantStopSkipsShutdown'
  BY DEF ShutdownsBoundedByRuns, GateInv, PublishedInv, CallbackInv, WinnerInv,
     DrainInv, FinalCommitNotCut, ReentrantStopSkipsShutdown, Emergency,
     InsideShutdown
<1>3. ReturnInv'
  BY DEF ReturnInv, CallbackInv, Finished, Emergency
<1> QED
  BY <1>1, <1>2, <1>3

-----------------------------------------------------------------------------

\* Initially no call has begun and nothing is published.
LEMMA InitIInv == Init => IInv
<1> SUFFICES ASSUME Init PROVE IInv
  OBVIOUS
<1> USE ThreadsDistinct DEF Init, Threads, Stopping
<1>1. consumer \in BOOLEAN /\ stopGateOpen \in BOOLEAN
  BY Zenon
<1>2. TypeOK
  BY <1>1 DEF TypeOK, RunPhases, StopPhases, EnginePhases, CallbackPhases
<1>3. PublishedInv /\ CallbackInv /\ WinnerInv /\ DrainInv /\ ReturnInv
  BY DEF PublishedInv, CallbackInv, WinnerInv, DrainInv, ReturnInv,
     InsideShutdown, Emergency
<1>4. ShutdownsBoundedByRuns /\ GateInv /\ FinalCommitNotCut /\ ReentrantStopSkipsShutdown
  BY DEF ShutdownsBoundedByRuns, GateInv, FinalCommitNotCut, ReentrantStopSkipsShutdown,
     InsideShutdown
<1> QED
  BY <1>2, <1>3, <1>4 DEF IInv

\* Every step keeps the inductive invariant.
LEMMA NextIInv == IInv /\ [Next]_vars => IInv'
<1> SUFFICES ASSUME IInv, [Next]_vars PROVE IInv'
  OBVIOUS
<1>1. CASE LlingrInit
  BY <1>1, LlingrInitKeeps
<1>2. ASSUME NEW r \in Runners, RunEnter(r) \/ RunStep(r) PROVE IInv'
  BY <1>2, RunEnterKeeps, RunOpenGateKeeps, SubscribeCalledKeeps,
     SubscribeReturnsKeeps, RunReturnKeeps DEF RunStep
<1>3. ASSUME NEW s \in Stopping, StopEnter(s) \/ StopStep(s) PROVE IInv'
  BY <1>3, StopEnterKeeps, StopCASKeeps, ShutdownCalledKeeps,
     ShutdownDrainedKeeps, ShutdownPanicsKeeps, ShutdownReturnsKeeps,
     StopCancelKeeps, StopSignalKeeps DEF StopStep
<1>4. ASSUME NEW q \in Requesters, EmergencyStop(q) PROVE IInv'
  BY <1>4, EmergencyStopKeeps
<1>5. CASE EngineFault
  BY <1>5, EngineFaultKeeps
<1>6. CASE CallbackStep
  BY <1>6, CallbackCloseGateKeeps, CallbackHandlerReturnsKeeps,
     CallbackCleanupKeeps, CallbackCancelKeeps, CallbackSignalKeeps
     DEF CallbackStep
<1>7. CASE UNCHANGED vars
  BY <1>7 DEF vars, bridgeVars, engineVars, histVars, IInv, TypeOK,
     ShutdownsBoundedByRuns, GateInv, PublishedInv, CallbackInv, WinnerInv,
     DrainInv, ReturnInv, Finished, FinalCommitNotCut, ReentrantStopSkipsShutdown,
     InsideShutdown, Emergency
<1> QED
  BY <1>1, <1>2, <1>3, <1>4, <1>5, <1>6, <1>7 DEF Next

\* The inductive invariant holds in every state.
LEMMA Inductive == Spec => []IInv
BY InitIInv, NextIInv, PTL DEF Spec

\* Every field of the bridge state keeps its type, for any sets of threads.
THEOREM TypeCorrect == Spec => []TypeOK
<1>1. IInv => TypeOK
  BY DEF IInv
<1> QED
  BY <1>1, Inductive, PTL

\* Shutdown is driven at most once per llingr_run that opened the gate, and
\* never before one did, however many threads call llingr_stop.
THEOREM ShutdownsBounded == Spec => []ShutdownsBoundedByRuns
<1>1. IInv => ShutdownsBoundedByRuns
  BY DEF IInv
<1> QED
  BY <1>1, Inductive, PTL

\* The final commit of a graceful drain is never cut short by another
\* llingr_stop: only by an emergency exit or a second llingr_run.
THEOREM CommitNotCut == Spec => []FinalCommitNotCut
<1>1. IInv => FinalCommitNotCut
  BY DEF IInv
<1> QED
  BY <1>1, Inductive, PTL

\* The llingr_stop of the shutdown handler never re-enters Shutdown, after a
\* graceful and after an emergency exit, unless a llingr_run opened the gate
\* after the callback had closed it.
THEOREM ReentrantStopSkips == Spec => []ReentrantStopSkipsShutdown
<1>1. IInv => ReentrantStopSkipsShutdown
  BY DEF IInv
<1> QED
  BY <1>1, Inductive, PTL

\* llingr_run returns 0 only after the shutdown handler ran and the broker was
\* released, outside the backstop cases the property names.
THEOREM RunReturnsLast == Spec => []RunReturnIsLast
<1>1. IInv => RunReturnIsLast
  BY DEF IInv, ReturnInv, Finished, RunReturnIsLast
<1> QED
  BY <1>1, Inductive, PTL
=============================================================================
