------------------------------ MODULE Lifecycle ------------------------------
(***************************************************************************)
(* The run/stop/emergency-stop lifecycle of the cgo bridge                 *)
(* (bridge/main.go): the stop gate, the runDone channel that parks         *)
(* llingr_run, the bridge context, and the shutdown callback the engine    *)
(* delivers.  Every exported call runs on a host thread of its own; the    *)
(* steps of a call that touch shared state are separate actions, so calls  *)
(* interleave between any two of them.                                     *)
(*                                                                         *)
(* The engine (llingr-demux) and the broker client are external.  Their    *)
(* actions are marked so, and allow everything the bridge and its tests    *)
(* allow of them: Subscribe succeeds, fails or panics; Shutdown drains     *)
(* and unsubscribes, or panics; an emergency exit may be elected at any    *)
(* moment until a graceful exit is; the first exit elected, and only it,   *)
(* delivers the shutdown callback.                                         *)
(***************************************************************************)
EXTENDS Naturals

CONSTANTS
  Runners,      \* host threads, each making one llingr_run call
  Stoppers,     \* host threads, each making one llingr_stop call
  Requesters,   \* host threads, each making one llingr_emergency_stop call
  HostHandler   \* the shutdown handler, which may call llingr_stop itself

ASSUME ThreadsDistinct ==
  /\ Runners \cap Stoppers = {}
  /\ Runners \cap Requesters = {}
  /\ Stoppers \cap Requesters = {}
  /\ HostHandler \notin Runners \cup Stoppers \cup Requesters

Stopping == Stoppers \cup {HostHandler}
Threads  == Runners \cup Stopping \cup Requesters

VARIABLES
  consumer,      \* state.consumer # nil
  stopGateOpen,  \* state.stopGateOpen
  runDone,       \* state.runDone: "nil", "open" or "closed"
  ctx,           \* the bridge context: "nil", "live" or "cancelled"
  broker,        \* the broker client: "none", "connected", "released", or
                 \* "failed" when its release was attempted and failed
  engine,        \* the engine's phase
  notice,        \* the exit elected to notify: "none", "graceful", "emergency"
  callback,      \* where the shutdown callback is
  commit,        \* the graceful drain's final commit: "none", "done" or "cut"
  pc,            \* where each thread's call is
  opens,         \* history: how many llingr_run calls opened the gate
  reopens,       \* history: how many did so after the callback closed it
  drives         \* history: how many llingr_stop calls drove Shutdown

bridgeVars == <<consumer, stopGateOpen, runDone, ctx>>
engineVars == <<broker, engine, notice, callback, commit>>
histVars   == <<opens, reopens, drives>>
vars       == <<bridgeVars, engineVars, pc, histVars>>

EnginePhases   == {"ready", "consuming", "draining", "stopped", "panicked"}
CallbackPhases == {"idle", "entered", "handler", "cleanup", "cancel",
                   "signal", "returned"}
RunReturned    == {"ok", "notInitialised", "subscribeFailed", "panicked"}
RunPhases      == {"start", "openGate", "subscribe", "subscribing", "parked"}
                    \cup RunReturned
StopPhases     == {"start", "cas", "shutdown", "draining", "notifying",
                   "cancel", "signal", "done"}

(***************************************************************************)
(* The type invariant: every field of bridgeState and every call is in a   *)
(* state the code can put it in.                                           *)
(***************************************************************************)
TypeOK ==
  /\ consumer \in BOOLEAN
  /\ stopGateOpen \in BOOLEAN
  /\ runDone \in {"nil", "open", "closed"}
  /\ ctx \in {"nil", "live", "cancelled"}
  /\ broker \in {"none", "connected", "released", "failed"}
  /\ engine \in EnginePhases
  /\ notice \in {"none", "graceful", "emergency"}
  /\ callback \in CallbackPhases
  /\ commit \in {"none", "done", "cut"}
  /\ pc \in [Threads -> RunPhases \cup StopPhases]
  /\ \A r \in Runners : pc[r] \in RunPhases
  /\ \A s \in Stopping : pc[s] \in StopPhases
  /\ opens \in Nat
  /\ reopens \in Nat
  /\ drives \in Nat

Init ==
  /\ consumer = FALSE
  /\ stopGateOpen = FALSE
  /\ runDone = "nil"
  /\ ctx = "nil"
  /\ broker = "none"
  /\ engine = "ready"
  /\ notice = "none"
  /\ callback = "idle"
  /\ commit = "none"
  /\ pc = [t \in Threads |-> "start"]
  /\ opens = 0
  /\ reopens = 0
  /\ drives = 0

Move(t, from, to) ==
  /\ pc[t] = from
  /\ pc' = [pc EXCEPT ![t] = to]

\* signalRunDone: close runDone once, if llingr_init made it.
SignalRunDone == runDone' = IF runDone = "nil" THEN "nil" ELSE "closed"

(***************************************************************************)
(* llingr_init, as the lifecycle sees it: the consumer, the context, the   *)
(* cleanup and runDone are published in one critical section of state.mu.  *)
(***************************************************************************)
LlingrInit ==
  /\ ~consumer
  /\ consumer' = TRUE
  /\ runDone' = "open"
  /\ ctx' = "live"
  /\ broker' = "connected"
  /\ UNCHANGED <<stopGateOpen, engine, notice, callback, commit, pc, histVars>>

-----------------------------------------------------------------------------
(* llingr_run *)

RunEnter(r) ==
  /\ \/ consumer /\ Move(r, "start", "openGate")
     \/ ~consumer /\ Move(r, "start", "notInitialised")
  /\ UNCHANGED <<bridgeVars, engineVars, histVars>>

\* Mutant: the gate is not opened before Subscribe.
RunOpenGateMissing(r) ==
  /\ Move(r, "openGate", "subscribe")
  /\ UNCHANGED <<bridgeVars, engineVars, histVars>>

RunOpenGate(r) ==
  /\ Move(r, "openGate", "subscribe")
  /\ stopGateOpen' = TRUE
  /\ opens' = opens + 1
  /\ reopens' = IF callback \in {"idle", "entered"} THEN reopens ELSE reopens + 1
  /\ UNCHANGED <<consumer, runDone, ctx, engineVars, drives>>

\* External: an engine that was stopped refuses a later Subscribe; one that
\* is stopped while Subscribe is under way may answer either way.
SubscribeCalled(r) ==
  /\ \/ engine \in {"ready", "consuming"} /\ Move(r, "subscribe", "subscribing")
     \/ engine \notin {"ready", "consuming"} /\ Move(r, "subscribe", "subscribeFailed")
  /\ UNCHANGED <<bridgeVars, engineVars, histVars>>

\* The err check after Subscribe, and the recovered panic.
SubscribeReturns(r) ==
  /\ \/ /\ Move(r, "subscribing", "parked")
        /\ engine' = IF engine = "ready" THEN "consuming" ELSE engine
     \/ /\ \/ Move(r, "subscribing", "subscribeFailed")
           \/ Move(r, "subscribing", "panicked")
        /\ UNCHANGED engine
  /\ UNCHANGED <<bridgeVars, broker, notice, callback, commit, histVars>>

RunReturn(r) ==
  /\ runDone = "closed"
  /\ Move(r, "parked", "ok")
  /\ UNCHANGED <<bridgeVars, engineVars, histVars>>

-----------------------------------------------------------------------------
(* llingr_stop, called by a host thread or by the shutdown handler *)

StopEnter(s) ==
  /\ s = HostHandler => callback = "handler"
  /\ \/ consumer /\ Move(s, "start", "cas")
     \/ ~consumer /\ Move(s, "start", "done")
  /\ UNCHANGED <<bridgeVars, engineVars, histVars>>

\* Mutant: the deferred calls are set up before the gate is tested.
StopCASDefersFirst(s) ==
  /\ \/ stopGateOpen /\ Move(s, "cas", "shutdown") /\ drives' = drives + 1
     \/ ~stopGateOpen /\ Move(s, "cas", "cancel") /\ UNCHANGED drives
  /\ stopGateOpen' = FALSE
  /\ UNCHANGED <<consumer, runDone, ctx, engineVars, opens, reopens>>

\* Mutant: the gate is loaded, not swapped.
StopCASLoadsOnly(s) ==
  /\ \/ stopGateOpen /\ Move(s, "cas", "shutdown") /\ drives' = drives + 1
     \/ ~stopGateOpen /\ Move(s, "cas", "done") /\ UNCHANGED drives
  /\ UNCHANGED <<bridgeVars, engineVars, opens, reopens>>

\* stopGateOpen.CompareAndSwap(true, false)
StopCAS(s) ==
  /\ \/ /\ stopGateOpen
        /\ Move(s, "cas", "shutdown")
        /\ drives' = drives + 1
     \/ /\ ~stopGateOpen
        /\ Move(s, "cas", "done")
        /\ UNCHANGED drives
  /\ stopGateOpen' = FALSE
  /\ UNCHANGED <<consumer, runDone, ctx, engineVars, opens, reopens>>

\* External: Shutdown begins a drain, or returns at once when the engine is
\* already draining or has already stopped.
ShutdownCalled(s) ==
  /\ \/ /\ engine \in {"ready", "consuming"}
        /\ Move(s, "shutdown", "draining")
        /\ engine' = "draining"
     \/ /\ engine \notin {"ready", "consuming"}
        /\ Move(s, "shutdown", "cancel")
        /\ UNCHANGED engine
  /\ UNCHANGED <<bridgeVars, broker, notice, callback, commit, histVars>>

\* External: the drain ends (its work is done, or drain_timeout abandoned
\* it), the final commit is made, the client leaves the group and closes; if
\* no other exit was elected, this goroutine delivers the callback.
ShutdownDrained(s) ==
  /\ engine' = "stopped"
  /\ commit' = IF ctx = "live" /\ broker = "connected" THEN "done" ELSE "cut"
  /\ broker' = IF broker = "connected" THEN "released" ELSE broker
  /\ \/ /\ notice = "none"
        /\ Move(s, "draining", "notifying")
        /\ notice' = "graceful"
        /\ callback' = "entered"
     \/ /\ notice # "none"
        /\ Move(s, "draining", "cancel")
        /\ UNCHANGED <<notice, callback>>
  /\ UNCHANGED <<bridgeVars, histVars>>

\* External: Shutdown panics; the deferred calls of llingr_stop still run.
ShutdownPanics(s) ==
  /\ Move(s, "draining", "cancel")
  /\ engine' = "panicked"
  /\ UNCHANGED <<bridgeVars, broker, notice, callback, commit, histVars>>

ShutdownReturns(s) ==
  /\ callback = "returned"
  /\ Move(s, "notifying", "cancel")
  /\ UNCHANGED <<bridgeVars, engineVars, histVars>>

\* The deferred calls, last in first out: cancel, then signalRunDone.
StopCancel(s) ==
  /\ Move(s, "cancel", "signal")
  /\ ctx' = "cancelled"
  /\ UNCHANGED <<consumer, stopGateOpen, runDone, engineVars, histVars>>

\* Mutant: llingr_stop leaves runDone to the callback.
StopSignalMissing(s) ==
  /\ Move(s, "signal", "done")
  /\ UNCHANGED <<bridgeVars, engineVars, histVars>>

StopSignal(s) ==
  /\ Move(s, "signal", "done")
  /\ SignalRunDone
  /\ UNCHANGED <<consumer, stopGateOpen, ctx, engineVars, histVars>>

-----------------------------------------------------------------------------
(* The emergency exit *)

\* External: the engine's EmergencyShutdown elects one exit and stops.
EmergencyShutdown ==
  \/ /\ notice = "none"
     /\ notice' = "emergency"
     /\ callback' = "entered"
     /\ engine' = "stopped"
  \/ /\ notice # "none"
     /\ UNCHANGED <<notice, callback, engine>>

EmergencyStop(q) ==
  /\ Move(q, "start", "done")
  /\ \/ consumer /\ EmergencyShutdown
     \/ ~consumer /\ UNCHANGED <<notice, callback, engine>>
  /\ UNCHANGED <<bridgeVars, broker, commit, histVars>>

\* External: the engine's own emergency exits (a dead-letter write failed,
\* or polling failed past the bail-out time).
EngineFault ==
  /\ engine \in {"consuming", "draining"}
  /\ notice = "none"
  /\ EmergencyShutdown
  /\ UNCHANGED <<bridgeVars, broker, commit, pc, histVars>>

-----------------------------------------------------------------------------
(* shutdownCallback, on the goroutine of the exit elected *)

\* Mutant: the callback leaves the gate as it is.
CallbackLeavesGate ==
  /\ callback = "entered"
  /\ callback' = "handler"
  /\ UNCHANGED <<bridgeVars, broker, engine, notice, commit, pc, histVars>>

CallbackCloseGate ==
  /\ callback = "entered"
  /\ callback' = "handler"
  /\ stopGateOpen' = FALSE
  /\ UNCHANGED <<consumer, runDone, ctx, broker, engine, notice, commit, pc, histVars>>

\* Mutant: runDone is closed before the clean-up.
CallbackHandlerReturnsSignalsFirst ==
  /\ callback = "handler"
  /\ pc[HostHandler] \in {"start", "done"}
  /\ callback' = IF notice = "emergency" THEN "cleanup" ELSE "signal"
  /\ SignalRunDone
  /\ UNCHANGED <<consumer, stopGateOpen, ctx, broker, engine, notice, commit, pc, histVars>>

\* The host handler returns (or none is registered); an llingr_stop it made
\* has returned first.
CallbackHandlerReturns ==
  /\ callback = "handler"
  /\ pc[HostHandler] \in {"start", "done"}
  /\ callback' = IF notice = "emergency" THEN "cleanup" ELSE "signal"
  /\ UNCHANGED <<bridgeVars, broker, engine, notice, commit, pc, histVars>>

\* emergencyBrokerCleanup: the adapter's Unsubscribe, whose error or panic
\* is contained, then the deferred cancel.
CallbackCleanup ==
  /\ callback = "cleanup"
  /\ callback' = "cancel"
  /\ \/ broker = "connected" /\ broker' \in {"released", "failed"}
     \/ broker # "connected" /\ UNCHANGED broker
  /\ UNCHANGED <<bridgeVars, engine, notice, commit, pc, histVars>>

\* Mutant: the emergency clean-up does not cancel the context.
CallbackCancelMissing ==
  /\ callback = "cancel"
  /\ callback' = "signal"
  /\ UNCHANGED <<bridgeVars, broker, engine, notice, commit, pc, histVars>>

CallbackCancel ==
  /\ callback = "cancel"
  /\ callback' = "signal"
  /\ ctx' = "cancelled"
  /\ UNCHANGED <<consumer, stopGateOpen, runDone, broker, engine, notice, commit, pc, histVars>>

CallbackSignal ==
  /\ callback = "signal"
  /\ callback' = "returned"
  /\ SignalRunDone
  /\ UNCHANGED <<consumer, stopGateOpen, ctx, broker, engine, notice, commit, pc, histVars>>

-----------------------------------------------------------------------------
RunStep(r) ==
  \/ RunOpenGate(r)
  \/ SubscribeCalled(r)
  \/ SubscribeReturns(r)
  \/ RunReturn(r)

StopStep(s) ==
  \/ StopCAS(s)
  \/ ShutdownCalled(s)
  \/ ShutdownDrained(s)
  \/ ShutdownPanics(s)
  \/ ShutdownReturns(s)
  \/ StopCancel(s)
  \/ StopSignal(s)

CallbackStep ==
  \/ CallbackCloseGate
  \/ CallbackHandlerReturns
  \/ CallbackCleanup
  \/ CallbackCancel
  \/ CallbackSignal

Next ==
  \/ LlingrInit
  \/ \E r \in Runners : RunEnter(r) \/ RunStep(r)
  \/ \E s \in Stopping : StopEnter(s) \/ StopStep(s)
  \/ \E q \in Requesters : EmergencyStop(q)
  \/ EngineFault
  \/ CallbackStep

(***************************************************************************)
(* A call that has begun keeps going: host threads and goroutines are      *)
(* scheduled, Subscribe ends by its assignment timeout, Shutdown by its    *)
(* drain timeout, and the host handler returns.  Nothing obliges the host  *)
(* to make a call, nor the engine to fail.                                 *)
(***************************************************************************)
Fairness ==
  /\ \A r \in Runners : WF_vars(RunStep(r))
  /\ \A s \in Stopping : WF_vars(StopStep(s))
  /\ WF_vars(CallbackStep)

Spec == Init /\ [][Next]_vars /\ Fairness

-----------------------------------------------------------------------------
(* Properties *)

InsideShutdown(s) == pc[s] \in {"shutdown", "draining", "notifying", "cancel", "signal"}
Emergency         == notice = "emergency"

(***************************************************************************)
(* "A losing stop never cuts the winner's drain short" (stopGateOpen): the *)
(* final commit of a graceful drain finds the bridge context live and the  *)
(* client connected, whatever other llingr_stop calls race it, the         *)
(* handler's own included.  Only an emergency exit, or a second llingr_run *)
(* that reopened the gate, can cut it.                                     *)
(***************************************************************************)
FinalCommitNotCut == commit = "cut" => Emergency \/ opens > 1

(***************************************************************************)
(* Shutdown is driven at most once for each llingr_run that opened the     *)
(* gate, and never before one did: a stop() ahead of run() neither drives  *)
(* Shutdown nor uses up the gate (llingr_stop's CompareAndSwap).           *)
(***************************************************************************)
ShutdownsBoundedByRuns == drives + (IF stopGateOpen THEN 1 ELSE 0) <= opens

(***************************************************************************)
(* "A handler that calls llingr_stop returns without re-entering           *)
(* Shutdown()" (stopGateOpen), on either exit.  After a graceful one the   *)
(* gate was crossed already; after an emergency one nobody crossed it, and *)
(* only the close at the head of the callback keeps the handler's stop()   *)
(* from cancelling the context and releasing run() before the broker is    *)
(* released.  The exception is a llingr_run that opened the gate again     *)
(* behind the callback's back, which StopAfterNoticeIsNoOp reports.        *)
(***************************************************************************)
ReentrantStopSkipsShutdown == InsideShutdown(HostHandler) => reopens > 0

(***************************************************************************)
(* "run() returning is the last event the host observes" (the deferred     *)
(* calls of shutdownCallback): when llingr_run has returned 0, the handler *)
(* has run and the broker was released.  Two cases are outside it.  A      *)
(* Shutdown that panicked: nobody else will release run().  And, contrary  *)
(* to that comment, a stop() that crossed the gate before an emergency     *)
(* exit was elected: its Shutdown returns and its backstop signalRunDone   *)
(* releases run() while the emergency's handler may still be running.      *)
(***************************************************************************)
RunReturnIsLast ==
  (\E r \in Runners : pc[r] = "ok") =>
    \/ callback = "returned" /\ broker # "connected"
    \/ engine = "panicked"
    \/ Emergency /\ drives > 0
    \/ opens > 1

(***************************************************************************)
(* A stop() made while a llingr_run is in Subscribe or parked is not lost  *)
(* ("so a stop() racing startup still stops the engine"): an exit is       *)
(* notified to its end, or the context is cancelled.                       *)
(***************************************************************************)
StopDuringRunNotLost ==
  \A s \in Stopping :
    (pc[s] = "cas" /\ \E r \in Runners : pc[r] \in {"subscribing", "parked"})
      ~> (callback = "returned" \/ ctx = "cancelled")

(***************************************************************************)
(* A parked llingr_run returns once an exit is elected or a stop() drives  *)
(* Shutdown, a Shutdown that panics included (the deferred signalRunDone). *)
(***************************************************************************)
ParkedRunReturns ==
  \A r \in Runners :
    (pc[r] = "parked" /\ (notice # "none" \/ drives > 0)) ~> pc[r] = "ok"

(***************************************************************************)
(* Every elected exit ends with the bridge context cancelled: by the       *)
(* stop() that drove Shutdown, or by the emergency clean-up, "which no     *)
(* stop() will do through the closed gate".                                *)
(***************************************************************************)
ContextReleased == (notice # "none") ~> (ctx = "cancelled")

(***************************************************************************)
(* The promise of the comment on stopGateOpen and of Llingr::stop's        *)
(* documentation: once the shutdown callback has closed the gate, no       *)
(* stop() drives Shutdown any more.                                        *)
(***************************************************************************)
StopAfterNoticeIsNoOp ==
  [][\A s \in Stopping :
       (pc[s] = "cas" /\ pc'[s] = "shutdown") => callback \in {"idle", "entered"}]_vars
=============================================================================
