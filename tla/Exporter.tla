------------------------------ MODULE Exporter ------------------------------
(***************************************************************************)
(* The built-in scrape endpoint (src/metrics.rs): serve_exposition binds   *)
(* the address and starts a thread that answers requests one at a time;    *)
(* dropping the ExporterHandle tells the thread to stop, wakes it and      *)
(* joins it.  A failed build drops it, and the retry binds the same        *)
(* address (src/engine.rs).                                                *)
(*                                                                         *)
(* tiny_http is external: its queue of parsed requests, recv_timeout and   *)
(* unblock, and its own accept thread, which owns the listener.  When the  *)
(* last Arc<Server> goes that thread is told to end, and is not joined: it *)
(* closes the listener some time after the drop has returned.              *)
(***************************************************************************)
EXTENDS Integers

CONSTANTS
  MaxRequests,  \* bound: requests scrapers send
  MaxServes     \* bound: times the endpoint is started

ASSUME BoundsAssumption == MaxRequests \in Nat /\ MaxServes \in Nat

VARIABLES
  owner,    \* the owner of the ExporterHandle: none, held, stored, woken
  loop,     \* the serve loop: none, check, recv, respond, left
  stop,     \* ExporterHandle.stop
  servers,  \* who holds an Arc<Server>: a subset of {"handle", "thread"}
  listener, \* external, tiny_http's: none, open, closing
  queue,    \* requests parsed and not yet received
  wake,     \* whether unblock() has a receiver to wake
  late,     \* history: requests answered after stop was stored
  sent,     \* how many requests were sent
  serves    \* how many times serve_exposition was called

vars == <<owner, loop, stop, servers, listener, queue, wake, late, sent, serves>>

\* The type invariant of the scrape endpoint.
TypeOK ==
  /\ owner \in {"none", "held", "stored", "woken"}
  /\ loop \in {"none", "check", "recv", "respond", "left"}
  /\ stop \in BOOLEAN /\ wake \in BOOLEAN
  /\ servers \subseteq {"handle", "thread"}
  /\ listener \in {"none", "open", "closing"}
  /\ queue \in Nat /\ late \in Nat /\ sent \in Nat /\ serves \in Nat

Init ==
  /\ owner = "none"
  /\ loop = "none"
  /\ stop = FALSE
  /\ servers = {}
  /\ listener = "none"
  /\ queue = 0
  /\ wake = FALSE
  /\ late = 0
  /\ sent = 0
  /\ serves = 0

-----------------------------------------------------------------------------
(* The owner *)

\* An Arc<Server> is dropped; with the last one goes the Server, which tells
\* its accept thread to end.
Release(holder) ==
  /\ servers' = servers \ {holder}
  /\ listener' = IF servers' = {} THEN "closing" ELSE listener

\* serve_exposition: Server::http fails while the address is taken, by this
\* process or by another.
ServeExposition(taken) ==
  /\ owner = "none"
  /\ serves < MaxServes
  /\ serves' = serves + 1
  /\ \/ /\ taken \/ listener # "none"
        /\ UNCHANGED <<owner, loop, stop, servers, listener, queue, wake, late>>
     \/ /\ ~taken /\ listener = "none"
        /\ servers' = {"handle", "thread"}
        /\ listener' = "open"
        /\ stop' = FALSE
        /\ loop' = "check"
        /\ owner' = "held"
        /\ queue' = 0
        /\ wake' = FALSE
        /\ late' = 0
  /\ UNCHANGED sent

\* Mutant: the flag is not stored.
StoreStopForgotten ==
  /\ owner = "held"
  /\ owner' = "stored"
  /\ UNCHANGED <<loop, stop, servers, listener, queue, wake, late, sent, serves>>

\* ExporterHandle::shutdown, from drop.
StoreStop ==
  /\ owner = "held"
  /\ stop' = TRUE
  /\ owner' = "stored"
  /\ UNCHANGED <<loop, servers, listener, queue, wake, late, sent, serves>>

\* External: Server::unblock.
Unblock ==
  /\ owner = "stored"
  /\ wake' = TRUE
  /\ owner' = "woken"
  /\ UNCHANGED <<loop, stop, servers, listener, queue, late, sent, serves>>

\* Mutant: shutdown returns without joining the thread.
JoinSkipped ==
  /\ owner = "woken"
  /\ owner' = "none"
  /\ Release("handle")
  /\ UNCHANGED <<loop, stop, queue, wake, late, sent, serves>>

\* join() returns once the thread is over; the handle's fields go with it.
Join ==
  /\ owner = "woken"
  /\ loop = "left"
  /\ owner' = "none"
  /\ loop' = "none"
  /\ Release("handle")
  /\ UNCHANGED <<stop, queue, wake, late, sent, serves>>

-----------------------------------------------------------------------------
(* The serve loop *)

Leave ==
  /\ loop' = "left"
  /\ Release("thread")

\* The loop's condition.
CheckStop ==
  /\ loop = "check"
  /\ \/ ~stop /\ loop' = "recv" /\ UNCHANGED <<servers, listener>>
     \/ stop /\ Leave
  /\ UNCHANGED <<owner, stop, queue, wake, late, sent, serves>>

\* recv_timeout: a request, or nothing after POLL_INTERVAL or a wake-up, or an
\* error of the server.
Receive ==
  /\ loop = "recv"
  /\ queue > 0
  /\ queue' = queue - 1
  /\ loop' = "respond"
  /\ UNCHANGED <<owner, stop, servers, listener, wake, late, sent, serves>>

ReceiveNothing ==
  /\ loop = "recv"
  /\ queue = 0 \/ wake
  /\ wake' = FALSE
  /\ loop' = "check"
  /\ UNCHANGED <<owner, stop, servers, listener, queue, late, sent, serves>>

ReceiveFails ==
  /\ loop = "recv"
  /\ Leave
  /\ UNCHANGED <<owner, stop, queue, wake, late, sent, serves>>

\* Mutant: the requests at hand are answered before the flag is looked at.
RespondDrainsQueue ==
  /\ loop = "respond"
  /\ loop' = IF queue > 0 THEN "recv" ELSE "check"
  /\ late' = IF stop THEN late + 1 ELSE late
  /\ UNCHANGED <<owner, stop, servers, listener, queue, wake, sent, serves>>

\* The exposition, a 404 or a 405; an error of the client's is dropped.
Respond ==
  /\ loop = "respond"
  /\ loop' = "check"
  /\ late' = IF stop THEN late + 1 ELSE late
  /\ UNCHANGED <<owner, stop, servers, listener, queue, wake, sent, serves>>

\* External: a scraper; its connection is accepted while the listener is open.
Scrape ==
  /\ listener = "open"
  /\ sent < MaxRequests
  /\ queue' = queue + 1
  /\ sent' = sent + 1
  /\ UNCHANGED <<owner, loop, stop, servers, listener, wake, late, serves>>

\* External: the accept thread ends, and the listener with it.
AcceptEnds ==
  /\ listener = "closing"
  /\ listener' = "none"
  /\ UNCHANGED <<owner, loop, stop, servers, queue, wake, late, sent, serves>>

Next ==
  \/ \E taken \in BOOLEAN : ServeExposition(taken)
  \/ StoreStop \/ Unblock \/ Join
  \/ CheckStop \/ Receive \/ ReceiveNothing \/ ReceiveFails \/ Respond
  \/ Scrape \/ AcceptEnds

\* A drop, once begun, runs to its join, and the thread runs: recv_timeout
\* returns within POLL_INTERVAL, and a scraper reads its answer.  The accept
\* thread ends: the Server that goes connects to its own port to wake it.
Fairness ==
  /\ WF_vars(Unblock) /\ WF_vars(Join)
  /\ WF_vars(CheckStop) /\ WF_vars(Receive) /\ WF_vars(ReceiveNothing) /\ WF_vars(Respond)
  /\ WF_vars(AcceptEnds)

Spec == Init /\ [][Next]_vars /\ Fairness

-----------------------------------------------------------------------------
(* Properties *)

(***************************************************************************)
(* When the drop has returned, nothing of ours keeps the endpoint open: no *)
(* Arc<Server> is left, whatever the thread was doing, so that the         *)
(* listener is at most still being closed by tiny_http (shutdown joins     *)
(* before the handle's fields are dropped).  That the address is free by   *)
(* then is more than the code sees to: a retry that is quicker than the    *)
(* accept thread fails to bind.                                            *)
(***************************************************************************)
EndpointClosedAfterDrop == owner = "none" => servers = {} /\ listener # "open"

(***************************************************************************)
(* Scrapers do not hold a shutdown up: at most the request already being   *)
(* received when stop is stored is still answered, however many are queued *)
(* (the loop looks at the flag before every receive).                      *)
(***************************************************************************)
AtMostOneLateAnswer == late <= 1

(***************************************************************************)
(* A drop returns, whatever the thread is doing when it begins, provided a *)
(* scraper being answered reads its answer, and the address then comes     *)
(* free for a retry: a build's rollback, which holds the init lock         *)
(* meanwhile, does not hang (ExporterHandle::shutdown).                    *)
(***************************************************************************)
DropReturns == owner \in {"stored", "woken"} ~> owner = "none" /\ listener = "none"
=============================================================================
