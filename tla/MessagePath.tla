---------------------------- MODULE MessagePath ----------------------------
(***************************************************************************)
(* One partition's records on their way through the binding: the Go        *)
(* engine's workers call makeProcessMessage's closure, which calls the     *)
(* host's process callback through process_trampoline; a failure goes to   *)
(* makeWriteDeadLetter's closure and deadletter_trampoline; a failed dead  *)
(* letter makes the engine stop in emergency.  Records are in the          *)
(* callbacks concurrently, and the process may crash at any step and be    *)
(* started again from the group's committed offset.                        *)
(*                                                                         *)
(* The engine's worker pool and its gap-buffer committer are external: any *)
(* record at or past the committed offset may be worked on, at any time    *)
(* and in any order, and the offset moves over a contiguous run of records *)
(* whose callbacks returned nil.                                           *)
(***************************************************************************)
EXTENDS Naturals

CONSTANTS
  LogSize,         \* the records of the partition are 0 .. LogSize - 1
  MaxDisruptions   \* bound: crashes, stops, emergencies, failed dead letters

ASSUME LogSizeAssumption == LogSize \in Nat \ {0}
ASSUME DisruptionsAssumption == MaxDisruptions \in Nat

Offsets == 0..(LogSize - 1)

\* What a host handler does: its success, its error (with an empty text, or
\* not), or its panic.
Outcomes == {"ok", "err", "errEmpty", "panic"}

VARIABLES
  callbacks,     \* the callbacks sealed by llingr_init; a Rust build registers
                 \* both, a bare C host need not
  work,          \* where each record is in this run of the process
  reason,        \* the error each failed record carries to its dead letter
  traits,        \* the records whose metrics carry custom traits
  settled,       \* durable: what the host did with each record
  committed,     \* durable: the group's committed offset
  engine,        \* "running", "draining", "stopped", or "down" (no process)
  outcome,       \* history: how the process handler ended, for each record
  disruptions    \* history: how many disruptions there have been

durable == <<settled, committed>>
vars    == <<callbacks, work, reason, traits, durable, engine, outcome, disruptions>>

WorkPhases == {"unread", "processing", "failed", "recording", "done", "stuck"}
Reasons    == {"none", "noCallback", "own", "panicText", "returnCode"}
Ends       == {"processed", "deadlettered", "discarded"}

(***************************************************************************)
(* The type invariant of the message path.                                 *)
(***************************************************************************)
TypeOK ==
  /\ callbacks \subseteq {"process", "deadletter"}
  /\ work \in [Offsets -> WorkPhases]
  /\ reason \in [Offsets -> Reasons]
  /\ traits \subseteq Offsets
  /\ settled \in [Offsets -> SUBSET Ends]
  /\ committed \in 0..LogSize
  /\ engine \in {"running", "draining", "stopped", "down"}
  /\ outcome \in [Offsets -> Outcomes \cup {"none"}]
  /\ disruptions \in 0..MaxDisruptions

Init ==
  /\ callbacks \in SUBSET {"process", "deadletter"}
  /\ work = [o \in Offsets |-> "unread"]
  /\ reason = [o \in Offsets |-> "none"]
  /\ traits = {}
  /\ settled = [o \in Offsets |-> {}]
  /\ committed = 0
  /\ engine = "running"
  /\ outcome = [o \in Offsets |-> "none"]
  /\ disruptions = 0

Move(o, from, to) ==
  /\ engine # "down"
  /\ work[o] = from
  /\ work' = [work EXCEPT ![o] = to]

Settle(o, end) == settled' = [settled EXCEPT ![o] = @ \cup {end}]

Disrupt ==
  /\ disruptions < MaxDisruptions
  /\ disruptions' = disruptions + 1

-----------------------------------------------------------------------------
(* makeProcessMessage and process_trampoline *)

\* A worker calls the closure: without a callback it is an error at once.
ProcessMessage(o) ==
  /\ engine \in {"running", "draining"}
  /\ o >= committed
  /\ \/ /\ "process" \in callbacks
        /\ Move(o, "unread", "processing")
        /\ UNCHANGED reason
     \/ /\ "process" \notin callbacks
        /\ Move(o, "unread", "failed")
        /\ reason' = [reason EXCEPT ![o] = "noCallback"]
  /\ UNCHANGED <<callbacks, traits, durable, engine, outcome, disruptions>>

\* External: the handler's effect becomes durable, before it returns.
HandlerWorks(o) ==
  /\ engine # "down"
  /\ work[o] = "processing"
  /\ "processed" \notin settled[o]
  /\ Settle(o, "processed")
  /\ UNCHANGED <<callbacks, work, reason, traits, committed, engine, outcome, disruptions>>

\* Mutants: a panic leaves no text, is taken for a success, or the traits are
\* written before the handler's outcome is known.
ProcessTrampolineSilent(end) ==
  [rc |-> IF end = "ok" THEN 0 ELSE 1,
   text |-> IF end = "err" THEN "own" ELSE "none",
   traits |-> end = "ok"]

ProcessTrampolineSwallows(end) ==
  [rc |-> IF end \in {"ok", "panic"} THEN 0 ELSE 1,
   text |-> IF end = "err" THEN "own" ELSE "none",
   traits |-> end = "ok"]

ProcessTrampolineEagerTraits(end) ==
  [rc |-> IF end = "ok" THEN 0 ELSE 1,
   text |-> CASE end = "err" -> "own" [] end = "panic" -> "panicText" [] OTHER -> "none",
   traits |-> TRUE]

\* process_trampoline: the return code, the text left in err_buf, and whether
\* traits_out is written.  HANDLERS is not null here: see Publication.
ProcessTrampoline(end) ==
  [rc     |-> IF end = "ok" THEN 0 ELSE 1,
   text   |-> CASE end = "err"   -> "own"
                [] end = "panic" -> "panicText"
                [] OTHER         -> "none",
   traits |-> end = "ok"]

\* The closure's end: traits are applied, and a failure becomes an error with
\* the callback's text or, when it wrote none, its return code.  An Ok stands
\* for work that is durably done (docs/processing.md, the completion contract).
ProcessReturns(o, end) ==
  LET out == ProcessTrampoline(end) IN
  /\ end = "ok" => "processed" \in settled[o]
  /\ outcome' = [outcome EXCEPT ![o] = end]
  /\ traits' = IF out.traits THEN traits \cup {o} ELSE traits
  /\ \/ /\ out.rc = 0
        /\ Move(o, "processing", "done")
        /\ UNCHANGED reason
     \/ /\ out.rc # 0
        /\ Move(o, "processing", "failed")
        /\ reason' = [reason EXCEPT
             ![o] = IF out.text # "none" THEN out.text ELSE "returnCode"]
  /\ UNCHANGED <<callbacks, durable, engine, disruptions>>

-----------------------------------------------------------------------------
(* makeWriteDeadLetter and deadletter_trampoline *)

\* Mutant: without a callback the dead letter is an error.
WriteDeadLetterNilFails(o) ==
  /\ \/ "deadletter" \in callbacks /\ Move(o, "failed", "recording")
     \/ "deadletter" \notin callbacks /\ Move(o, "failed", "stuck")
  /\ UNCHANGED <<callbacks, reason, traits, durable, engine, outcome, disruptions>>

\* The engine hands a failed record on; without a callback it is discarded.
WriteDeadLetter(o) ==
  /\ \/ /\ "deadletter" \in callbacks
        /\ Move(o, "failed", "recording")
        /\ UNCHANGED settled
     \/ /\ "deadletter" \notin callbacks
        /\ Move(o, "failed", "done")
        /\ Settle(o, "discarded")
  /\ UNCHANGED <<callbacks, reason, traits, committed, engine, outcome, disruptions>>

\* External: the dead letter becomes durable, before the handler returns.
HandlerRecords(o) ==
  /\ engine # "down"
  /\ work[o] = "recording"
  /\ "deadlettered" \notin settled[o]
  /\ Settle(o, "deadlettered")
  /\ UNCHANGED <<callbacks, work, reason, traits, committed, engine, outcome, disruptions>>

\* Mutant: a panic in the dead-letter handler is swallowed.
DeadletterTrampolineSwallows(end) == IF end \in {"ok", "panic"} THEN 0 ELSE 1

DeadletterTrampoline(end) == IF end = "ok" THEN 0 ELSE 1

DeadLetterReturns(o, end) ==
  /\ end = "ok" => "deadlettered" \in settled[o]
  /\ \/ /\ DeadletterTrampoline(end) = 0
        /\ Move(o, "recording", "done")
        /\ UNCHANGED disruptions
     \/ /\ DeadletterTrampoline(end) # 0
        /\ Move(o, "recording", "stuck")
        /\ Disrupt
  /\ UNCHANGED <<callbacks, reason, traits, durable, engine, outcome>>

-----------------------------------------------------------------------------
(* External: the engine and the process *)

\* The committer moves over a contiguous run of completed records.
Commit(k) ==
  /\ engine \in {"running", "draining"}
  /\ k > committed
  /\ \A o \in committed..(k - 1) : work[o] = "done"
  /\ committed' = k
  /\ UNCHANGED <<callbacks, work, reason, traits, settled, engine, outcome, disruptions>>

\* A record that could be neither processed nor dead-lettered.
DeadLetterBreaker ==
  /\ engine \in {"running", "draining"}
  /\ \E o \in Offsets : work[o] = "stuck"
  /\ engine' = "stopped"
  /\ UNCHANGED <<callbacks, work, reason, traits, durable, outcome, disruptions>>

\* An emergency stop for another reason: the host's, or failing polls.
EmergencyStop ==
  /\ engine \in {"running", "draining"}
  /\ engine' = "stopped"
  /\ Disrupt
  /\ UNCHANGED <<callbacks, work, reason, traits, durable, outcome>>

Stop ==
  /\ engine = "running"
  /\ engine' = "draining"
  /\ Disrupt
  /\ UNCHANGED <<callbacks, work, reason, traits, durable, outcome>>

\* The drain is complete, or drain_timeout abandons what is left of it.
DrainEnds ==
  /\ engine = "draining"
  /\ engine' = "stopped"
  /\ UNCHANGED <<callbacks, work, reason, traits, durable, outcome, disruptions>>

\* The process ends: after the engine stopped, or by a crash.
Exit ==
  /\ engine # "down"
  /\ \/ engine = "stopped" /\ UNCHANGED disruptions
     \/ engine # "stopped" /\ Disrupt
  /\ engine' = "down"
  /\ UNCHANGED <<callbacks, work, reason, traits, durable, outcome>>

Restart ==
  /\ engine = "down"
  /\ engine' = "running"
  /\ work' = [o \in Offsets |-> "unread"]
  /\ reason' = [o \in Offsets |-> "none"]
  /\ outcome' = [o \in Offsets |-> "none"]
  /\ traits' = {}
  /\ UNCHANGED <<callbacks, durable, disruptions>>

-----------------------------------------------------------------------------
RecordStep(o) ==
  \/ ProcessMessage(o)
  \/ HandlerWorks(o)
  \/ \E end \in Outcomes : ProcessReturns(o, end)
  \/ WriteDeadLetter(o)
  \/ HandlerRecords(o)
  \/ \E end \in Outcomes : DeadLetterReturns(o, end)

Next ==
  \/ \E o \in Offsets : RecordStep(o)
  \/ \E k \in 1..LogSize : Commit(k)
  \/ DeadLetterBreaker
  \/ EmergencyStop
  \/ Stop
  \/ DrainEnds
  \/ Exit
  \/ Restart

(***************************************************************************)
(* Handlers return, workers and the committer are scheduled, a drain ends  *)
(* by its timeout, and a process that ended is started again: without the  *)
(* restart nothing could promise redelivery.                               *)
(***************************************************************************)
Fairness ==
  /\ \A o \in Offsets : WF_vars(RecordStep(o))
  /\ WF_vars(\E k \in 1..LogSize : Commit(k))
  /\ WF_vars(DeadLetterBreaker)
  /\ WF_vars(DrainEnds)
  /\ WF_vars(engine = "stopped" /\ Exit)
  /\ WF_vars(Restart)

Spec == Init /\ [][Next]_vars /\ Fairness

-----------------------------------------------------------------------------
(* Properties *)

(***************************************************************************)
(* "A message that can be neither processed nor dead-lettered must not     *)
(* have its offset advanced" (docs/internal/ARCHITECTURE.md): every record *)
(* below the committed offset was processed or dead-lettered durably, in   *)
(* this run of the process or an earlier one, whatever panicked, failed or *)
(* crashed.  Only a host that registered no dead-letter callback loses     *)
(* records, by contract.                                                   *)
(***************************************************************************)
NothingSkipped ==
  "deadletter" \in callbacks =>
    \A o \in Offsets : o < committed =>
      settled[o] \cap {"processed", "deadlettered"} # {}

(***************************************************************************)
(* The dead letter tells why: the process handler's own error text, or     *)
(* that it panicked; a synthetic text stands in only where the handler had *)
(* nothing to say (errLen in makeProcessMessage).                          *)
(***************************************************************************)
ReasonTellsWhy ==
  \A o \in Offsets : work[o] \in {"failed", "recording", "stuck"} =>
    CASE outcome[o] = "err"      -> reason[o] = "own"
      [] outcome[o] = "panic"    -> reason[o] = "panicText"
      [] outcome[o] = "errEmpty" -> reason[o] = "returnCode"
      [] OTHER                   -> reason[o] = "noCallback"

(***************************************************************************)
(* Custom traits in the metrics mark a success: a record that was          *)
(* dead-lettered, or whose handler panicked half-way, carries none.        *)
(***************************************************************************)
TraitsMarkSuccess ==
  \A o \in traits : outcome[o] = "ok" /\ work[o] = "done"

(***************************************************************************)
(* At-least-once delivery, end to end: once disruptions cease, every       *)
(* record is delivered until it is settled and its offset committed; no    *)
(* failed record holds the partition up for ever.                          *)
(***************************************************************************)
AllCommitted == <>(committed = LogSize)

Abstract == INSTANCE AtLeastOnce WITH
  settled <- {o \in Offsets : settled[o] # {}}

(***************************************************************************)
(* The message path implements AtLeastOnce: the committed offset is        *)
(* monotone and passes settled records only, and records are never         *)
(* unsettled, restarts included.                                           *)
(***************************************************************************)
ImplementsAtLeastOnce == Abstract!Spec
=============================================================================
