------------------------- MODULE MessagePathProofs -------------------------
(***************************************************************************)
(* What MessagePath's runs check on short logs, proved for every log and   *)
(* every number of disruptions.                                            *)
(*                                                                         *)
(* NothingSkipped is not inductive: that the committer may move over a     *)
(* record rests on the record being settled when its callbacks returned    *)
(* nil (DoneInv).  ReasonTellsWhy rests on a record carrying no outcome    *)
(* before its handler returned (FreshInv).                                 *)
(***************************************************************************)
EXTENDS MessagePath, TLAPS

Accounted(o) ==
  /\ settled[o] # {}
  /\ "deadletter" \in callbacks => settled[o] \cap {"processed", "deadlettered"} # {}

DoneInv      == \A o \in Offsets : work[o] = "done" => Accounted(o)
CommittedInv == \A o \in Offsets : o < committed => Accounted(o)
FreshInv     == \A o \in Offsets : work[o] \in {"unread", "processing"} => outcome[o] = "none"

IInv ==
  /\ TypeOK
  /\ DoneInv
  /\ CommittedInv
  /\ FreshInv
  /\ ReasonTellsWhy
  /\ TraitsMarkSuccess

-----------------------------------------------------------------------------
\* A step that settles nothing new and leaves the callbacks alone keeps
\* what was accounted for.
LEMMA SettleKeeps ==
  ASSUME NEW o \in Offsets, NEW end \in Ends,
         TypeOK, Settle(o, end), UNCHANGED callbacks
  PROVE  /\ settled' \in [Offsets -> SUBSET Ends]
         /\ \A p \in Offsets : Accounted(p) => Accounted(p)'
         /\ end \in settled'[o]
  BY DEF TypeOK, Settle, Accounted

\* The initial state satisfies the inductive invariant.
LEMMA InitIInv == Init => IInv
  <1> SUFFICES ASSUME Init PROVE IInv  OBVIOUS
  <1>1. TypeOK
    BY LogSizeAssumption, DisruptionsAssumption
    DEF Init, TypeOK, WorkPhases, Reasons, Offsets
  <1>2. DoneInv /\ FreshInv /\ TraitsMarkSuccess
    BY DEF Init, DoneInv, FreshInv, TraitsMarkSuccess
  <1>3. CommittedInv
    BY LogSizeAssumption DEF Init, CommittedInv, Offsets
  <1>4. ReasonTellsWhy
    BY DEF Init, ReasonTellsWhy
  <1> QED  BY <1>1, <1>2, <1>3, <1>4 DEF IInv

\* A worker's call of the process closure keeps the invariant.
LEMMA ProcessMessageKeeps ==
  ASSUME IInv, NEW o \in Offsets, ProcessMessage(o)
  PROVE  IInv'
  <1> USE DEF IInv, ProcessMessage, Move, durable
  <1>1. TypeOK'  BY DEF TypeOK, WorkPhases, Reasons
  <1>2. DoneInv' /\ CommittedInv'
    BY DEF TypeOK, DoneInv, CommittedInv, Accounted
  <1>3. FreshInv' /\ TraitsMarkSuccess'
    BY DEF TypeOK, FreshInv, TraitsMarkSuccess
  <1>4. ReasonTellsWhy'  BY DEF TypeOK, FreshInv, ReasonTellsWhy
  <1> QED  BY <1>1, <1>2, <1>3, <1>4

\* A handler whose effect becomes durable keeps the invariant.
LEMMA HandlerKeeps ==
  ASSUME IInv, NEW o \in Offsets, HandlerWorks(o) \/ HandlerRecords(o)
  PROVE  IInv'
  <1> USE DEF IInv
  <1>1. PICK end \in Ends : Settle(o, end)
    BY DEF HandlerWorks, HandlerRecords, Ends
  <1>2. UNCHANGED <<callbacks, work, reason, traits, committed, engine, outcome, disruptions>>
    BY DEF HandlerWorks, HandlerRecords
  <1>3. /\ settled' \in [Offsets -> SUBSET Ends]
        /\ \A p \in Offsets : Accounted(p) => Accounted(p)'
    BY <1>1, <1>2, SettleKeeps
  <1>4. TypeOK'  BY <1>2, <1>3 DEF TypeOK
  <1>5. DoneInv' /\ CommittedInv'  BY <1>2, <1>3 DEF DoneInv, CommittedInv
  <1>6. FreshInv' /\ ReasonTellsWhy' /\ TraitsMarkSuccess'
    BY <1>2 DEF FreshInv, ReasonTellsWhy, TraitsMarkSuccess
  <1> QED  BY <1>4, <1>5, <1>6

\* The return of the process callback keeps the invariant.
LEMMA ProcessReturnsKeeps ==
  ASSUME IInv, NEW o \in Offsets, NEW end \in Outcomes, ProcessReturns(o, end)
  PROVE  IInv'
  <1> USE DEF IInv, durable
  <1>1. /\ work[o] = "processing"
        /\ outcome' = [outcome EXCEPT ![o] = end]
        /\ UNCHANGED <<callbacks, settled, committed, engine, disruptions>>
    BY DEF ProcessReturns, Move
  <1>2. CASE end = "ok"
    <2>1. /\ "processed" \in settled[o]
          /\ work' = [work EXCEPT ![o] = "done"]
          /\ traits' = traits \cup {o}
          /\ UNCHANGED reason
      BY <1>2 DEF ProcessReturns, ProcessTrampoline, Move
    <2>2. TypeOK'  BY <1>1, <2>1 DEF TypeOK, WorkPhases
    <2>3. DoneInv' /\ CommittedInv'
      BY <1>1, <2>1 DEF TypeOK, DoneInv, CommittedInv, Accounted
    <2>4. FreshInv' /\ ReasonTellsWhy'
      BY <1>1, <2>1 DEF TypeOK, FreshInv, ReasonTellsWhy
    <2>5. TraitsMarkSuccess'
      BY <1>1, <1>2, <2>1 DEF TypeOK, TraitsMarkSuccess
    <2> QED  BY <2>2, <2>3, <2>4, <2>5
  <1>3. CASE end # "ok"
    <2>1. /\ work' = [work EXCEPT ![o] = "failed"]
          /\ UNCHANGED traits
      <3>1. ProcessTrampoline(end).rc = 1 /\ ~ProcessTrampoline(end).traits
        BY <1>3 DEF ProcessTrampoline
      <3> QED  BY <3>1 DEF ProcessReturns, Move
    <2>2. \/ end = "err"      /\ reason' = [reason EXCEPT ![o] = "own"]
          \/ end = "panic"    /\ reason' = [reason EXCEPT ![o] = "panicText"]
          \/ end = "errEmpty" /\ reason' = [reason EXCEPT ![o] = "returnCode"]
      BY <1>3 DEF ProcessReturns, ProcessTrampoline, Outcomes
    <2>3. TypeOK'  BY <1>1, <2>1, <2>2 DEF TypeOK, WorkPhases, Reasons
    <2>4. DoneInv' /\ CommittedInv'
      BY <1>1, <2>1 DEF TypeOK, DoneInv, CommittedInv, Accounted
    <2>5. FreshInv' /\ TraitsMarkSuccess'
      BY <1>1, <2>1 DEF TypeOK, FreshInv, TraitsMarkSuccess
    <2>6. ReasonTellsWhy'
      BY <1>1, <2>1, <2>2 DEF TypeOK, ReasonTellsWhy
    <2> QED  BY <2>3, <2>4, <2>5, <2>6
  <1> QED  BY <1>2, <1>3

\* Handing a failed record to the dead-letter closure keeps the invariant.
LEMMA WriteDeadLetterKeeps ==
  ASSUME IInv, NEW o \in Offsets, WriteDeadLetter(o)
  PROVE  IInv'
  <1> USE DEF IInv
  <1>1. /\ work[o] = "failed"
        /\ UNCHANGED <<callbacks, reason, traits, committed, engine, outcome, disruptions>>
    BY DEF WriteDeadLetter, Move
  <1>2. CASE "deadletter" \in callbacks
    <2>1. work' = [work EXCEPT ![o] = "recording"] /\ UNCHANGED settled
      BY <1>2 DEF WriteDeadLetter, Move
    <2>2. TypeOK'  BY <1>1, <2>1 DEF TypeOK, WorkPhases
    <2>3. DoneInv' /\ CommittedInv'
      BY <1>1, <2>1 DEF TypeOK, DoneInv, CommittedInv, Accounted
    <2>4. FreshInv' /\ ReasonTellsWhy' /\ TraitsMarkSuccess'
      BY <1>1, <2>1 DEF TypeOK, FreshInv, ReasonTellsWhy, TraitsMarkSuccess
    <2> QED  BY <2>2, <2>3, <2>4
  <1>3. CASE "deadletter" \notin callbacks
    <2>1. work' = [work EXCEPT ![o] = "done"] /\ Settle(o, "discarded")
      BY <1>3 DEF WriteDeadLetter, Move
    <2>2. /\ settled' \in [Offsets -> SUBSET Ends]
          /\ \A p \in Offsets : Accounted(p) => Accounted(p)'
          /\ "discarded" \in settled'[o]
      BY <1>1, <2>1, SettleKeeps DEF Ends
    <2>3. TypeOK'  BY <1>1, <2>1, <2>2 DEF TypeOK, WorkPhases
    <2>4. Accounted(o)'  BY <1>1, <1>3, <2>2 DEF Accounted
    <2>5. DoneInv' /\ CommittedInv'
      BY <1>1, <2>1, <2>2, <2>4 DEF TypeOK, DoneInv, CommittedInv
    <2>6. FreshInv' /\ ReasonTellsWhy' /\ TraitsMarkSuccess'
      BY <1>1, <2>1 DEF TypeOK, FreshInv, ReasonTellsWhy, TraitsMarkSuccess
    <2> QED  BY <2>3, <2>5, <2>6
  <1> QED  BY <1>2, <1>3

\* The return of the dead-letter callback keeps the invariant.
LEMMA DeadLetterReturnsKeeps ==
  ASSUME IInv, NEW o \in Offsets, NEW end \in Outcomes, DeadLetterReturns(o, end)
  PROVE  IInv'
  <1> USE DEF IInv, durable
  <1>1. /\ work[o] = "recording"
        /\ UNCHANGED <<callbacks, reason, traits, settled, committed, engine, outcome>>
    BY DEF DeadLetterReturns, Move
  <1>2. disruptions' \in 0..MaxDisruptions
    BY DisruptionsAssumption DEF TypeOK, DeadLetterReturns, Disrupt
  <1>3. \/ /\ work' = [work EXCEPT ![o] = "done"]
           /\ "deadlettered" \in settled[o]
        \/ work' = [work EXCEPT ![o] = "stuck"]
    BY DEF DeadLetterReturns, DeadletterTrampoline, Move
  <1>4. TypeOK'  BY <1>1, <1>2, <1>3 DEF TypeOK, WorkPhases
  <1>5. DoneInv' /\ CommittedInv'
    BY <1>1, <1>3 DEF TypeOK, DoneInv, CommittedInv, Accounted
  <1>6. FreshInv' /\ ReasonTellsWhy' /\ TraitsMarkSuccess'
    BY <1>1, <1>3 DEF TypeOK, FreshInv, ReasonTellsWhy, TraitsMarkSuccess
  <1> QED  BY <1>4, <1>5, <1>6

\* The committer keeps the invariant: it passes completed records only.
LEMMA CommitKeeps ==
  ASSUME IInv, NEW k \in 1..LogSize, Commit(k)
  PROVE  IInv'
  <1> USE DEF IInv, Commit
  <1>1. TypeOK'  BY LogSizeAssumption DEF TypeOK
  <1>2. \A o \in Offsets : o < k => Accounted(o)
    BY LogSizeAssumption DEF TypeOK, DoneInv, CommittedInv, Offsets
  <1>3. CommittedInv'  BY <1>2 DEF CommittedInv, Accounted
  <1>4. DoneInv' /\ FreshInv' /\ ReasonTellsWhy' /\ TraitsMarkSuccess'
    BY DEF DoneInv, FreshInv, ReasonTellsWhy, TraitsMarkSuccess, Accounted
  <1> QED  BY <1>1, <1>3, <1>4

\* The engine's own steps, and the end of the process, change no record.
LEMMA EngineKeeps ==
  ASSUME IInv, DeadLetterBreaker \/ EmergencyStop \/ Stop \/ DrainEnds \/ Exit
  PROVE  IInv'
  <1> USE DEF IInv
  <1>1. /\ UNCHANGED <<callbacks, work, reason, traits, settled, committed, outcome>>
        /\ engine' \in {"running", "draining", "stopped", "down"}
        /\ disruptions' \in 0..MaxDisruptions
    BY DisruptionsAssumption
    DEF TypeOK, DeadLetterBreaker, EmergencyStop, Stop, DrainEnds, Exit, Disrupt, durable
  <1>2. TypeOK'  BY <1>1 DEF TypeOK
  <1>3. DoneInv' /\ CommittedInv' /\ FreshInv' /\ ReasonTellsWhy' /\ TraitsMarkSuccess'
    BY <1>1 DEF DoneInv, CommittedInv, FreshInv, ReasonTellsWhy, TraitsMarkSuccess, Accounted
  <1> QED  BY <1>2, <1>3

\* A restart keeps the invariant: what it forgets is not durable.
LEMMA RestartKeeps ==
  ASSUME IInv, Restart
  PROVE  IInv'
  <1> USE DEF IInv, Restart, durable
  <1>1. TypeOK'  BY DEF TypeOK, WorkPhases, Reasons
  <1>2. CommittedInv'  BY DEF CommittedInv, Accounted
  <1>3. DoneInv' /\ FreshInv' /\ ReasonTellsWhy' /\ TraitsMarkSuccess'
    BY DEF DoneInv, FreshInv, ReasonTellsWhy, TraitsMarkSuccess
  <1> QED  BY <1>1, <1>2, <1>3

\* Every step, and stuttering, keeps the inductive invariant.
LEMMA NextIInv == IInv /\ [Next]_vars => IInv'
  <1> SUFFICES ASSUME IInv, [Next]_vars PROVE IInv'  OBVIOUS
  <1>1. CASE UNCHANGED vars
    BY <1>1 DEF vars, durable, IInv, TypeOK, DoneInv, CommittedInv, FreshInv,
                ReasonTellsWhy, TraitsMarkSuccess, Accounted
  <1>2. CASE \E o \in Offsets : RecordStep(o)
    BY <1>2, ProcessMessageKeeps, HandlerKeeps, ProcessReturnsKeeps,
       WriteDeadLetterKeeps, DeadLetterReturnsKeeps DEF RecordStep
  <1>3. CASE \E k \in 1..LogSize : Commit(k)
    BY <1>3, CommitKeeps
  <1>4. CASE DeadLetterBreaker \/ EmergencyStop \/ Stop \/ DrainEnds \/ Exit
    BY <1>4, EngineKeeps
  <1>5. CASE Restart
    BY <1>5, RestartKeeps
  <1> QED  BY <1>1, <1>2, <1>3, <1>4, <1>5 DEF Next

\* The inductive invariant holds in every reachable state.
LEMMA Inductive == Spec => []IInv
  <1>1. Init => IInv  BY InitIInv
  <1>2. IInv /\ [Next]_vars => IInv'  BY NextIInv
  <1> QED  BY <1>1, <1>2, PTL DEF Spec

-----------------------------------------------------------------------------
(***************************************************************************)
(* Type correctness of the message path.                                   *)
(***************************************************************************)
THEOREM TypeCorrect == Spec => []TypeOK
  <1>1. IInv => TypeOK  BY DEF IInv
  <1> QED  BY <1>1, Inductive, PTL

(***************************************************************************)
(* No record is skipped: for every log and any number of crashes, panics   *)
(* and failures, what is below the committed offset was processed or       *)
(* dead-lettered (makeProcessMessage, makeWriteDeadLetter).                *)
(***************************************************************************)
THEOREM NoRecordSkipped == Spec => []NothingSkipped
  <1>1. IInv => NothingSkipped
    BY DEF IInv, CommittedInv, Accounted, NothingSkipped
  <1> QED  BY <1>1, Inductive, PTL

(***************************************************************************)
(* Every dead letter carries the reason its handler gave.                  *)
(***************************************************************************)
THEOREM ReasonsTellWhy == Spec => []ReasonTellsWhy
  <1>1. IInv => ReasonTellsWhy  BY DEF IInv
  <1> QED  BY <1>1, Inductive, PTL

(***************************************************************************)
(* Custom traits are applied for successes only.                           *)
(***************************************************************************)
THEOREM TraitsOnlyOnSuccess == Spec => []TraitsMarkSuccess
  <1>1. IInv => TraitsMarkSuccess  BY DEF IInv
  <1> QED  BY <1>1, Inductive, PTL

-----------------------------------------------------------------------------
\* A step of the message path is a step of AtLeastOnce, or leaves its
\* variables alone.
LEMMA StepImplements ==
  ASSUME IInv, [Next]_vars
  PROVE  [Abstract!Next]_(Abstract!vars)
  <1> DEFINE handled == {o \in Offsets : settled[o] # {}}
  <1>1. ASSUME UNCHANGED <<settled, committed>>
        PROVE  [Abstract!Next]_(Abstract!vars)
    BY <1>1 DEF Abstract!vars
  <1>2. ASSUME NEW o \in Offsets, NEW end \in Ends, Settle(o, end), UNCHANGED committed
        PROVE  [Abstract!Next]_(Abstract!vars)
    <2>1. handled' = handled \cup {o}
      BY <1>2 DEF IInv, TypeOK, Settle
    <2>2. Abstract!Settle(o)
      BY <1>2, <2>1 DEF Abstract!Settle
    <2> QED  BY <2>2 DEF Abstract!Next, Offsets
  <1>3. ASSUME NEW k \in 1..LogSize, Commit(k)
        PROVE  [Abstract!Next]_(Abstract!vars)
    <2>1. 0..(k - 1) \subseteq handled
      BY <1>3, LogSizeAssumption
      DEF IInv, TypeOK, DoneInv, CommittedInv, Accounted, Commit, Offsets
    <2>2. Abstract!Commit(k)
      BY <1>3, <2>1 DEF Commit, Abstract!Commit
    <2> QED  BY <2>2 DEF Abstract!Next
  <1>4. CASE UNCHANGED vars
    BY <1>1, <1>4 DEF vars, durable
  <1>5. CASE \E o \in Offsets : RecordStep(o)
    <2>1. PICK o \in Offsets : RecordStep(o)  BY <1>5
    <2>2. CASE ProcessMessage(o)
      BY <1>1, <2>2 DEF ProcessMessage, durable
    <2>3. CASE HandlerWorks(o)
      BY <1>2, <2>3 DEF HandlerWorks, Ends
    <2>4. CASE \E end \in Outcomes : ProcessReturns(o, end)
      BY <1>1, <2>4 DEF ProcessReturns, durable
    <2>5. CASE WriteDeadLetter(o)
      <3>1. CASE UNCHANGED settled
        BY <1>1, <2>5, <3>1 DEF WriteDeadLetter
      <3>2. CASE Settle(o, "discarded")
        BY <1>2, <2>5, <3>2 DEF WriteDeadLetter, Ends
      <3> QED  BY <2>5, <3>1, <3>2 DEF WriteDeadLetter
    <2>6. CASE HandlerRecords(o)
      BY <1>2, <2>6 DEF HandlerRecords, Ends
    <2>7. CASE \E end \in Outcomes : DeadLetterReturns(o, end)
      BY <1>1, <2>7 DEF DeadLetterReturns, durable
    <2> QED  BY <2>1, <2>2, <2>3, <2>4, <2>5, <2>6, <2>7 DEF RecordStep
  <1>6. CASE \E k \in 1..LogSize : Commit(k)
    BY <1>3, <1>6
  <1>7. CASE DeadLetterBreaker \/ EmergencyStop \/ Stop \/ DrainEnds \/ Exit \/ Restart
    BY <1>1, <1>7
    DEF DeadLetterBreaker, EmergencyStop, Stop, DrainEnds, Exit, Restart, durable
  <1> QED  BY <1>4, <1>5, <1>6, <1>7 DEF Next

(***************************************************************************)
(* The message path implements AtLeastOnce's safety part for every log:    *)
(* the committed offset is monotone over settled records, and no record is *)
(* ever unsettled.                                                         *)
(***************************************************************************)
THEOREM Refinement == Spec => Abstract!Safety
  <1>1. Init => Abstract!Init
    BY DEF Init, Abstract!Init
  <1>2. IInv /\ [Next]_vars => [Abstract!Next]_(Abstract!vars)
    BY StepImplements
  <1> QED  BY <1>1, <1>2, Inductive, PTL DEF Spec, Abstract!Safety
=============================================================================
