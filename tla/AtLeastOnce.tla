---------------------------- MODULE AtLeastOnce ----------------------------
(***************************************************************************)
(* What the consumer promises of one partition: a record is settled (the   *)
(* host processed it, recorded it as a dead letter, or left dead letters   *)
(* to be discarded), possibly more than once and in any order, and the     *)
(* group's committed offset only ever moves forward, over settled records. *)
(***************************************************************************)
EXTENDS Naturals

CONSTANT LogSize   \* the records of the partition are 0 .. LogSize - 1

VARIABLES
  settled,     \* the records settled so far
  committed    \* the group's committed offset

vars == <<settled, committed>>

Init ==
  /\ settled = {}
  /\ committed = 0

Settle(o) ==
  /\ settled' = settled \cup {o}
  /\ UNCHANGED committed

Commit(k) ==
  /\ k > committed
  /\ 0..(k - 1) \subseteq settled
  /\ committed' = k
  /\ UNCHANGED settled

Next ==
  \/ \E o \in 0..(LogSize - 1) : Settle(o)
  \/ \E k \in 1..LogSize : Commit(k)

Safety == Init /\ [][Next]_vars

Spec == Safety /\ WF_vars(Next)
=============================================================================
