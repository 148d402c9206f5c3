----------------------------- MODULE MCMetrics -----------------------------
(***************************************************************************)
(* Metrics with a worker and an aggregator, a few packets, and an          *)
(* endpoint that is started, dropped and started again.                    *)
(***************************************************************************)
EXTENDS Metrics

CONSTANTS w1, agg, serve, h1, h2

Message(traits, start, process, deadLetter) ==
  [partition |-> 0, traits |-> traits, depth |-> 0, offset |-> 1, readTime |-> 2,
   startTime |-> start, processNs |-> process, deadLetterNs |-> deadLetter]

\* A duplicate that failed before it was started, and a message that waited.
MCMessages == {Message({"errored", "duplicate"}, Unset, 0, 0), Message({}, 3, 0, 0)}

Partition(id, received, wire) ==
  [id |-> id, received_bytes |-> received, transmitted_bytes |-> 0, received_messages |-> 0,
   compressed_bytes |-> wire, uncompressed_bytes |-> 0, compression |-> ""]

MCZeroTimeNanos == -1000

\* A flush with a count that rose, a compressed size, and, its adapter having
\* been reset, a count that fell.
MCFlushes ==
  {[brokers |-> <<>>, partitions |-> <<Partition(0, 2, 1), Partition(1, -1, 0)>>,
    interval |-> 1, ts |-> 4]}
=============================================================================
