------------------------------ MODULE Notices ------------------------------
(***************************************************************************)
(* The calls across the C ABI that carry no record, beside those of        *)
(* Boundary: the engine's metrics, bandwidth packets, log lines and        *)
(* shutdown notice to the host, and the host's emergency stop and snapshot *)
(* to the engine.                                                          *)
(*                                                                         *)
(* A C allocation is a block of the heap, numbered in the order the bridge *)
(* makes them.  Arguments cross by position; a string is the number of its *)
(* block and a length.  A byte of a Go string that is not UTF-8 is         *)
(* InvalidRun.                                                             *)
(***************************************************************************)
EXTENDS Boundary

CONSTANTS
  Packets,      \* nexus.Metrics: records of Counters
  Flushes,      \* nexus.BandwidthMetrics
  Lines,        \* log lines: [level, text]
  Reasons,      \* the texts a host or the engine may stop for, as Go strings
  Snapshots,    \* snapshot documents: field -> value
  KnownFields,  \* the fields of Snapshot and of the structs inside it
  UInt64        \* 2^64

ASSUME SnapshotAssumption ==
  /\ "error" \notin KnownFields
  /\ Null \notin {[error |-> -1], [error |-> -2]}

\* Go's types: a string is of bytes, the trait bits are a uint64, and the
\* topic came from the host as UTF-8.
ASSUME TypesAssumption ==
  /\ UInt64 \in Nat
  /\ \A m \in Packets :
       m \in [traits : 0..(UInt64 - 1), queue_depth : Int, partition : Int, offset : Int,
              process_duration_ns : Int, deadletter_duration_ns : Int, read_time_ns : Int,
              process_start_time_ns : Int, watermark_advance_time_ns : Int]
  /\ \A m \in Flushes :
       m \in [ts_unix_ns : Int, stats_interval_ns : Int,
              brokers    : Seq([id : Seq(Nat), host : Seq(Nat), port : Seq(Nat), rack : Seq(Nat)]),
              partitions : Seq([ts_unix_ns : Int, received_bytes : Int, transmitted_bytes : Int,
                                received_message_count : Int, compressed_bytes : Int,
                                uncompressed_bytes : Int, id : Int,
                                leader : Seq(Nat), compression : Seq(Nat)]),
              metrics_id : Seq(Nat), topic : Seq(Nat), consumer_group : Seq(Nat)]
  /\ \A line \in Lines : line \in [level : {"debug", "info", "warn", "error"}, text : Seq(Nat)]
  /\ \A text \in Reasons : text \in Seq(Nat)
  /\ TopicName \in Seq(Nat) /\ InvalidRun \notin ToSet(TopicName)

VARIABLES
  heap,    \* C blocks allocated: block -> contents
  frees,   \* the blocks that the deferred C.free calls name
  notice,  \* what crosses, or Null
  args,    \* the arguments of the call in progress, or Null
  given,   \* what the host's handler was given, or Null
  result   \* what snapshot() returned, or Null

noticeVars == <<heap, frees, notice, args, given, result>>
allVars    == <<vars, noticeVars>>

Replacement == 65533

NoticesInit ==
  /\ Init \/ /\ record = Null /\ wire = Null /\ seen = Null /\ told = Null
             /\ errBuf = <<>> /\ reason = Null /\ step = "idle"
  /\ heap = <<>> /\ frees = {}
  /\ notice = Null /\ args = Null /\ given = Null
  /\ result = Null

-----------------------------------------------------------------------------
(* Strings *)

\* C.CString in order, and the (pointer, length) of the i-th string.
Blocks(strings)  == [i \in DOMAIN strings |-> Append(strings[i], 0)]
Ref(strings, i)  == [ptr |-> i, len |-> Len(strings[i])]

\* String::from_utf8_lossy.
Lossy(bytes) == [i \in DOMAIN bytes |-> IF bytes[i] = InvalidRun THEN Replacement ELSE bytes[i]]

\* owned_str: borrow_bytes of a block, decoded into a String of its own.
OwnedStr(blocks, ref) ==
  IF ref.len <= 0 THEN <<>> ELSE Lossy(SubSeq(blocks[ref.ptr], 1, ref.len))

-----------------------------------------------------------------------------
(* Metrics: nine numbers *)

Counters ==
  <<"traits", "queue_depth", "partition", "offset", "process_duration_ns",
    "deadletter_duration_ns", "read_time_ns", "process_start_time_ns", "watermark_advance_time_ns">>

\* metricsSinkCallback: the trait bits cross as an int64.
MarshalMetrics(m) ==
  [i \in DOMAIN Counters |->
     LET n == m[Counters[i]] IN IF i = 1 /\ 2 * n >= UInt64 THEN n - UInt64 ELSE n]

\* metrics_trampoline: the trait bits are unsigned to Rust.
BorrowMetrics(w) ==
  [traits |-> w[1] % UInt64, queue_depth |-> w[2], partition |-> w[3], offset |-> w[4],
   process_duration_ns |-> w[5], deadletter_duration_ns |-> w[6],
   read_time_ns |-> w[7], process_start_time_ns |-> w[8], watermark_advance_time_ns |-> w[9]]

-----------------------------------------------------------------------------
(* Bandwidth: two numbers, three strings, and two arrays of structs *)

\* External: time.Duration's Milliseconds.
Milliseconds(ns) == ns \div 1000000

\* Mutant: the two int64 arguments change places.
BandwidthNumbersSwapped(m) == <<Milliseconds(m.stats_interval_ns), m.ts_unix_ns>>

\* Ts.UnixNano and StatsIntervalDuration.Milliseconds.
BandwidthNumbers(m) == <<m.ts_unix_ns, Milliseconds(m.stats_interval_ns)>>

\* The numbers of llingr_partition_bandwidth in the order of its fields.
PartitionFigures(p) ==
  <<p.ts_unix_ns, p.received_bytes, p.transmitted_bytes, p.received_message_count,
    p.compressed_bytes, p.uncompressed_bytes, p.id>>

BrokerTexts(b)    == <<b.id, b.host, b.port, b.rack>>
PartitionTexts(p) == <<p.leader, p.compression>>

\* The strings of a packet in the order bandwidthSink allocates them.
PacketTexts(m) ==
  FlattenSeq([i \in DOMAIN m.brokers |-> BrokerTexts(m.brokers[i])])
  \o FlattenSeq([i \in DOMAIN m.partitions |-> PartitionTexts(m.partitions[i])])
  \o <<m.metrics_id, IF m.topic = <<>> THEN TopicName ELSE m.topic, m.consumer_group>>

\* bandwidthSink: an empty array is a null pointer.
MarshalBandwidth(m) ==
  LET texts   == PacketTexts(m)
      brokers == 4 * Len(m.brokers)
      last    == brokers + 2 * Len(m.partitions)
  IN  [brokers    |-> IF m.brokers = <<>> THEN NullPtr
                      ELSE [i \in DOMAIN m.brokers |->
                              [f \in 1..4 |-> Ref(texts, 4 * (i - 1) + f)]],
       partitions |-> IF m.partitions = <<>> THEN NullPtr
                      ELSE [i \in DOMAIN m.partitions |->
                              [figures |-> PartitionFigures(m.partitions[i]),
                               strings |-> [f \in 1..2 |-> Ref(texts, brokers + 2 * (i - 1) + f)]]],
       numbers    |-> BandwidthNumbers(m),
       counts     |-> <<Len(m.brokers), Len(m.partitions)>>,
       strings    |-> [f \in 1..3 |-> Ref(texts, last + f)]]

\* The arrays of structs, numbered after the strings, are C blocks as well.
StructArrays(w) ==
  (IF w.counts[1] = 0 THEN <<>> ELSE <<w.brokers>>)
  \o (IF w.counts[2] = 0 THEN <<>> ELSE <<w.partitions>>)

\* frees: cstr adds the string it makes, and each malloc its array.
PacketFrees(m) ==
  1..Len(PacketTexts(m))
  \cup {Len(PacketTexts(m)) + n : n \in 1..Len(StructArrays(MarshalBandwidth(m)))}

\* bandwidth_trampoline: everything is copied before the handler runs.
BorrowBandwidth(w, blocks) ==
  LET own(ref) == OwnedStr(blocks, ref) IN
  [ts_unix_ns |-> w.numbers[1], stats_interval_ms |-> w.numbers[2],
   brokers    |-> IF w.counts[1] <= 0 THEN <<>>
                  ELSE [i \in 1..w.counts[1] |->
                          LET b == w.brokers[i] IN
                          [id |-> own(b[1]), host |-> own(b[2]), port |-> own(b[3]), rack |-> own(b[4])]],
   partitions |-> IF w.counts[2] <= 0 THEN <<>>
                  ELSE [i \in 1..w.counts[2] |->
                          LET p == w.partitions[i] IN
                          [ts_unix_ns |-> p.figures[1], received_bytes |-> p.figures[2],
                           transmitted_bytes |-> p.figures[3],
                           received_message_count |-> p.figures[4],
                           compressed_bytes |-> p.figures[5],
                           uncompressed_bytes |-> p.figures[6], id |-> p.figures[7],
                           leader |-> own(p.strings[1]), compression |-> own(p.strings[2])]],
   metrics_id |-> own(w.strings[1]), topic |-> own(w.strings[2]),
   consumer_group |-> own(w.strings[3])]

-----------------------------------------------------------------------------
(* Log lines and reasons *)

Levels == <<"debug", "info", "warn", "error">>

\* bridgeLogger's levels, and LogLevel::from_raw (external) into LogRouter.
LevelNumber(level) == CHOOSE n \in 0..3 : Levels[n + 1] = level
RouteLevel(n)      == Levels[n + 1]

\* Three texts the code supplies, each as a character of its own.
GracefulReason == <<1001>>
DefaultReason  == <<1002>>
Unknown        == <<1003>>

\* shutdownCallback: no reason is a graceful exit.
ReasonText(why) == IF why = Null THEN GracefulReason ELSE why

\* shutdown_trampoline.
BorrowReason(ref, blocks) == IF ref.len <= 0 THEN Unknown ELSE OwnedStr(blocks, ref)

\* request_emergency_stop and llingr_emergency_stop: what the engine is told.
EmergencyReason(text) == IF text = <<>> THEN DefaultReason ELSE text

-----------------------------------------------------------------------------
(* The calls *)

\* The bridge allocates blocks, defers a free of some and calls the trampoline.
Call(what, blocks, deferred, marshalled, borrowed) ==
  /\ step = "idle"
  /\ notice' = what
  /\ heap' = blocks
  /\ frees' = deferred
  /\ args' = marshalled
  /\ given' = borrowed
  /\ step' = "notified"
  /\ UNCHANGED <<record, wire, seen, told, errBuf, reason, result>>

SendMetrics(m) ==
  Call([kind |-> "metrics", sent |-> m], <<>>, {}, MarshalMetrics(m), BorrowMetrics(MarshalMetrics(m)))

SendBandwidth(m) ==
  LET texts == PacketTexts(m)
      flat  == MarshalBandwidth(m)
  IN  Call([kind |-> "bandwidth", sent |-> m], Blocks(texts) \o StructArrays(flat),
           PacketFrees(m), flat, BorrowBandwidth(flat, Blocks(texts)))

EmitLog(line) ==
  LET flat == [level |-> LevelNumber(line.level), msg |-> Ref(<<line.text>>, 1)]
  IN  Call([kind |-> "log", sent |-> line], Blocks(<<line.text>>), {1}, flat,
           [level |-> RouteLevel(flat.level), text |-> OwnedStr(Blocks(<<line.text>>), flat.msg)])

NotifyShutdown(why) ==
  LET texts == <<ReasonText(why)>>
  IN  Call([kind |-> "shutdown", sent |-> why], Blocks(texts), {1}, Ref(texts, 1),
           BorrowReason(Ref(texts, 1), Blocks(texts)))

\* External: the engine stops and gives the reason back to shutdownCallback.
EmergencyStop(text) ==
  LET texts == <<EmergencyReason(text)>>
  IN  Call([kind |-> "emergency", sent |-> text], Blocks(texts), {1}, Ref(texts, 1),
           BorrowReason(Ref(texts, 1), Blocks(texts)))

\* The handler returned, or its panic was caught and the payload dropped:
\* the deferred frees run.
NoticeReturns ==
  /\ step = "notified"
  /\ heap' = [b \in DOMAIN heap \ frees |-> heap[b]]
  /\ frees' = {}
  /\ args' = Null
  /\ given' = Null
  /\ step' = "over"
  /\ UNCHANGED <<record, wire, seen, told, errBuf, reason, notice, result>>

-----------------------------------------------------------------------------
(* The snapshot *)

\* llingr_take_snapshot: NULL without an engine, or when it panics.
TakeSnapshot(doc) ==
  /\ step = "idle"
  /\ notice' = [kind |-> "snapshot", sent |-> doc]
  /\ heap' = IF doc = Null THEN <<>> ELSE <<doc>>
  /\ args' = IF doc = Null THEN NullPtr ELSE 1
  /\ step' = "snapshot"
  /\ UNCHANGED <<frees, record, wire, seen, told, errBuf, reason, given, result>>

\* Snapshot::from_json.
FromJson(doc) ==
  IF KnownFields \subseteq DOMAIN doc THEN [f \in KnownFields |-> doc[f]] ELSE [error |-> -2]

\* take_snapshot_json copies the string and frees it; snapshot() parses the
\* copy.
TakeSnapshotJson ==
  /\ step = "snapshot"
  /\ result' = IF args = NullPtr THEN [error |-> -1] ELSE FromJson(heap[args])
  /\ heap' = <<>>
  /\ args' = Null
  /\ step' = "over"
  /\ UNCHANGED <<frees, record, wire, seen, told, errBuf, reason, notice, given>>

NoticesNext ==
  \/ Next /\ UNCHANGED noticeVars
  \/ \E m \in Packets : SendMetrics(m)
  \/ \E m \in Flushes : SendBandwidth(m)
  \/ \E line \in Lines : EmitLog(line)
  \/ \E why \in Reasons \cup {Null} : NotifyShutdown(why)
  \/ \E text \in Reasons : EmergencyStop(text)
  \/ NoticeReturns
  \/ \E doc \in Snapshots \cup {Null} : TakeSnapshot(doc)
  \/ TakeSnapshotJson

NoticesSpec == NoticesInit /\ [][NoticesNext]_allVars

-----------------------------------------------------------------------------
(* Properties *)

LossyFields(r) == [f \in DOMAIN r |-> Lossy(r[f])]

PartitionTold(p) ==
  [ts_unix_ns |-> p.ts_unix_ns, id |-> p.id, received_bytes |-> p.received_bytes,
   transmitted_bytes |-> p.transmitted_bytes, received_message_count |-> p.received_message_count,
   compressed_bytes |-> p.compressed_bytes, uncompressed_bytes |-> p.uncompressed_bytes,
   leader |-> Lossy(p.leader), compression |-> Lossy(p.compression)]

\* What the host ought to be given of a bandwidth packet, and of any notice.
FlushTold(m) ==
  [ts_unix_ns |-> m.ts_unix_ns, stats_interval_ms |-> Milliseconds(m.stats_interval_ns),
   brokers    |-> [i \in DOMAIN m.brokers |-> LossyFields(m.brokers[i])],
   partitions |-> [i \in DOMAIN m.partitions |-> PartitionTold(m.partitions[i])],
   metrics_id |-> Lossy(m.metrics_id), consumer_group |-> Lossy(m.consumer_group),
   topic      |-> IF m.topic = <<>> THEN TopicName ELSE Lossy(m.topic)]

Told(n) ==
  CASE n.kind = "metrics"   -> n.sent
    [] n.kind = "log"       -> [n.sent EXCEPT !.text = Lossy(@)]
    [] n.kind = "emergency" -> IF n.sent = <<>> THEN DefaultReason ELSE Lossy(n.sent)
    [] n.kind = "shutdown"  -> IF n.sent = Null THEN GracefulReason
                               ELSE IF n.sent = <<>> THEN Unknown ELSE Lossy(n.sent)
    [] n.kind = "bandwidth" -> FlushTold(n.sent)

(***************************************************************************)
(* What the engine reports is what the host is given, each figure in its   *)
(* own place and each string from its own block: the nine numbers of a     *)
(* metrics packet, a flush's two and the seven of each of its partitions   *)
(* all cross by position; arrays may be empty and a reason never is        *)
(* (metrics_trampoline, bandwidth_trampoline, log_trampoline,              *)
(* shutdown_trampoline).  A snapshot of an engine that knows more is read, *)
(* of one that knows less refused, never half filled; and when a call is   *)
(* over, every C block it made has been freed, the arrays of structs with  *)
(* the strings (bandwidthSink's frees, take_snapshot_json).                *)
(***************************************************************************)
HostIsTold ==
  /\ step = "notified" => given = Told(notice)
  /\ step = "over" => heap = <<>>
  /\ result # Null =>
       IF notice.sent = Null THEN result = [error |-> -1]
       ELSE result = [error |-> -2] \/ \A f \in KnownFields : result[f] = notice.sent[f]
  /\ result = [error |-> -2] => ~(KnownFields \subseteq DOMAIN notice.sent)
=============================================================================
