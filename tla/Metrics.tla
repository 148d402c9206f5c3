------------------------------ MODULE Metrics ------------------------------
(***************************************************************************)
(* Metrics from packet to scrape (src/metrics.rs).  Metrics::realise makes *)
(* a registry, registers both sinks in it, and serves it (the endpoint of  *)
(* Exporter) or hands it to the host's MetricsHandle; the build then       *)
(* succeeds, or drops the endpoint again.  Once an engine runs, its        *)
(* workers and its bandwidth aggregator call the sinks, each call a list   *)
(* of atomic updates of the registry, while scrapes read the registry one  *)
(* family after another.                                                   *)
(*                                                                         *)
(* A series is <<family, labels>>.  The labels that are the same for all   *)
(* series of a consumer (topic, group, service, team) are left out.        *)
(***************************************************************************)
EXTENDS Exporter, Sequences, SequencesExt

CONSTANTS
  Null,
  Workers,       \* engine goroutines that report a message
  Aggregator,    \* the goroutine that flushes bandwidth packets
  Messages,      \* the message packets the engine may report
  Flushes,       \* the bandwidth packets the aggregator may flush
  ServeThread,   \* the endpoint's thread, which renders what it answers
  HostThreads,   \* threads that hold a clone of the MetricsHandle
  Unset,         \* Go's zero time.Time
  ZeroTimeNanos, \* what UnixNano() makes of it: far below zero, and not 0
  CounterMod,    \* 2^64: counters are u64
  MaxPackets,    \* bound: packets reported
  MaxScrapes     \* bound: expositions rendered

\* Every message was read, after 1970.
ASSUME TimesAssumption ==
  /\ ZeroTimeNanos \in Int /\ ZeroTimeNanos < 0
  /\ \A m \in Messages : /\ m.readTime \in Nat \ {0} /\ m.readTime # Unset
                         /\ m.startTime = Unset \/ m.startTime \in Int

\* Figures that are positive fit a counter: an int64 is below 2^64.
ASSUME PacketsAssumption ==
  /\ CounterMod \in Nat \ {0}
  /\ Messages \cap Flushes = {}
  /\ \A m \in Messages : m.processNs \in Int /\ m.deadLetterNs \in Int
  /\ \A b \in Flushes :
       /\ b.brokers \in Seq(STRING)
       /\ LET Figure == {n \in Int : n < CounterMod} IN
          b.partitions \in Seq([id : Int, compression : STRING,
                               received_bytes : Figure, transmitted_bytes : Figure,
                               received_messages : Figure, compressed_bytes : Figure,
                               uncompressed_bytes : Figure])

VARIABLES
  mode,      \* Metrics.mode, of a build and its retries: "serve" or "registry"
  build,     \* "none", "realised", "rollback" or "built"
  slot,      \* registry mode: whether the handle's slot is set
  registry,  \* the value of every series that exists
  handling,  \* the updates each goroutine has yet to make
  scrape,    \* the exposition each thread is rendering, or Null
  rendered,  \* history: the expositions that were finished
  scrapes,   \* how many were begun
  given      \* history: the packets reported

sinkVars == <<registry, handling, given>>
viewVars == <<scrape, rendered, scrapes>>
allVars  == <<vars, mode, build, slot, sinkVars, viewVars>>

Threads == HostThreads \cup {ServeThread}

Cluster == <<"cluster">>

Value(r, s) == IF s \in DOMAIN r THEN r[s] ELSE 0

-----------------------------------------------------------------------------
(* The families, in the order MessageSink::register and                    *)
(* BandwidthSink::register register them                                   *)

Conditions == <<"errored", "panicked", "dead_lettered", "duplicate", "used_overflow">>
Histograms == <<"process_duration", "dead_letter_duration", "queue_wait_duration">>
PartitionCounters   == <<"received_bytes", "transmitted_bytes", "received_messages">>
CompressionCounters == <<"compressed_bytes", "uncompressed_bytes">>

CounterFamilies ==
  <<"processed">> \o Conditions \o PartitionCounters \o CompressionCounters

-----------------------------------------------------------------------------
(* The sinks: a call as its list of atomic updates *)

Inc(family, label, n)  == [set |-> FALSE, series |-> <<family, label>>, value |-> n]
Set(family, label, n)  == [set |-> TRUE,  series |-> <<family, label>>, value |-> n]
IncIf(condition, family, label, n) == IF condition THEN <<Inc(family, label, n)>> ELSE <<>>

\* metricsSinkCallback.
UnixNano(t) == IF t = Unset THEN ZeroTimeNanos ELSE t

\* Mutant: the wait of a message that was never processed is observed.
ObservedAnyWait(m) ==
  LET read == UnixNano(m.readTime)  start == UnixNano(m.startTime)  label == <<m.partition>> IN
  IncIf(m.processNs > 0, "process_duration", label, 1)
  \o IncIf(m.deadLetterNs > 0, "dead_letter_duration", label, 1)
  \o IncIf(read # 0 /\ start # 0, "queue_wait_duration", label, 1)

\* The histograms that take an observation.
Observed(m) ==
  LET read  == UnixNano(m.readTime)
      start == UnixNano(m.startTime)
      label == <<m.partition>>
  IN  IncIf(m.processNs > 0, "process_duration", label, 1)
      \o IncIf(m.deadLetterNs > 0, "dead_letter_duration", label, 1)
      \o IncIf(read # 0 /\ start # 0 /\ start - read > 0, "queue_wait_duration", label, 1)

\* The conditions the packet's trait bits report.
Flagged(m) ==
  LET flag(family) == IncIf(family \in m.traits, family, <<m.partition>>, 1)
  IN  flag("errored") \o flag("panicked") \o flag("dead_lettered")
      \o flag("duplicate") \o flag("used_overflow")

\* Mutant: the message is counted last.
MessageUpdatesCountLast(m) ==
  Flagged(m)
  \o <<Set("queue_depth", <<m.partition>>, m.depth), Set("current_offset", <<m.partition>>, m.offset)>>
  \o Observed(m)
  \o <<Inc("processed", <<m.partition>>, 1)>>

\* MessageSink::handle.
MessageUpdates(m) ==
  <<Inc("processed", <<m.partition>>, 1)>>
  \o Flagged(m)
  \o <<Set("queue_depth", <<m.partition>>, m.depth), Set("current_offset", <<m.partition>>, m.offset)>>
  \o Observed(m)

CompressionLabel(p) == <<p.id, IF p.compression = "" THEN "unknown" ELSE p.compression>>

\* Mutant: a delta is cast without a look at its sign.
DeltaUnsigned(p, family, label) == IncIf(p[family] # 0, family, label, p[family] % CounterMod)

\* One interval's delta: above zero it is added, otherwise ignored.
Delta(p, family, label) == IncIf(p[family] > 0, family, label, p[family] % CounterMod)

PartitionUpdates(p) ==
  Delta(p, "received_bytes", <<p.id>>)
  \o Delta(p, "transmitted_bytes", <<p.id>>)
  \o Delta(p, "received_messages", <<p.id>>)
  \o Delta(p, "compressed_bytes", CompressionLabel(p))
  \o Delta(p, "uncompressed_bytes", CompressionLabel(p))

\* The gauges broker_count, partition_count and stats_interval_seconds; the
\* aggregator alone sets them, and they are taken for one.
TopologyUpdates(b) ==
  <<Set("topology", Cluster, [brokers |-> Len(b.brokers), partitions |-> Len(b.partitions),
                              interval |-> b.interval])>>

\* BandwidthSink::handle.
BandwidthUpdates(b) ==
  TopologyUpdates(b)
  \o (IF UnixNano(b.ts) # 0
      THEN <<Set("last_collection_timestamp_seconds", Cluster, UnixNano(b.ts))>> ELSE <<>>)
  \o [i \in DOMAIN b.brokers |-> Set("broker_info", <<b.brokers[i]>>, 1)]
  \o FlattenSeq([i \in DOMAIN b.partitions |-> PartitionUpdates(b.partitions[i])])

-----------------------------------------------------------------------------
MetricsInit ==
  /\ Init
  /\ mode \in {"serve", "registry"}
  /\ build = "none"
  /\ slot = FALSE
  /\ registry = <<>>
  /\ handling = [g \in Workers \cup {Aggregator} |-> <<>>]
  /\ scrape = [t \in Threads |-> Null]
  /\ rendered = {}
  /\ scrapes = 0
  /\ given = <<>>

-----------------------------------------------------------------------------
(* build(): Metrics::realise, then success or the rollback *)

\* Serve mode: a bind failure is the build's error.
RealiseServe(taken) ==
  /\ build = "none"
  /\ mode = "serve"
  /\ ServeExposition(taken)
  /\ build' = IF owner' = "held" THEN "realised" ELSE "none"
  /\ registry' = <<>>
  /\ UNCHANGED <<mode, slot, handling, given, viewVars>>

\* Registry mode: the slot of this Metrics' own handle is set.
RealiseRegistry ==
  /\ build = "none"
  /\ mode = "registry"
  /\ serves < MaxServes
  /\ serves' = serves + 1
  /\ build' = "realised"
  /\ slot' = TRUE
  /\ registry' = <<>>
  /\ UNCHANGED <<mode, owner, loop, stop, servers, listener, queue, wake, late, sent,
                 handling, given, viewVars>>

BuildSucceeds ==
  /\ build = "realised"
  /\ build' = "built"
  /\ UNCHANGED <<vars, mode, slot, sinkVars, viewVars>>

\* llingr_init failed: the handler set is dropped, and the endpoint with it.
\* The handle keeps its registry, but no sink feeds it any more, so that a
\* rendering under way finds nothing more in it; the retry's Metrics has a
\* handle of its own.
BuildFails ==
  /\ build = "realised"
  /\ \/ /\ mode = "serve"
        /\ StoreStop
        /\ build' = "rollback"
        /\ UNCHANGED <<slot, scrape>>
     \/ /\ mode = "registry"
        /\ build' = "none"
        /\ slot' = FALSE
        /\ scrape' = [t \in Threads |->
                        IF scrape[t] = Null THEN Null
                        ELSE [left |-> <<>>, shown |-> scrape[t].shown, before |-> scrape[t].before]]
        /\ UNCHANGED vars
  /\ UNCHANGED <<mode, sinkVars, rendered, scrapes>>

RollbackJoins ==
  /\ Join
  /\ build' = "none"
  /\ UNCHANGED <<mode, slot, sinkVars, viewVars>>

-----------------------------------------------------------------------------
(* The engine: goroutines call the sinks *)

Report(g, packet, updates) ==
  /\ build = "built"
  /\ Len(given) < MaxPackets
  /\ handling[g] = <<>>
  /\ handling' = [handling EXCEPT ![g] = updates]
  /\ given' = Append(given, packet)
  /\ UNCHANGED <<vars, mode, build, slot, registry, viewVars>>

\* metrics_trampoline and bandwidth_trampoline.
ReportMessage(w, m) == Report(w, m, MessageUpdates(m))
FlushBandwidth(b)   == Report(Aggregator, b, BandwidthUpdates(b))

\* External: Family::get_or_create, then an operation on an atomic.
Apply(g) ==
  /\ handling[g] # <<>>
  /\ LET u == Head(handling[g])
         v == IF u.set THEN u.value ELSE (Value(registry, u.series) + u.value) % CounterMod
     IN  registry' = [s \in DOMAIN registry \cup {u.series} |->
                        IF s = u.series THEN v ELSE registry[s]]
  /\ handling' = [handling EXCEPT ![g] = Tail(@)]
  /\ UNCHANGED <<vars, mode, build, slot, given, viewVars>>

-----------------------------------------------------------------------------
(* A scrape: a GET of the endpoint's path, answered by the one thread that *)
(* serves, or MetricsHandle::scrape, on any number of threads at once      *)

StartScrape(t) ==
  /\ scrape[t] = Null
  /\ scrapes < MaxScrapes
  /\ \/ t = ServeThread /\ mode = "serve" /\ loop = "respond"
     \/ t \in HostThreads /\ slot
  /\ scrape' = [scrape EXCEPT ![t] = [left |-> CounterFamilies, shown |-> <<>>, before |-> rendered]]
  /\ scrapes' = scrapes + 1
  /\ UNCHANGED <<vars, mode, build, slot, sinkVars, rendered>>

\* What a scrape has once it has read its next family, of a registry r.
WithFamily(x, r) ==
  LET series == {s \in DOMAIN r : s[1] = Head(x.left)}
  IN  [left   |-> Tail(x.left),
       shown  |-> [s \in DOMAIN x.shown \cup series |-> IF s \in series THEN r[s] ELSE x.shown[s]],
       before |-> x.before]

\* External: the encoder takes the families in the order of registration.  Of
\* what it reads only the counters are kept.
ReadFamily(t) ==
  /\ scrape[t] # Null
  /\ scrape[t].left # <<>>
  /\ scrape' = [scrape EXCEPT ![t] = WithFamily(scrape[t], registry)]
  /\ UNCHANGED <<vars, mode, build, slot, sinkVars, rendered, scrapes>>

\* The exposition is the response, or what the handle returns.
FinishScrape(t) ==
  /\ scrape[t] # Null
  /\ scrape[t].left = <<>>
  /\ rendered' = rendered \cup {scrape[t].shown}
  /\ scrape' = [scrape EXCEPT ![t] = Null]
  /\ IF t = ServeThread THEN Respond ELSE UNCHANGED vars
  /\ UNCHANGED <<mode, build, slot, sinkVars, scrapes>>

\* Any other method or path: 405 or 404, without a look at the registry.
RespondRefused ==
  /\ scrape[ServeThread] = Null
  /\ Respond
  /\ UNCHANGED <<mode, build, slot, sinkVars, viewVars>>

-----------------------------------------------------------------------------
\* A step of the endpoint that concerns nothing else.
Alone(A) == A /\ UNCHANGED <<mode, build, slot, sinkVars, viewVars>>

MetricsNext ==
  \/ \E taken \in BOOLEAN : RealiseServe(taken)
  \/ RealiseRegistry \/ BuildSucceeds \/ BuildFails \/ RollbackJoins
  \/ \E w \in Workers, m \in Messages : ReportMessage(w, m)
  \/ \E b \in Flushes : FlushBandwidth(b)
  \/ \E g \in Workers \cup {Aggregator} : Apply(g)
  \/ \E t \in Threads : StartScrape(t) \/ ReadFamily(t) \/ FinishScrape(t)
  \/ RespondRefused
  \/ Alone(Unblock) \/ Alone(CheckStop) \/ Alone(Receive) \/ Alone(ReceiveNothing)
  \/ Alone(ReceiveFails) \/ Alone(Scrape) \/ Alone(AcceptEnds)

\* As in Exporter; a rendering, which never blocks, runs to its end.
MetricsFairness ==
  /\ WF_allVars(Alone(Unblock)) /\ WF_allVars(RollbackJoins)
  /\ WF_allVars(Alone(CheckStop)) /\ WF_allVars(Alone(Receive))
  /\ WF_allVars(Alone(ReceiveNothing)) /\ WF_allVars(RespondRefused)
  /\ WF_allVars(ReadFamily(ServeThread)) /\ WF_allVars(FinishScrape(ServeThread))
  /\ WF_allVars(Alone(AcceptEnds))

MetricsSpec == MetricsInit /\ [][MetricsNext]_allVars /\ MetricsFairness

-----------------------------------------------------------------------------
(* Properties *)

(***************************************************************************)
(* What a scraper takes rates of: no counter is lower in a scrape than in  *)
(* one that was finished when it began, nor has it gone, whatever deltas   *)
(* the aggregator reports and however scrapes and sink calls interleave    *)
(* (the sign checks of BandwidthSink::handle; a delta is cast to u64).     *)
(* Scrapes that overlap, of clones of one MetricsHandle, are not compared. *)
(***************************************************************************)
CountersNeverFall ==
  [][\A t \in Threads : FinishScrape(t) =>
       \A e \in scrape[t].before : \A s \in DOMAIN e :
         s \in DOMAIN scrape[t].shown /\ scrape[t].shown[s] >= e[s]]_allVars

(***************************************************************************)
(* A scrape reads processed before the conditions, and calls go on         *)
(* meanwhile, so it may show more errors than messages.  Any scrape that   *)
(* begins once it is finished has the messages: each condition a scrape    *)
(* shows is within the count of messages of the ones that follow, because  *)
(* MessageSink::handle counts the message first.                           *)
(***************************************************************************)
NextScrapeHasTheMessages ==
  [][\A t \in Threads : FinishScrape(t) =>
       \A e \in scrape[t].before : \A s \in DOMAIN e :
         s[1] \in ToSet(Conditions) =>
           e[s] <= Value(scrape[t].shown, <<"processed", s[2]>>)]_allVars

\* The sum of the first n elements of f.
SumTo(f, n) == LET total[i \in Nat] == IF i = 0 THEN 0 ELSE total[i - 1] + f[i] IN total[n]

Indicator(condition) == IF condition THEN 1 ELSE 0

\* What a packet is worth to a series, read off the packet alone.
MessageWorth(m, family) ==
  CASE family = "processed"            -> 1
    [] family = "process_duration"     -> Indicator(m.processNs > 0)
    [] family = "dead_letter_duration" -> Indicator(m.deadLetterNs > 0)
    [] family = "queue_wait_duration"  ->
         Indicator(m.startTime # Unset /\ m.startTime > m.readTime)
    [] OTHER                           -> Indicator(family \in ToSet(Conditions) \cap m.traits)

PartitionWorth(p, family, label) ==
  IF (family \in ToSet(PartitionCounters) /\ label = <<p.id>>) \/
     (family \in ToSet(CompressionCounters) /\ label = CompressionLabel(p))
  THEN Indicator(p[family] > 0) * p[family]
  ELSE 0

PacketWorth(packet, family, label) ==
  IF packet \in Messages
  THEN IF label = <<packet.partition>> THEN MessageWorth(packet, family) ELSE 0
  ELSE SumTo([i \in DOMAIN packet.partitions |->
                PartitionWorth(packet.partitions[i], family, label)],
             Len(packet.partitions))

\* What all the packets reported are worth to a series.
Worth(s) == SumTo([i \in DOMAIN given |-> PacketWorth(given[i], s[1], s[2])], Len(given))

\* The labels a packet's series may have.
LabelsOf(packet) ==
  IF packet \in Messages THEN {<<packet.partition>>}
  ELSE UNION {{<<p.id>>, CompressionLabel(p)} : p \in ToSet(packet.partitions)}

AddingFamilies == ToSet(CounterFamilies) \cup ToSet(Histograms)

(***************************************************************************)
(* Nothing is lost or counted twice: when no call is in progress, every    *)
(* counter and every histogram's count is what the packets add up to, as a *)
(* u64: several conditions on one message all counted, a message that was  *)
(* never started given no queue wait, and a negative delta ignored.        *)
(***************************************************************************)
TotalsAddUp ==
  build = "built" /\ (\A g \in DOMAIN handling : handling[g] = <<>>) =>
    /\ \A s \in DOMAIN registry :
         s[1] \in AddingFamilies =>
           registry[s] = Worth(s) % CounterMod
    /\ \A i \in DOMAIN given : \A f \in AddingFamilies, label \in LabelsOf(given[i]) :
         PacketWorth(given[i], f, label) > 0 => <<f, label>> \in DOMAIN registry
=============================================================================
