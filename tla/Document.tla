------------------------------ MODULE Document ------------------------------
(***************************************************************************)
(* From the host's setters to the document the bridge reads: the engine    *)
(* Builder (src/engine.rs), DemuxConfig and the client options it takes    *)
(* (src/config.rs, src/options.rs), and config_json, which writes the JSON *)
(* by hand.  FranzOptions takes over from there.                           *)
(*                                                                         *)
(* Options::entries and its security keys are in ClientOptions; here an    *)
(* Options carries one client option.  A document of another host of the C *)
(* library (builder = Null) is any of Documents.                           *)
(***************************************************************************)
EXTENDS FranzOptions

CONSTANTS
  Null,
  Texts,       \* the texts a host may give
  HostPairs,   \* the pairs a host may give kafka_option
  Durations,   \* the Durations a host may give
  Counts,      \* the u32 values a host may give
  MaxSettings  \* bound: optional settings made

ASSUME HostAssumption == Durations \subseteq Nat /\ Counts \subseteq Nat /\ MaxSettings \in Nat

\* The keys whose values are free texts.  UnknownKey stands for every key that
\* no table has, and its value for what such a pair spells.
UnknownKey == "no.such.option"
TextKeys   == NameKeys \cup {"client.id", UnknownKey}

LastCodePoint == 1114111
Characters    == 0..LastCodePoint    \* external: code points

ASSUME TextsAssumption ==
  /\ Texts \subseteq Seq(Characters)
  /\ \A pair \in HostPairs : pair[1] \in TextKeys => pair[2] \in Seq(Characters)

VARIABLES
  builder,  \* engine::Builder, or Null
  demux,    \* the DemuxConfig being assembled
  asked,    \* history: the Durations given for client options, but for
            \* those a pair replaced
  made      \* how many optional settings were made

docVars == <<vars, builder, demux, asked, made>>

-----------------------------------------------------------------------------
(* Settings *)

CountSettings ==
  {"concurrentKeys", "perKeyBufferLen", "commitIngestChannelLen", "commitPartitionSliceLen",
   "workerShardsCount"}
DurationSettings ==
  {"pollTimeout", "autoCommitInterval", "drainTimeout", "awaitAssignmentsTimeout", "queryTimeout",
   "acquireWorkerTimeoutCircuitBreaker", "rebalancePausePollingTimeout",
   "acquireCommitGuardTimeout"}

DurationOptions ==
  PollErrorKeys \cup
  {"session.timeout.ms", "heartbeat.interval.ms", RebalanceKey, FetchWaitKey,
   "metadata.max.age.ms", "socket.connection.setup.timeout.ms", "connections.max.idle.ms",
   "llingr.retry.timeout.ms"}

\* A list of strategies, joined with commas and split again: no strategy at
\* all is one that has no name.
Joined(strategies) == IF strategies = <<>> THEN <<"">> ELSE strategies

\* The setters of Options that push one pair, but for the Durations.
OptionPairs ==
  (Int32Keys \X Counts)
    \cup ((NameKeys \cup {"client.id"}) \X Texts)
    \cup ({"auto.offset.reset"} \X {"earliest", "latest"})
    \cup ({LogLevelKey} \X {"none", "error", "warn", "info", "debug"})
    \cup ({"partition.assignment.strategy"} \X
            {Joined(s) : s \in {<<>>} \cup [1..1 -> Strategies] \cup [1..2 -> {"sticky", "range"}]})
    \cup {<<"allow.auto.create.topics", "true">>, <<"check.crcs", "false">>,
          <<"enable.metrics.push", "false">>}

\* External: llingr_nexus::duration_ms_ceil.
DurationMsCeil(d) == (d + Millisecond - 1) \div Millisecond

NewBuilder(topic) ==
  [topic |-> topic, brokers |-> <<>>, consumer_group |-> <<>>, kafka |-> <<>>,
   demux |-> <<>>, service |-> Null,
   bandwidth_stats_interval |-> Null, bandwidth_flush_interval |-> Null]

DocInit ==
  /\ demux = <<>> /\ asked = <<>> /\ made = 0
  /\ \/ Init /\ builder = Null
     \/ /\ \E topic \in Texts : builder = NewBuilder(topic)
        /\ document = Null
        /\ stage = "builder"
        /\ config = <<>> /\ adapter = <<>> /\ opts = <<>>
        /\ code = 0 /\ fetched = FALSE

Setting ==
  /\ stage = "builder"
  /\ made < MaxSettings
  /\ made' = made + 1
  /\ UNCHANGED vars

\* Builder::brokers and Builder::consumer_group.
SetRequired(field, text) ==
  /\ stage = "builder"
  /\ builder' = [builder EXCEPT ![field] = text]
  /\ UNCHANGED <<vars, demux, asked, made>>

\* A setter of Options, and Builder::options.
SetOption(pair) ==
  /\ Setting
  /\ builder' = [builder EXCEPT !.kafka = With(@, pair[1], pair[2])]
  /\ UNCHANGED <<demux, asked>>

\* Options::kafka_option: the last write wins, a typed setter's too.
KafkaOption(pair) ==
  /\ Setting
  /\ builder' = [builder EXCEPT !.kafka = With(@, pair[1], pair[2])]
  /\ asked' = Without(asked, {pair[1]})
  /\ UNCHANGED demux

SetDurationOption(key, d) ==
  /\ Setting
  /\ builder' = [builder EXCEPT !.kafka = With(@, key, DurationMsCeil(d))]
  /\ asked' = With(asked, key, d)
  /\ UNCHANGED demux

\* The setters of DemuxConfig.
SetDemuxCount(name, n) ==
  /\ Setting
  /\ demux' = With(demux, name, n)
  /\ UNCHANGED <<builder, asked>>

SetDemuxDuration(name, d) ==
  /\ Setting
  /\ demux' = With(demux, name, d)
  /\ UNCHANGED <<builder, asked>>

\* Builder::demux: a second DemuxConfig replaces the first, whole.
Demux ==
  /\ stage = "builder"
  /\ demux # <<>>
  /\ builder' = [builder EXCEPT !.demux = demux]
  /\ demux' = <<>>
  /\ UNCHANGED <<vars, asked, made>>

SetService(name, team) ==
  /\ Setting
  /\ builder' = [builder EXCEPT !.service = <<name, team>>]
  /\ UNCHANGED <<demux, asked>>

SetBandwidth(field, d) ==
  /\ Setting
  /\ builder' = [builder EXCEPT ![field] = d]
  /\ UNCHANGED <<demux, asked>>

-----------------------------------------------------------------------------
(* config_json *)

Quote     == 34
Backslash == 92
HexDigit(n) == IF n < 10 THEN 48 + n ELSE 87 + n

\* Mutant: only what stands between quotes is escaped.
EscapeCharQuotesOnly(c) == IF c \in {Quote, Backslash} THEN <<Backslash, c>> ELSE <<c>>

\* One round of the loop in json_escape_into: the characters it pushes.
EscapeChar(c) ==
  IF c \in {Quote, Backslash} THEN <<Backslash, c>>
  ELSE IF c = 10 THEN <<Backslash, 110>>
  ELSE IF c = 13 THEN <<Backslash, 114>>
  ELSE IF c = 9  THEN <<Backslash, 116>>
  ELSE IF c < 32 THEN <<Backslash, 117, 48, 48, HexDigit(c \div 16), HexDigit(c % 16)>>
  ELSE <<c>>

JsonEscape(text) == [i \in DOMAIN text |-> EscapeChar(text[i])]

Malformed == -1

\* The single-character escapes of JSON, and what they stand for.
JsonEscapes ==
  {<<34, 34>>, <<92, 92>>, <<47, 47>>, <<98, 8>>, <<102, 12>>, <<110, 10>>, <<114, 13>>, <<116, 9>>}

HexValue(d) ==
  IF d \in 48..57 THEN d - 48
  ELSE IF d \in 97..102 THEN d - 87 ELSE IF d \in 65..70 THEN d - 55 ELSE Malformed

\* External: the decoder, on the characters of one round.  How many it takes
\* for one character follows from the first two, so it takes those of one
\* round after the other.  A raw control character is refused, by CString::new
\* if it is a NUL; the code is the same.
DecodeUnit(unit) ==
  IF Len(unit) = 1
  THEN IF unit[1] < 32 \/ unit[1] \in {Quote, Backslash} THEN Malformed ELSE unit[1]
  ELSE IF unit[1] # Backslash THEN Malformed
  ELSE IF Len(unit) = 2
  THEN IF \E e \in JsonEscapes : e[1] = unit[2]
       THEN (CHOOSE e \in JsonEscapes : e[1] = unit[2])[2] ELSE Malformed
  ELSE IF Len(unit) # 6 \/ unit[2] # 117 \/ \E i \in 3..6 : HexValue(unit[i]) = Malformed
  THEN Malformed
  ELSE 4096 * HexValue(unit[3]) + 256 * HexValue(unit[4]) + 16 * HexValue(unit[5]) + HexValue(unit[6])

\* A text as the decoder reads it.
Decode(json) == [i \in DOMAIN json |-> DecodeUnit(json[i])]

Crosses(text) == Decode(JsonEscape(text))

\* External: time.ParseDuration refuses what int64 cannot hold.
ParsesAsDuration(ms) == ms * Millisecond < Int64

TextsOf(b) ==
  {b.topic, b.brokers, b.consumer_group}
    \cup (IF b.service = Null THEN {} ELSE {b.service[1], b.service[2]})
    \cup {b.kafka[k] : k \in TextKeys \cap DOMAIN b.kafka}

\* The bandwidth object has the fields that are set.
BandwidthField(b, field) ==
  IF b[field] = Null THEN Absent
  ELSE LET ms == DurationMsCeil(b[field])
       IN  IF ParsesAsDuration(ms) THEN ms * Millisecond ELSE NotANumber

\* demux_json, and what DemuxConfig's UnmarshalJSON makes of it: a Duration in
\* milliseconds, read back in units.  Its field names are those of the Go
\* struct.
DemuxJson(b) ==
  [name \in DOMAIN b.demux |->
     IF name \in DurationSettings THEN DurationMsCeil(b.demux[name]) ELSE b.demux[name]]

DemuxRead(object) ==
  [name \in DOMAIN object |->
     IF name \in DurationSettings THEN object[name] * Millisecond ELSE object[name]]

KafkaConfig(b) ==
  [k \in DOMAIN b.kafka |-> IF k \in TextKeys THEN Crosses(b.kafka[k]) ELSE b.kafka[k]]

\* The document as the bridge decodes it.
ConfigJson(b) ==
  LET object == DemuxJson(b) IN
  [wellFormed |-> /\ \A text \in TextsOf(b) : \A i \in DOMAIN text : Crosses(text)[i] # Malformed
                  /\ \A name \in DOMAIN object \cap DurationSettings : ParsesAsDuration(object[name]),
   demuxKnown |-> TRUE,
   topic      |-> Crosses(b.topic),
   brokers    |-> Crosses(b.brokers),
   consumer_group |-> Crosses(b.consumer_group),
   service    |-> IF b.service = Null THEN Null ELSE <<Crosses(b.service[1]), Crosses(b.service[2])>>,
   adapter    |-> "franz",
   demux      |-> DemuxRead(object),
   stats      |-> BandwidthField(b, "bandwidth_stats_interval"),
   flush      |-> BandwidthField(b, "bandwidth_flush_interval"),
   kafka      |-> KafkaConfig(b)]

\* Builder::build: the document goes to llingr_init.
BuildDocument ==
  /\ stage = "builder"
  /\ document' = ConfigJson(builder)
  /\ config' = KafkaConfig(builder)
  /\ stage' = "parse"
  /\ UNCHANGED <<adapter, opts, code, fetched, builder, demux, asked, made>>

\* A step of the bridge.
Bridge(A) == A /\ UNCHANGED <<builder, demux, asked, made>>

DocNext ==
  \/ \E field \in {"brokers", "consumer_group"}, text \in Texts : SetRequired(field, text)
  \/ \E pair \in OptionPairs : SetOption(pair)
  \/ \E pair \in HostPairs : KafkaOption(pair)
  \/ \E key \in DurationOptions, d \in Durations : SetDurationOption(key, d)
  \/ \E name \in CountSettings, n \in Counts : SetDemuxCount(name, n)
  \/ \E name \in DurationSettings, d \in Durations : SetDemuxDuration(name, d)
  \/ Demux
  \/ \E name, team \in Texts : SetService(name, team)
  \/ \E field \in {"bandwidth_stats_interval", "bandwidth_flush_interval"}, d \in Durations :
       SetBandwidth(field, d)
  \/ BuildDocument
  \/ Bridge(Next)

DocSpec == DocInit /\ [][DocNext]_docVars

-----------------------------------------------------------------------------
(* Properties *)

\* A value in effect for a Duration: the next whole millisecond.
Honours(value, d) == d <= value /\ value < d + Millisecond

\* A Duration whose whole milliseconds fit int64 (see ValueKeepsMeaning).
Fits(d) == d <= Int64 - Millisecond

\* The texts of the document are those of the builder.
TextsArrive ==
  /\ \A field \in {"topic", "brokers", "consumer_group", "service"} : document[field] = builder[field]
  /\ \A k \in TextKeys \cap DOMAIN builder.kafka : document.kafka[k] = builder.kafka[k]

\* Every Duration the host last gave is in effect.
DurationsHonoured ==
  /\ \A k \in DOMAIN asked : Fits(asked[k]) /\ ~LosesToAlias(builder.kafka, k) =>
       Honours(IF k \in PollErrorKeys THEN adapter[k] ELSE opts[k], asked[k])
  /\ \A name \in DOMAIN builder.demux \cap DurationSettings :
       Honours(document.demux[name], builder.demux[name])
  /\ builder.bandwidth_stats_interval # Null =>
       Honours(document.stats, builder.bandwidth_stats_interval)
  /\ builder.bandwidth_flush_interval # Null =>
       Honours(document.flush, builder.bandwidth_flush_interval)

(***************************************************************************)
(* A host is understood.  The bridge reads every text the host gave, the   *)
(* names and client options among them, as the host gave it, and refuses   *)
(* the document as malformed only for a Duration that Go cannot hold.  And *)
(* when an engine was built, every Duration the host last gave is handed   *)
(* to the engine, the adapter or the client, rounded up by less than a     *)
(* millisecond: none becomes zero or nothing, whichever others are set.    *)
(* The exception is a typed fetch wait: a string pair under librdkafka's   *)
(* spelling of it takes its place, whichever was given last                *)
(* (json_escape_into, config_json, demux_json, the Duration setters and    *)
(* kafka_option, which says the last write wins).                          *)
(***************************************************************************)
HostIsUnderstood ==
  builder # Null /\ stage # "builder" =>
    /\ TextsArrive
    /\ code = errInvalidJSON =>
         \E name \in DOMAIN builder.demux \cap DurationSettings : ~Fits(builder.demux[name])
    /\ stage = "built" => DurationsHonoured
=============================================================================
