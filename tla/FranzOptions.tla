---------------------------- MODULE FranzOptions ----------------------------
(***************************************************************************)
(* What llingr_init makes of the host's configuration document:            *)
(* parseBridgeConfig (bridge/config.go) and the steps of                   *)
(* buildFranzConsumer (bridge/adapter_franz.go), which take their keys out *)
(* of the kafka_config map one after the other, so that each step sees     *)
(* what the earlier ones left.                                             *)
(*                                                                         *)
(* A document is a record; its kafka field maps option keys to values, its *)
(* demux field the engine's settings.  Free texts are sequences of code    *)
(* points; a number is the integer its text spells, and NotANumber if it   *)
(* spells none.  Durations are numbers in the unit of time.Duration, of    *)
(* which a millisecond has Millisecond, and wrap at Int64.                 *)
(***************************************************************************)
EXTENDS FranzSecurity, Sequences

CONSTANTS
  Documents,    \* the documents a host may send
  Millisecond,  \* time.Millisecond
  Int64,        \* 2^63: durations are -Int64 .. Int64 - 1
  Int32,        \* 2^31
  MinBail, MaxBail, MaxBackoff,      \* the poll-error bounds
  MinStats, MaxStats,                \* external: nexus.ValidateBandwidthInterval
  DefaultDrain, DefaultRebalance,    \* engineDefaultDrainTimeout, kgoDefaultRebalanceTimeout
  MaxDrain                           \* external: the engine's cap on its drain timeout

ASSUME DurationsAssumption ==
  /\ {Millisecond, Int64, Int32, MinBail, MaxBail, MaxBackoff, MinStats, MaxStats,
      DefaultDrain, DefaultRebalance, MaxDrain} \subseteq Nat \ {0}
  /\ DefaultDrain < DefaultRebalance
  /\ DefaultDrain <= MaxDrain

ASSUME DocumentsAssumption == \A d \in Documents : \A name \in DOMAIN d.demux : d.demux[name] \in Int

VARIABLES
  document,  \* what llingr_init was given
  stage,     \* the step that is next
  config,    \* cfg.KafkaConfig, keys consumed so far removed
  adapter,   \* the adapter options so far: key -> value in effect
  opts,      \* the kgo options in effect: key that set it -> value
  code,      \* llingr_init's return code so far
  fetched    \* whether a credential was fetched

vars == <<document, stage, config, adapter, opts, code, fetched>>

errInvalidJSON   == -2
errMissingConfig == -3

NotANumber == -1
Absent     == -2    \* an interval that was not given

Init ==
  /\ document \in Documents
  /\ stage = "parse"
  /\ config = document.kafka
  /\ adapter = <<>>
  /\ opts = <<>>
  /\ code = 0
  /\ fetched = FALSE

Refuse(why) ==
  /\ stage' = "refused"
  /\ code' = why
  /\ UNCHANGED <<document, config, adapter, opts, fetched>>

Proceed(to) == stage' = to /\ UNCHANGED <<document, code>>

-----------------------------------------------------------------------------
(* Numbers and keys *)

\* A product of two int64 values.
Wrap(n) == ((n + Int64) % (2 * Int64)) - Int64

Duration(ms) == Wrap(ms * Millisecond)

Without(f, keys) == [k \in DOMAIN f \ keys |-> f[k]]
With(f, key, v)  == [k \in DOMAIN f \cup {key} |-> IF k = key THEN v ELSE f[k]]

LogLevelKey    == "llingr.client.log.level"
BailKey        == "llingr.poll.error.bail.after.ms"
LogIntervalKey == "llingr.poll.error.log.interval.ms"
BackoffKey     == "llingr.poll.error.backoff.ms"
PollErrorKeys  == {BailKey, LogIntervalKey, BackoffKey}

RebalanceKey == "rebalance.timeout.ms"
ReservedKeys == {"bootstrap.servers", "group.id"}
FetchWaitKey == "fetch.max.wait.ms"
FetchWaitAlias == "fetch.wait.max.ms"    \* librdkafka's spelling
MillisKeys   == {"session.timeout.ms", "heartbeat.interval.ms", RebalanceKey, FetchWaitKey,
                 FetchWaitAlias, "metadata.max.age.ms", "socket.connection.setup.timeout.ms",
                 "connections.max.idle.ms", "llingr.retry.timeout.ms"}
Int32Keys    == {"fetch.min.bytes", "fetch.max.bytes", "max.partition.fetch.bytes",
                 "llingr.request.retries", "llingr.max.concurrent.fetches"}
BoolKeys     == {"allow.auto.create.topics", "check.crcs", "enable.metrics.push"}
NameKeys     == {"group.instance.id", "client.rack"}
TableKeys    == MillisKeys \cup Int32Keys \cup BoolKeys \cup NameKeys
                  \cup {"client.id", "auto.offset.reset", "isolation.level",
                        "partition.assignment.strategy"}

\* millisOption: strconv.Atoi refuses what int64 cannot hold.
PositiveMillis(v) == v > 0 /\ v < Int64

Strategies == {"cooperative-sticky", "sticky", "roundrobin", "range"}

\* External: unicode.IsSpace.
Spaces == (9..13) \cup (8192..8202) \cup {32, 133, 160, 5760, 8232, 8233, 8239, 8287, 12288}

\* What each translator of franzOptionKeys admits.
Admits(key, v) ==
  CASE key \in MillisKeys        -> PositiveMillis(v)
    [] key \in Int32Keys         -> v > 0 /\ v < Int32
    [] key \in BoolKeys          -> Folded(v) \in {"true", "false"}
    [] key \in NameKeys          -> \E i \in DOMAIN v : v[i] \notin Spaces
    [] key = "auto.offset.reset" -> v \in {"earliest", "latest"}
    [] key = "isolation.level"   -> Folded(v) = "read_committed"
    [] key = "partition.assignment.strategy" ->
         \A i \in DOMAIN v : Folded(v[i]) \in Strategies
    [] OTHER                     -> TRUE

\* A value that restates the client's default sets no option.
Default(key) == IF key = "allow.auto.create.topics" THEN "false" ELSE "true"

RestatesDefault(map, key) == key \in BoolKeys /\ Folded(map[key]) = Default(key)

\* Both spellings set kgo.FetchMaxWait, and options apply in the order of their
\* keys: the alias comes later.
LosesToAlias(map, key) == key = FetchWaitKey /\ FetchWaitAlias \in DOMAIN map

InEffect(map) ==
  {k \in DOMAIN map \cap TableKeys : ~RestatesDefault(map, k) /\ ~LosesToAlias(map, k)}

Translated(key, v) == IF key \in MillisKeys THEN Duration(v) ELSE v

-----------------------------------------------------------------------------
(* The steps *)

\* An unknown key of the demux object is looked for before the required fields.
ParseCode(d) ==
  CASE ~d.wellFormed                      -> errInvalidJSON
    [] d.wellFormed /\ ~d.demuxKnown      -> errBadOption
    [] d.wellFormed /\ d.demuxKnown /\ <<>> \in {d.topic, d.brokers, d.consumer_group}
                                          -> errMissingConfig
    [] OTHER                              -> IF d.adapter \in {"", "franz"} THEN 0 ELSE errBadOption

ParseBridgeConfig ==
  /\ stage = "parse"
  /\ \/ /\ ParseCode(document) # 0
        /\ Refuse(ParseCode(document))
     \/ /\ ParseCode(document) = 0
        /\ Proceed("drain")
        /\ UNCHANGED <<config, adapter, opts, fetched>>

DrainSetting == IF "drainTimeout" \in DOMAIN document.demux THEN document.demux["drainTimeout"] ELSE 0

Drain == IF DrainSetting <= 0 THEN DefaultDrain ELSE DrainSetting

\* Mutant: a rebalance timeout equal to the drain timeout is let through.
RebalanceFitsOrEqual ==
  LET configured == RebalanceKey \in DOMAIN config
  IN  /\ configured /\ PositiveMillis(config[RebalanceKey]) => Duration(config[RebalanceKey]) >= Drain
      /\ ~configured => DefaultRebalance >= Drain

\* A value that does not parse is left for the option table to report.
RebalanceFits ==
  LET configured == RebalanceKey \in DOMAIN config
  IN  /\ configured /\ PositiveMillis(config[RebalanceKey]) => Duration(config[RebalanceKey]) > Drain
      /\ ~configured => DefaultRebalance > Drain

CheckRebalanceAboveDrain ==
  /\ stage = "drain"
  /\ \/ ~RebalanceFits /\ Refuse(errBadOption)
     \/ /\ RebalanceFits
        /\ Proceed("bandwidth")
        /\ UNCHANGED <<config, adapter, opts, fetched>>

\* A zero interval is refused, unlike one that was not given.
BandwidthOk ==
  /\ document.stats = Absent \/ (MinStats <= document.stats /\ document.stats <= MaxStats)
  /\ document.flush = Absent \/ document.flush > 0

ParseBandwidth ==
  /\ stage = "bandwidth"
  /\ \/ ~BandwidthOk /\ Refuse(errBadOption)
     \/ /\ BandwidthOk
        /\ Proceed("loglevel")
        /\ UNCHANGED <<config, adapter, opts, fetched>>

PopClientLogLevel ==
  /\ stage = "loglevel"
  /\ \/ /\ LogLevelKey \in DOMAIN config
        /\ config[LogLevelKey] \notin {"none", "error", "warn", "info", "debug"}
        /\ Refuse(errBadOption)
     \/ /\ LogLevelKey \in DOMAIN config
        /\ config[LogLevelKey] \in {"none", "error", "warn", "info", "debug"}
        /\ config' = Without(config, {LogLevelKey})
        /\ adapter' = With(adapter, LogLevelKey, config[LogLevelKey])
        /\ Proceed("pollerrors")
        /\ UNCHANGED <<opts, fetched>>
     \/ /\ LogLevelKey \notin DOMAIN config
        /\ Proceed("pollerrors")
        /\ UNCHANGED <<config, adapter, opts, fetched>>

\* 0 disables the bail and the backoff.  The bounds are compared with the
\* duration, after the product.
PollErrorAdmits(key, ms) ==
  CASE key = BailKey        -> /\ ms = 0 \/ PositiveMillis(ms)
                               /\ Duration(ms) = 0 \/ (MinBail <= Duration(ms) /\ Duration(ms) <= MaxBail)
    [] key = LogIntervalKey -> PositiveMillis(ms)
    [] key = BackoffKey     -> (ms = 0 \/ PositiveMillis(ms)) /\ Duration(ms) <= MaxBackoff

PopPollErrorOptions ==
  LET given == PollErrorKeys \cap DOMAIN config
  IN  /\ stage = "pollerrors"
      /\ \/ /\ \E k \in given : ~PollErrorAdmits(k, config[k])
            /\ Refuse(errBadOption)
         \/ /\ \A k \in given : PollErrorAdmits(k, config[k])
            /\ config' = Without(config, given)
            /\ adapter' = [k \in DOMAIN adapter \cup given |->
                             IF k \in given THEN Duration(config[k]) ELSE adapter[k]]
            /\ Proceed("options")
            /\ UNCHANGED <<opts, fetched>>

\* Mutant: a key that no table knows is passed over.
RejectedIfKnown(key) ==
  \/ key \in ReservedKeys
  \/ key \in TableKeys /\ ~Admits(key, config[key])

Rejected(key) ==
  \/ key \in ReservedKeys
  \/ key \notin SecurityKeys \cup TableKeys
  \/ key \in TableKeys /\ ~Admits(key, config[key])

\* Mutant: the security options are built before the table is consulted.
FranzKgoOptsSecurityFirst(env) ==
  LET security == Build(config, env)
  IN  /\ stage = "options"
      /\ fetched' = security.fetched
      /\ \/ /\ security.code # 0 \/ \E k \in DOMAIN config : Rejected(k)
            /\ stage' = "refused"
            /\ code' = IF security.code # 0 THEN security.code ELSE errBadOption
            /\ UNCHANGED <<document, config, adapter, opts>>
         \/ /\ security.code = 0 /\ \A k \in DOMAIN config : ~Rejected(k)
            /\ opts' = [k \in InEffect(config) |-> Translated(k, config[k])]
            /\ Proceed("create")
            /\ UNCHANGED <<config, adapter>>

\* Reserved and unknown keys and the table's refusals come first; the security
\* keys, collected meanwhile, are assembled last (FranzSecurity).
FranzKgoOpts(env) ==
  LET security == Build(config, env)
  IN  /\ stage = "options"
      /\ \/ /\ \E k \in DOMAIN config : Rejected(k)
            /\ Refuse(errBadOption)
         \/ /\ \A k \in DOMAIN config : ~Rejected(k)
            /\ security.code # 0
            /\ stage' = "refused"
            /\ code' = security.code
            /\ fetched' = security.fetched
            /\ UNCHANGED <<document, config, adapter, opts>>
         \/ /\ \A k \in DOMAIN config : ~Rejected(k)
            /\ security.code = 0
            /\ fetched' = security.fetched
            /\ opts' = [k \in InEffect(config) |-> Translated(k, config[k])]
            /\ Proceed("create")
            /\ UNCHANGED <<config, adapter>>

\* External: the engine's verdict on its own settings.  Only the range of the
\* drain timeout is known here.
EngineRefuses(valid) ==
  \/ DrainSetting < 0 \/ DrainSetting > MaxDrain
  \/ ~valid /\ DOMAIN document.demux \ {"drainTimeout"} # {}

\* CreateConsumer.  External: the adapter dials first; then the engine checks
\* its settings and panics on a bad one, which llingr_init recovers.
CreateConsumer(dials, valid) ==
  /\ stage = "create"
  /\ \/ ~dials /\ Refuse(errAdapter)
     \/ dials /\ EngineRefuses(valid) /\ Refuse(errBadOption)
     \/ /\ dials /\ ~EngineRefuses(valid)
        /\ Proceed("built")
        /\ UNCHANGED <<config, adapter, opts, fetched>>

Next ==
  \/ ParseBridgeConfig
  \/ CheckRebalanceAboveDrain
  \/ ParseBandwidth
  \/ PopClientLogLevel
  \/ PopPollErrorOptions
  \/ \E env \in Environments : FranzKgoOpts(env)
  \/ \E dials, valid \in BOOLEAN : CreateConsumer(dials, valid)

Spec == Init /\ [][Next]_vars

-----------------------------------------------------------------------------
(* Properties *)

\* What the engine and the client run with.
DrainInEffect     == IF DrainSetting = 0 THEN DefaultDrain ELSE DrainSetting
RebalanceInEffect == IF RebalanceKey \in DOMAIN opts THEN opts[RebalanceKey] ELSE DefaultRebalance

(***************************************************************************)
(* A consumer that was built drains in less time than the group gives it:  *)
(* the rebalance timeout the client runs with exceeds the drain timeout    *)
(* the engine runs with, whichever of them are defaults                    *)
(* (checkRebalanceAboveDrain, against the table that sets the option).     *)
(***************************************************************************)
DrainFitsRebalance == stage = "built" => RebalanceInEffect > DrainInEffect

\* The security keys the client is built from, and those that are blank as
\* they are stored.
SecurityInUse(map) ==
  LET s == Collect(map) IN
  {k \in DOMAIN map \cap SecurityKeys :
     \/ k = "security.protocol"
     \/ k \in SslKeys /\ UsesTls(s)
     \/ k \in {"sasl.mechanism", "sasl.mechanisms"} /\ UsesSasl(s)
     \/ k \in UsedBy(Source(s))}
BlankSecurity(map) == {k \in DOMAIN map \cap SecurityKeys : Stored(k, map[k]) = ""}

\* The keys another key of the same map overrides: the older spelling of two,
\* and the endpoint's algorithm where no certificate is verified.
Overridden(map) ==
  {k \in DOMAIN map :
     \/ LosesToAlias(map, k)
     \/ k = "sasl.mechanism" /\ "sasl.mechanisms" \in DOMAIN map
     \/ k = "ssl.endpoint.identification.algorithm"
          /\ Verification(Collect(map)) = "unverified"}

(***************************************************************************)
(* No key of a document is silently without effect.  In a consumer that    *)
(* was built each is an option of the adapter, an option in effect of the  *)
(* client or a security key the client is built from, unless it is blank,  *)
(* restates a default, or another key overrides it; and those another key  *)
(* may override are three: fetch.max.wait.ms and sasl.mechanism, by their  *)
(* aliases, and the endpoint's algorithm, by switching verification off    *)
(* (the pop functions, franzKgoOpts and franzSecurity.build).              *)
(***************************************************************************)
NothingIgnored ==
  stage = "built" =>
    LET map == document.kafka
    IN  \A k \in DOMAIN map \ (Overridden(map) \cup BlankSecurity(map)) :
          k \in DOMAIN adapter \cup DOMAIN opts \cup SecurityInUse(map) \/ RestatesDefault(map, k)

(***************************************************************************)
(* What the bridge can refuse of a document it refuses before it fetches a *)
(* credential.  A bad option that is reported after the fetch is one of    *)
(* the engine's own settings: the engine checks them when the consumer is  *)
(* created, past the fetch and the dial, and its panic is recovered to the *)
(* same code (franzKgoOpts builds the security options last; the deferred  *)
(* recover of llingr_init).                                                *)
(***************************************************************************)
BridgeRefusesUnfetched ==
  code = errBadOption /\ fetched => \E valid \in BOOLEAN : EngineRefuses(valid)

(***************************************************************************)
(* "A configured value never silently changes meaning": the poll-error     *)
(* durations the adapter is given are the milliseconds that were           *)
(* configured (popPollErrorOptions).                                       *)
(***************************************************************************)
ValueKeepsMeaning ==
  stage = "built" =>
    \A k \in PollErrorKeys \cap DOMAIN adapter :
      adapter[k] = document.kafka[k] * Millisecond
=============================================================================
