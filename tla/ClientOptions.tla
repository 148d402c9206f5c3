--------------------------- MODULE ClientOptions ---------------------------
(***************************************************************************)
(* The typed options builder (src/options.rs) and what becomes of its      *)
(* security keys.  A host calls setters in any order, typed ones and       *)
(* string pairs, and hands the Options to Builder::options, possibly       *)
(* several times; BrokerConfig (src/config.rs) keeps the pairs in order,   *)
(* resolves repeated keys and sends one JSON object, which the bridge      *)
(* assembles (FranzSecurity).                                              *)
(***************************************************************************)
EXTENDS FranzSecurity, Sequences, SequencesExt

CONSTANTS
  Pairs,      \* the pairs kafka_option may be given
  Files,      \* the sequences of pairs kafka_options may be given
  MaxCalls,   \* bound: setters called
  MaxLayers,  \* bound: Options handed to Builder::options
  None

ASSUME BoundsAssumption == MaxCalls \in Nat /\ MaxLayers \in Nat

\* Keys and values are Strings.
StringPairs == STRING \X STRING

ASSUME PairsAssumption ==
  /\ \A p \in Pairs : p \in StringPairs
  /\ \A f \in Files : f \in Seq(StringPairs)

VARIABLES
  entries,      \* Options.entries
  tls,          \* Options.tls
  sslEntries,   \* Options.ssl_entries
  sasl,         \* Options.sasl: [kind, keys, options], keys what its variant
                \* always emits, options which of its Options are Some
  kafkaConfig,  \* BrokerConfig.kafka_config
  deferred,     \* whether BrokerConfig.deferred_error is set
  outcome,      \* what build() came to, or None
  calls,        \* how many setters were called
  layers        \* history: for each Options handed over, [tls, typed]

optionVars == <<entries, tls, sslEntries, sasl>>
brokerVars == <<kafkaConfig, deferred, outcome, layers>>
clientVars == <<optionVars, brokerVars, calls>>

NoSasl == [kind |-> "none", keys |-> <<>>, options |-> {}]

ClientInit ==
  /\ entries = <<>>
  /\ tls = FALSE
  /\ sslEntries = <<>>
  /\ sasl = NoSasl
  /\ kafkaConfig = <<>>
  /\ deferred = FALSE
  /\ outcome = None
  /\ calls = 0
  /\ layers = <<>>

-----------------------------------------------------------------------------
(* Setters *)

Call ==
  /\ outcome = None
  /\ calls < MaxCalls
  /\ Len(layers) < MaxLayers
  /\ calls' = calls + 1
  /\ UNCHANGED brokerVars

KafkaOptions(pairs) ==
  /\ Call
  /\ entries' = entries \o pairs
  /\ UNCHANGED <<tls, sslEntries, sasl>>

Tls ==
  /\ Call
  /\ tls' = TRUE
  /\ UNCHANGED <<entries, sslEntries, sasl>>

\* The tls_* and disable_* setters, each the pairs it pushes.
TypedSsl ==
  {<< <<"ssl.ca.location", "set">> >>,
   << <<"ssl.ca.pem", "set">> >>,
   << <<"ssl.certificate.location", "set">>, <<"ssl.key.location", "set">> >>,
   << <<"ssl.certificate.pem", "set">>, <<"ssl.key.pem", "set">> >>,
   << <<"enable.ssl.certificate.verification", "false">> >>,
   << <<"ssl.endpoint.identification.algorithm", "none">> >>}

PushSsl(pairs) ==
  /\ Call
  /\ tls' = TRUE
  /\ sslEntries' = sslEntries \o pairs
  /\ UNCHANGED <<entries, sasl>>

\* The sasl_* setters: the keys each emits, and whether it forces TLS.
SaslSetters ==
  {[kind |-> "UserPass", forcesTls |-> FALSE,
    keys |-> << <<"sasl.mechanism", m>>, <<"sasl.username", "set">>, <<"sasl.password", "set">> >>]
   : m \in Passwords}
  \cup
  {[kind |-> "AwsMskIam", forcesTls |-> TRUE, keys |-> << <<"sasl.mechanism", "AWS_MSK_IAM">> >>],
   [kind |-> "OauthbearerOidc", forcesTls |-> FALSE,
    keys |-> << <<"sasl.mechanism", "OAUTHBEARER">>,
                <<"sasl.oauthbearer.token.endpoint.url", "set">>,
                <<"sasl.oauthbearer.client.id", "set">>,
                <<"sasl.oauthbearer.client.secret", "set">> >>],
   [kind |-> "GcpIam", forcesTls |-> TRUE,
    keys |-> << <<"sasl.mechanism", "OAUTHBEARER">>, <<"sasl.oauthbearer.method", "gcp">> >>]}

\* Mutant: a second sasl_* setter adds to the first.
SetSaslKeepsKeys(choice) ==
  /\ Call
  /\ sasl' = [kind |-> choice.kind, keys |-> sasl.keys \o choice.keys, options |-> {}]
  /\ tls' = (tls \/ choice.forcesTls)
  /\ UNCHANGED <<entries, sslEntries>>

\* A second sasl_* setter replaces the first, whole; TLS once on stays on.
SetSasl(choice) ==
  /\ Call
  /\ sasl' = [kind |-> choice.kind, keys |-> choice.keys, options |-> {}]
  /\ tls' = (tls \/ choice.forcesTls)
  /\ UNCHANGED <<entries, sslEntries>>

\* The setters that refine the mechanism just chosen; on any other mechanism
\* they do nothing.  aws_assume_role without a session name, and
\* oauthbearer_extensions without a pair, clear what was set before.
Refinements ==
  {[kind |-> "AwsMskIam", sets |-> {"aws.region"}, clears |-> {}],
   [kind |-> "AwsMskIam", sets |-> {"aws.profile"}, clears |-> {}],
   [kind |-> "AwsMskIam", sets |-> {"aws.role.arn"}, clears |-> {"aws.role.session.name"}],
   [kind |-> "AwsMskIam", sets |-> {"aws.role.arn", "aws.role.session.name"}, clears |-> {}],
   [kind |-> "OauthbearerOidc", sets |-> {"sasl.oauthbearer.scope"}, clears |-> {}],
   [kind |-> "OauthbearerOidc", sets |-> {"sasl.oauthbearer.extensions"}, clears |-> {}],
   [kind |-> "OauthbearerOidc", sets |-> {}, clears |-> {"sasl.oauthbearer.extensions"}],
   [kind |-> "GcpIam", sets |-> {"gcp.principal"}, clears |-> {}],
   [kind |-> "GcpIam", sets |-> {"gcp.credentials.file"}, clears |-> {}]}

Refine(what) ==
  /\ Call
  /\ sasl' = IF sasl.kind = what.kind
             THEN [sasl EXCEPT !.options = (@ \ what.clears) \cup what.sets]
             ELSE sasl
  /\ UNCHANGED <<entries, tls, sslEntries>>

-----------------------------------------------------------------------------
(* Builder::options and Builder::build *)

Keys(pairs) == {p[1] : p \in ToSet(pairs)}

TypedSecurityKeys ==
  IF ~tls /\ sasl = NoSasl THEN {}
  ELSE {"security.protocol"} \cup Keys(sslEntries)
         \cup (IF sasl = NoSasl THEN {} ELSE {"sasl.mechanism", "sasl.mechanisms"})
         \cup (CASE sasl.kind = "UserPass"        -> UserKeys
                 [] sasl.kind = "AwsMskIam"       -> AwsKeys
                 [] sasl.kind = "OauthbearerOidc" -> OidcKeys
                 [] sasl.kind = "GcpIam"          -> GcpKeys \cup {"sasl.oauthbearer.method"}
                 [] OTHER                         -> {})

\* Options::validate.
Conflicts == Keys(entries) \cap TypedSecurityKeys

Protocol ==
  CASE tls /\ sasl # NoSasl  -> "sasl_ssl"
    [] tls /\ sasl = NoSasl  -> "ssl"
    [] OTHER                 -> "sasl_plaintext"

\* The mechanism's own keys, then the Options that are Some.
IfSome(key) == IF key \in sasl.options THEN << <<key, "set">> >> ELSE <<>>

SaslEntries ==
  sasl.keys
  \o IfSome("aws.region") \o IfSome("aws.profile")
  \o IfSome("aws.role.arn") \o IfSome("aws.role.session.name")
  \o IfSome("sasl.oauthbearer.scope") \o IfSome("sasl.oauthbearer.extensions")
  \o IfSome("gcp.principal") \o IfSome("gcp.credentials.file")

\* Options::entries: the typed security keys follow everything else.
Emitted ==
  IF ~tls /\ sasl = NoSasl THEN entries
  ELSE entries \o << <<"security.protocol", Protocol>> >> \o sslEntries \o SaslEntries

\* Builder::options: BrokerConfig::adapter_options takes the Options over.
AdapterOptions ==
  /\ outcome = None
  /\ Len(layers) < MaxLayers
  /\ deferred' = (deferred \/ Conflicts # {})
  /\ kafkaConfig' = kafkaConfig \o Emitted
  /\ layers' = Append(layers, [tls |-> tls, typed |-> Keys(entries) \cap SecurityKeys = {}])
  /\ entries' = <<>>
  /\ tls' = FALSE
  /\ sslEntries' = <<>>
  /\ sasl' = NoSasl
  /\ UNCHANGED <<outcome, calls>>

\* Mutant: a repeated key keeps its first value.
PutFirst(map, pair) ==
  [k \in DOMAIN map \cup {pair[1]} |-> IF k \in DOMAIN map THEN map[k] ELSE pair[2]]

\* One round of the loop in deduped_kafka_config: a key that is there takes the
\* new value, one that is not is added.
Put(map, pair) ==
  [k \in DOMAIN map \cup {pair[1]} |-> IF k = pair[1] THEN pair[2] ELSE map[k]]

\* BrokerConfig::deduped_kafka_config.
Deduped(pairs) ==
  LET rounds[n \in 0..Len(pairs)] == IF n = 0 THEN <<>> ELSE Put(rounds[n - 1], pairs[n])
  IN  rounds[Len(pairs)]

\* Builder::build: a deferred error is reported first; otherwise the bridge
\* assembles what the JSON carries.
BuildEngine(env) ==
  /\ outcome = None
  /\ layers # <<>>
  /\ outcome' = IF deferred THEN Refused(errBadOption, FALSE)
                            ELSE Build(Deduped(kafkaConfig), env)
  /\ UNCHANGED <<optionVars, kafkaConfig, deferred, layers, calls>>

ClientNext ==
  \/ \E p \in Pairs : KafkaOptions(<<p>>)
  \/ \E f \in Files : KafkaOptions(f)
  \/ Tls
  \/ \E pairs \in TypedSsl : PushSsl(pairs)
  \/ \E choice \in SaslSetters : SetSasl(choice)
  \/ \E what \in Refinements : Refine(what)
  \/ AdapterOptions
  \/ \E env \in Environments : BuildEngine(env)

ClientSpec == ClientInit /\ [][ClientNext]_clientVars

-----------------------------------------------------------------------------
(* Properties *)

Built     == outcome # None /\ outcome.code = 0
Effective == Deduped(kafkaConfig)

(***************************************************************************)
(* What the bridge is sent holds each key once, with the value written     *)
(* last, typed setters and string pairs of every layer taken in order      *)
(* (deduped_kafka_config, against its definition).                         *)
(***************************************************************************)
LastWriteWins ==
  /\ DOMAIN Effective = Keys(kafkaConfig)
  /\ \A i \in 1..Len(kafkaConfig) :
       \/ Effective[kafkaConfig[i][1]] = kafkaConfig[i][2]
       \/ \E j \in (i + 1)..Len(kafkaConfig) : kafkaConfig[j][1] = kafkaConfig[i][1]

(***************************************************************************)
(* No credential is silently unused: in a client that was built, every     *)
(* username, role, token or principal that was configured, in whatever     *)
(* layer and style, and is not blank as it is stored, belongs to the       *)
(* mechanism that authenticates (saslMechanism and the cross-checks of     *)
(* each mechanism).                                                        *)
(***************************************************************************)
CredentialsAllUsed ==
  Built => \A k \in CredentialKeys \cap DOMAIN Effective :
             Stored(k, Effective[k]) # "" => k \in UsedBy(outcome.sasl)

\* A host wrote that value for the key, in whatever spelling.
AskedFor(key, v) == \E pair \in ToSet(kafkaConfig) : pair[1] = key /\ Stored(key, pair[2]) = v

(***************************************************************************)
(* Asking for TLS gets TLS: if the last Options handed over enabled it, a  *)
(* client that was built encrypts, however the setters, pairs and earlier  *)
(* layers were combined; an IAM mechanism never runs in the clear; and     *)
(* certificates go unverified, or hostnames unchecked, only for a host     *)
(* that asked for exactly that: the early return of tlsConfig and the keys *)
(* it leaves unread turn no other setting into less verification           *)
(* (Options::validate, awsIAMMechanism, gcpIAMMechanism, tlsConfig).       *)
(***************************************************************************)
TlsNotDowngraded ==
  Built => /\ Last(layers).tls => outcome.tls # "off"
           /\ outcome.sasl \in {"aws", "gcp"} => outcome.tls # "off"
           /\ outcome.tls = "unverified" =>
                AskedFor("enable.ssl.certificate.verification", "false")
           /\ outcome.tls = "chain" =>
                AskedFor("ssl.endpoint.identification.algorithm", "none")

(***************************************************************************)
(* Typed setters alone, in any order, make a configuration the bridge      *)
(* takes, unless they give two sources for one certificate: what is left   *)
(* to fail is the environment (Options::entries against                    *)
(* franzSecurity.build).                                                   *)
(***************************************************************************)
TypedSettersAccepted ==
  LET typedOnly  == Len(layers) = 1 /\ layers[1].typed
      oneSource  == /\ ~(CaKeys \subseteq DOMAIN Effective)
                    /\ LocationPair \cap DOMAIN Effective = {} \/ PemPair \cap DOMAIN Effective = {}
      fetchFails == \/ outcome.code = errAdapter
                    \/ Source(Collect(Effective)) = "gcp" /\ "gcp.principal" \notin DOMAIN Effective
  IN  outcome # None /\ typedOnly /\ oneSource => outcome.code = 0 \/ fetchFails
=============================================================================
