------------------------ MODULE ConfigurationProofs ------------------------
(***************************************************************************)
(* What is proved of the configuration, on either side of the C ABI.       *)
(*                                                                         *)
(* The bridge (FranzOptions, Document), for every document, every width of *)
(* integer and every bound: a consumer that was built drains within its    *)
(* rebalance timeout, ignores no key, no credential is fetched for a       *)
(* document the bridge itself refuses, and a document that a host's        *)
(* setters assemble is read as it was meant or refused.  None of the first *)
(* three is inductive.  The drain check reads the map before two steps remove    *)
(* keys from it and a third translates the rest, so the invariant carries  *)
(* the check forward and says what the removed and the translated keys     *)
(* have become.                                                            *)
(*                                                                         *)
(* The host's builder (ClientOptions), for every set of pairs and files a  *)
(* host may give, and every number of setters and layers: the last write   *)
(* wins, no credential goes unused, TLS is not downgraded, and typed       *)
(* setters alone make a configuration the bridge takes.  What              *)
(* deduped_kafka_config computes for a list of any length is proved by     *)
(* induction over its loop.  What the configuration holds after any        *)
(* sequence of setters is the invariant ClientInv: where the last          *)
(* security.protocol is, and, when the security keys of a single layer are *)
(* all typed, exactly which pairs they are.  What the bridge makes of any  *)
(* configuration is read off franzSecurity.build.                          *)
(***************************************************************************)
EXTENDS Document, ClientOptions, WellFoundedInduction, TLAPS

Checked == {"bandwidth", "loglevel", "pollerrors", "options", "create", "built"}

\* The drain check still holds of what is left of the map.
DrainChecked ==
  /\ DrainSetting \in Int
  /\ stage \in Checked => RebalanceFits
  /\ stage = "built" => 0 <= DrainSetting

\* What is left was translated key by key, none of it rejected.
OptionsTranslated ==
  stage \in {"create", "built"} =>
    /\ \A k \in DOMAIN config : ~Rejected(k)
    /\ DOMAIN config \cap SecurityKeys # {} => ~Rejects(Collect(config))
    /\ opts = [k \in InEffect(config) |-> Translated(k, config[k])]

\* A key is left in the map, with its value, or has become an adapter option.
KeysAccounted ==
  stage # "refused" =>
    /\ DOMAIN document.kafka = DOMAIN config \cup DOMAIN adapter
    /\ DOMAIN adapter \subseteq PollErrorKeys \cup {LogLevelKey}
    /\ \A k \in DOMAIN config : config[k] = document.kafka[k]

\* Nothing is fetched, and nothing refused, before the option table.
FetchedLast ==
  /\ stage \notin {"create", "built", "refused"} => ~fetched
  /\ stage # "refused" => code = 0
  /\ BridgeRefusesUnfetched

IInv == DrainChecked /\ OptionsTranslated /\ KeysAccounted /\ FetchedLast

-----------------------------------------------------------------------------
(* What a security refusal means: franzSecurity.build fetches only after   *)
(* everything it can refuse has been looked at.                            *)
LEMMA BuildRefusesUnfetched ==
  ASSUME NEW c, NEW env
  PROVE  Build(c, env).code = errBadOption => ~Build(c, env).fetched
<1>1. ASSUME NEW s PROVE Fetch(s, env).code = errBadOption => ~Fetch(s, env).fetched
  <2>1. Client(s).code = 0 /\ Refused(errAdapter, TRUE).code = errAdapter
    BY DEF Client, Refused
  <2>2. ~Refused(errAdapter, FALSE).fetched /\ ~Refused(errBadOption, FALSE).fetched
    BY Zenon DEF Refused
  <2>3. Fetch(s, env) \in {Client(s), Refused(errAdapter, TRUE), Refused(errAdapter, FALSE),
                           Refused(errBadOption, FALSE)}
    BY DEF Fetch
  <2>4. errBadOption # 0 /\ errBadOption # errAdapter
    BY DEF errAdapter, errBadOption
  <2> QED  BY <2>1, <2>2, <2>3, <2>4, Zenon
<1>2. Client(Collect(c)).code # errBadOption
  BY DEF Client, errBadOption
<1> QED  BY <1>1, <1>2 DEF Build, Refused

\* What a client that was built says of the options it was built from.
LEMMA BuiltFrom ==
  ASSUME NEW conf, NEW env, Build(conf, env).code = 0
  PROVE  /\ Build(conf, env) = Client(Collect(conf))
         /\ DOMAIN conf \cap SecurityKeys # {} => ~Rejects(Collect(conf))
<1> DEFINE s == Collect(conf)
<1>1. /\ Refused(errBadOption, FALSE).code # 0
      /\ Refused(errAdapter, FALSE).code # 0
      /\ Refused(errAdapter, TRUE).code # 0
  BY DEF Refused, errAdapter, errBadOption
<1>2. Fetch(s, env).code = 0 => Fetch(s, env) = Client(s)
  <2> HIDE DEF s
  <2> QED  BY <1>1 DEF Fetch
<1> HIDE DEF s
<1>3. Build(conf, env) =
        IF DOMAIN conf \cap SecurityKeys = {} THEN Client(s)
        ELSE IF Rejects(s) THEN Refused(errBadOption, FALSE) ELSE Fetch(s, env)
  BY DEF Build, s
<1> QED  BY <1>1, <1>2, <1>3 DEF s

\* A credential that is not blank belongs to the mechanism, or is refused.
LEMMA CredentialBelongs ==
  ASSUME NEW s, NEW k \in CredentialKeys, s[k] # "", ~Rejects(s)
  PROVE  k \in UsedBy(Source(s))
<1>1. k \in SaslKeys
  BY DEF SaslKeys
<1>2. UsesSasl(s)
  BY <1>1 DEF Rejects, ProtocolRejects, Has
<1>3. ~MechanismRejects(s)
  BY <1>2 DEF Rejects
<1>4. /\ Mechanism(s) \in Mechanisms
      /\ k \in AwsKeys => Mechanism(s) = "AWS_MSK_IAM"
      /\ k \in OauthKeys => Mechanism(s) = "OAUTHBEARER"
      /\ k \in GcpKeys => UsesGcp(s)
      /\ k \in UserKeys /\ Mechanism(s) = "AWS_MSK_IAM" => FALSE
      /\ k \in UserKeys /\ Mechanism(s) = "OAUTHBEARER" => FALSE
      /\ k \in OidcKeys => ~UsesGcp(s)
  BY <1>3 DEF MechanismRejects, FamilyRejects, AwsRejects, GcpRejects, OidcRejects, Has
<1>5. /\ Mechanism(s) \in Passwords => Source(s) = "password"
      /\ Mechanism(s) = "AWS_MSK_IAM" => Source(s) = "aws"
      /\ UsesGcp(s) => Source(s) = "gcp"
      /\ Mechanism(s) = "OAUTHBEARER" /\ ~UsesGcp(s) => Source(s) = "oidc"
  BY <1>2 DEF Source, UsesGcp, Passwords
<1>6. k \in UserKeys \/ k \in AwsKeys \/ k \in OidcKeys \/ k = "sasl.oauthbearer.method" \/ k \in GcpKeys
  BY DEF CredentialKeys, OauthKeys
<1>7. CASE k \in UserKeys
  BY <1>4, <1>5, <1>7 DEF Mechanisms, UsedBy
<1>8. CASE k \in AwsKeys
  BY <1>4, <1>5, <1>8 DEF UsedBy
<1>9. CASE k \in OidcKeys
  BY <1>4, <1>5, <1>9 DEF OauthKeys, UsedBy
<1>10. CASE k = "sasl.oauthbearer.method"
  BY <1>4, <1>5, <1>10 DEF OauthKeys, UsedBy
<1>11. CASE k \in GcpKeys
  BY <1>4, <1>5, <1>11 DEF UsedBy
<1> QED  BY <1>6, <1>7, <1>8, <1>9, <1>10, <1>11

\* collect stores every key but the mechanism's under its own name.
LEMMA CollectStores ==
  ASSUME NEW map, NEW k \in (Fields \ {"sasl.mechanism"}) \cap DOMAIN map
  PROVE  Collect(map)[k] = Stored(k, map[k])
BY DEF Collect

\* A security key that is neither blank nor overridden is one the client is
\* built from.
LEMMA SecurityUsed ==
  ASSUME NEW map, ~Rejects(Collect(map)), NEW k \in DOMAIN map \cap SecurityKeys,
         k \notin BlankSecurity(map), k \notin Overridden(map)
  PROVE  k \in SecurityInUse(map)
<1> DEFINE s == Collect(map)
<1>1. Stored(k, map[k]) # ""
  BY DEF BlankSecurity
<1>2. ASSUME k \in SslKeys \cup CredentialKeys PROVE s[k] # ""
  <2>1. k \in Fields /\ k # "sasl.mechanism"
    BY <1>2 DEF Fields, SaslKeys, SslKeys, CaKeys, LocationPair, PemPair, CredentialKeys, UserKeys,
           AwsKeys, OauthKeys, OidcKeys, GcpKeys
  <2> QED  BY <1>1, <2>1, CollectStores
<1>3. ASSUME k \in {"sasl.mechanism", "sasl.mechanisms"} PROVE s["sasl.mechanism"] # ""
  <2>1. "sasl.mechanism" \in Fields
    BY DEF Fields, SaslKeys
  <2>2. {"sasl.mechanism", "sasl.mechanisms"} \cap (FoldedKeys \cup TrimmedKeys) = {}
    BY DEF FoldedKeys, TrimmedKeys, AwsKeys, GcpKeys
  <2>3. map[k] # ""
    BY <1>1, <1>3, <2>2 DEF Stored
  <2>4. k = "sasl.mechanism" => "sasl.mechanisms" \notin DOMAIN map
    BY DEF Overridden
  <2>5. s["sasl.mechanism"] =
          IF "sasl.mechanisms" \in DOMAIN map THEN map["sasl.mechanisms"]
          ELSE IF "sasl.mechanism" \in DOMAIN map THEN Stored("sasl.mechanism", map["sasl.mechanism"]) ELSE ""
    BY <2>1 DEF Collect
  <2>6. CASE k = "sasl.mechanism"
    BY <1>1, <2>4, <2>5, <2>6
  <2>7. CASE k = "sasl.mechanisms"
    BY <2>3, <2>5, <2>7
  <2> QED  BY <1>3, <2>6, <2>7
<1> HIDE DEF s
<1>4. ~Rejects(s) /\ ~ProtocolRejects(s)
  BY DEF Rejects, s
<1>5. \/ k = "security.protocol" \/ k \in SslKeys \/ k \in CredentialKeys
      \/ k \in {"sasl.mechanism", "sasl.mechanisms"}
  BY DEF SecurityKeys, Fields, SaslKeys
<1>6. k \in SslKeys => UsesTls(s)
  BY <1>2, <1>4 DEF ProtocolRejects, Has
<1>7. k \in {"sasl.mechanism", "sasl.mechanisms"} => UsesSasl(s)
  <2>1. "sasl.mechanism" \in SaslKeys
    BY DEF SaslKeys
  <2> QED  BY <1>3, <1>4, <2>1 DEF ProtocolRejects, Has
<1>8. k \in CredentialKeys => k \in UsedBy(Source(s))
  BY <1>2, <1>4, CredentialBelongs
<1> QED  BY <1>5, <1>6, <1>7, <1>8 DEF SecurityInUse, s

\* Every document a host may send starts in the invariant.
LEMMA InitInvariant == Init => IInv
<1> SUFFICES ASSUME Init PROVE IInv
  OBVIOUS
<1>1. DrainChecked
  BY DocumentsAssumption DEF Init, DrainChecked, DrainSetting, Checked
<1>2. OptionsTranslated /\ KeysAccounted /\ FetchedLast
  BY DEF Init, OptionsTranslated, KeysAccounted, FetchedLast, BridgeRefusesUnfetched, errBadOption
<1> QED  BY <1>1, <1>2 DEF IInv

(* A refusal ends the build; only its code and its stage are new. *)
LEMMA RefusePreserves ==
  ASSUME IInv, NEW why, Refuse(why),
         why # errBadOption \/ ~fetched \/ \E valid \in BOOLEAN : EngineRefuses(valid)
  PROVE  IInv'
<1>1. DrainChecked' /\ OptionsTranslated' /\ KeysAccounted'
  BY DEF IInv, Refuse, DrainChecked, DrainSetting, OptionsTranslated, KeysAccounted, Checked
<1>2. FetchedLast'
  BY DEF IInv, Refuse, FetchedLast, BridgeRefusesUnfetched, EngineRefuses, DrainSetting
<1> QED  BY <1>1, <1>2 DEF IInv

(* Each step, whether it refuses or moves on, keeps the invariant. *)
LEMMA NextPreserves == IInv /\ [Next]_vars => IInv'
<1> SUFFICES ASSUME IInv, [Next]_vars PROVE IInv'
  OBVIOUS
<1>1. CASE ParseBridgeConfig
  <2>1. CASE Refuse(ParseCode(document))
    BY <1>1, <2>1, RefusePreserves DEF ParseBridgeConfig, IInv, FetchedLast
  <2>2. CASE Proceed("drain") /\ UNCHANGED <<config, adapter, opts, fetched>>
    BY <1>1, <2>2 DEF ParseBridgeConfig, Proceed, IInv, DrainChecked, DrainSetting, Checked, OptionsTranslated,
                      KeysAccounted, FetchedLast, BridgeRefusesUnfetched, errBadOption
  <2> QED  BY <1>1, <2>1, <2>2 DEF ParseBridgeConfig
<1>2. CASE CheckRebalanceAboveDrain
  <2>1. CASE Refuse(errBadOption)
    BY <1>2, <2>1, RefusePreserves DEF CheckRebalanceAboveDrain, IInv, FetchedLast
  <2>2. CASE RebalanceFits /\ Proceed("bandwidth") /\ UNCHANGED <<config, adapter, opts, fetched>>
    <3>1. RebalanceFits' /\ DrainSetting' = DrainSetting
      BY <2>2 DEF RebalanceFits, Proceed, Drain, DrainSetting
    <3> QED
      BY <1>2, <2>2, <3>1 DEF CheckRebalanceAboveDrain, Proceed, IInv, DrainChecked, Checked,
           OptionsTranslated, KeysAccounted, FetchedLast, BridgeRefusesUnfetched, errBadOption
  <2> QED  BY <1>2, <2>1, <2>2 DEF CheckRebalanceAboveDrain
<1>3. CASE ParseBandwidth
  <2>1. CASE Refuse(errBadOption)
    BY <1>3, <2>1, RefusePreserves DEF ParseBandwidth, IInv, FetchedLast
  <2>2. CASE Proceed("loglevel") /\ UNCHANGED <<config, adapter, opts, fetched>>
    <3>1. RebalanceFits' /\ DrainSetting' = DrainSetting
      BY <1>3, <2>2 DEF RebalanceFits, Proceed, Drain, DrainSetting, ParseBandwidth, IInv, DrainChecked, Checked
    <3> QED
      BY <1>3, <2>2, <3>1 DEF ParseBandwidth, Proceed, IInv, DrainChecked, Checked,
           OptionsTranslated, KeysAccounted, FetchedLast, BridgeRefusesUnfetched, errBadOption
  <2> QED  BY <1>3, <2>1, <2>2 DEF ParseBandwidth
<1>4. CASE PopClientLogLevel
  <2>1. CASE Refuse(errBadOption)
    BY <1>4, <2>1, RefusePreserves DEF PopClientLogLevel, IInv, FetchedLast
  <2>2. CASE /\ LogLevelKey \in DOMAIN config
             /\ config' = Without(config, {LogLevelKey})
             /\ adapter' = With(adapter, LogLevelKey, config[LogLevelKey])
             /\ Proceed("pollerrors")
             /\ UNCHANGED <<opts, fetched>>
    <3>1. RebalanceFits' /\ DrainSetting' = DrainSetting
      BY <1>4, <2>2 DEF RebalanceFits, Proceed, Drain, DrainSetting, PopClientLogLevel, IInv, DrainChecked, Checked,
                        Without, RebalanceKey, LogLevelKey
    <3>2. /\ DOMAIN config' \cup DOMAIN adapter' = DOMAIN config \cup DOMAIN adapter
          /\ DOMAIN adapter' \subseteq DOMAIN adapter \cup {LogLevelKey}
          /\ \A k \in DOMAIN config' : k \in DOMAIN config /\ config'[k] = config[k]
      BY <2>2 DEF Without, With
    <3> QED
      BY <1>4, <2>2, <3>1, <3>2 DEF PopClientLogLevel, Proceed, IInv, DrainChecked, Checked,
           OptionsTranslated, KeysAccounted, FetchedLast, BridgeRefusesUnfetched, errBadOption
  <2>3. CASE Proceed("pollerrors") /\ UNCHANGED <<config, adapter, opts, fetched>>
    <3>1. RebalanceFits' /\ DrainSetting' = DrainSetting
      BY <1>4, <2>3 DEF RebalanceFits, Proceed, Drain, DrainSetting, PopClientLogLevel, IInv, DrainChecked, Checked
    <3> QED
      BY <1>4, <2>3, <3>1 DEF PopClientLogLevel, Proceed, IInv, DrainChecked, Checked,
           OptionsTranslated, KeysAccounted, FetchedLast, BridgeRefusesUnfetched, errBadOption
  <2> QED  BY <1>4, <2>1, <2>2, <2>3 DEF PopClientLogLevel
<1>5. CASE PopPollErrorOptions
  <2> DEFINE given == PollErrorKeys \cap DOMAIN config
  <2>1. CASE Refuse(errBadOption)
    BY <1>5, <2>1, RefusePreserves DEF PopPollErrorOptions, IInv, FetchedLast
  <2>2. CASE /\ config' = Without(config, given)
             /\ adapter' = [k \in DOMAIN adapter \cup given |->
                              IF k \in given THEN Duration(config[k]) ELSE adapter[k]]
             /\ Proceed("options")
             /\ UNCHANGED <<opts, fetched>>
    <3>1. RebalanceFits' /\ DrainSetting' = DrainSetting
      BY <1>5, <2>2 DEF RebalanceFits, Proceed, Drain, DrainSetting, PopPollErrorOptions, IInv, DrainChecked, Checked,
                        Without, RebalanceKey, PollErrorKeys, BailKey, LogIntervalKey, BackoffKey
    <3>2. /\ DOMAIN config' \cup DOMAIN adapter' = DOMAIN config \cup DOMAIN adapter
          /\ DOMAIN adapter' \subseteq DOMAIN adapter \cup PollErrorKeys
          /\ \A k \in DOMAIN config' : k \in DOMAIN config /\ config'[k] = config[k]
      BY <2>2 DEF Without
    <3> QED
      BY <1>5, <2>2, <3>1, <3>2 DEF PopPollErrorOptions, Proceed, IInv, DrainChecked, Checked,
           OptionsTranslated, KeysAccounted, FetchedLast, BridgeRefusesUnfetched, errBadOption
  <2> QED  BY <1>5, <2>1, <2>2 DEF PopPollErrorOptions
<1>6. ASSUME NEW env \in Environments, FranzKgoOpts(env) PROVE IInv'
  <2>1. CASE Refuse(errBadOption)
    BY <1>6, <2>1, RefusePreserves DEF FranzKgoOpts, IInv, FetchedLast
  <2>2. CASE /\ stage' = "refused"
             /\ code' = Build(config, env).code
             /\ fetched' = Build(config, env).fetched
             /\ UNCHANGED <<document, config, adapter, opts>>
    BY <2>2, BuildRefusesUnfetched DEF IInv, DrainChecked, DrainSetting, Checked, OptionsTranslated,
         KeysAccounted, FetchedLast, BridgeRefusesUnfetched
  <2>3. CASE /\ \A k \in DOMAIN config : ~Rejected(k)
             /\ Build(config, env).code = 0
             /\ opts' = [k \in InEffect(config) |-> Translated(k, config[k])]
             /\ Proceed("create")
             /\ UNCHANGED <<config, adapter>>
    <3>1. RebalanceFits' /\ DrainSetting' = DrainSetting
      BY <1>6, <2>3 DEF RebalanceFits, Proceed, Drain, DrainSetting, FranzKgoOpts, IInv, DrainChecked, Checked
    <3>2. \A k \in DOMAIN config' : ~Rejected(k)'
      BY <2>3 DEF Rejected
    <3>3. OptionsTranslated'
      BY <2>3, <3>2, BuiltFrom DEF OptionsTranslated
    <3> QED
      BY <1>6, <2>3, <3>1, <3>3 DEF FranzKgoOpts, Proceed, IInv, DrainChecked, Checked,
           KeysAccounted, FetchedLast, BridgeRefusesUnfetched, errBadOption
  <2> QED  BY <1>6, <2>1, <2>2, <2>3 DEF FranzKgoOpts
<1>7. ASSUME NEW dials \in BOOLEAN, NEW valid \in BOOLEAN, CreateConsumer(dials, valid) PROVE IInv'
  <2>1. CASE Refuse(errAdapter)
    BY <2>1, RefusePreserves DEF errAdapter, errBadOption
  <2>2. CASE EngineRefuses(valid) /\ Refuse(errBadOption)
    BY <2>2, RefusePreserves
  <2>3. CASE /\ ~EngineRefuses(valid)
             /\ Proceed("built")
             /\ UNCHANGED <<config, adapter, opts, fetched>>
    <3>1. RebalanceFits' /\ DrainSetting' = DrainSetting
      BY <1>7, <2>3 DEF RebalanceFits, Proceed, Drain, DrainSetting, CreateConsumer, IInv, DrainChecked, Checked
    <3>2. OptionsTranslated'
      BY <1>7, <2>3 DEF OptionsTranslated, Rejected, CreateConsumer, IInv
    <3>3. 0 <= DrainSetting
      BY <2>3 DEF IInv, DrainChecked, EngineRefuses
    <3> QED
      BY <1>7, <2>3, <3>1, <3>2, <3>3 DEF CreateConsumer, Proceed, IInv, DrainChecked, Checked,
           KeysAccounted, FetchedLast, BridgeRefusesUnfetched, errBadOption
  <2> QED  BY <1>7, <2>1, <2>2, <2>3 DEF CreateConsumer
<1>8. CASE UNCHANGED vars
  BY <1>8 DEF vars, IInv, DrainChecked, Checked, OptionsTranslated, KeysAccounted, FetchedLast,
              BridgeRefusesUnfetched, EngineRefuses, RebalanceFits, Drain, DrainSetting, Rejected
<1> QED  BY <1>1, <1>2, <1>3, <1>4, <1>5, <1>6, <1>7, <1>8 DEF Next

(* The invariant holds of every state of llingr_init: what was checked     *)
(* before keys are removed stays true of what is translated after it.      *)
THEOREM InvariantHolds == Spec => []IInv
  BY InitInvariant, NextPreserves, PTL DEF Spec

-----------------------------------------------------------------------------
\* What the invariant says once the last step has been taken.
LEMMA InvariantImplies ==
  IInv => DrainFitsRebalance /\ NothingIgnored /\ BridgeRefusesUnfetched
<1>1. IInv => DrainFitsRebalance
  <2> SUFFICES ASSUME IInv, stage = "built" PROVE RebalanceInEffect > DrainInEffect
    BY DEF DrainFitsRebalance
  <2>1. Drain = DrainInEffect
    BY DEF IInv, DrainChecked, Drain, DrainInEffect
  <2>2. CASE RebalanceKey \in DOMAIN config
    <3>1. PositiveMillis(config[RebalanceKey])
      <4>1. RebalanceKey \in TableKeys /\ Admits(RebalanceKey, config[RebalanceKey])
        BY <2>2 DEF IInv, OptionsTranslated, Rejected, TableKeys, MillisKeys
      <4> QED  BY <4>1 DEF Admits, RebalanceKey, MillisKeys, Int32Keys, BoolKeys, NameKeys
    <3>2. RebalanceInEffect = Duration(config[RebalanceKey])
      <4>1. RebalanceKey \in MillisKeys /\ RebalanceKey \in TableKeys
        BY DEF TableKeys, MillisKeys
      <4>2. RebalanceKey \notin BoolKeys /\ RebalanceKey # FetchWaitKey
        BY DEF RebalanceKey, BoolKeys, FetchWaitKey
      <4>3. RebalanceKey \in InEffect(config)
        BY <2>2, <4>1, <4>2 DEF InEffect, RestatesDefault, LosesToAlias
      <4> QED  BY <4>1, <4>3 DEF IInv, OptionsTranslated, RebalanceInEffect, Translated
    <3> QED  BY <2>1, <2>2, <3>1, <3>2 DEF IInv, DrainChecked, Checked, RebalanceFits
  <2>3. CASE RebalanceKey \notin DOMAIN config
    BY <2>1, <2>3 DEF IInv, DrainChecked, Checked, RebalanceFits, OptionsTranslated, RebalanceInEffect,
                      InEffect
  <2> QED  BY <2>2, <2>3
<1>2. IInv => NothingIgnored
  <2> DEFINE map == document.kafka
  <2> SUFFICES ASSUME IInv, stage = "built", NEW k \in DOMAIN map,
                      k \notin Overridden(map), k \notin BlankSecurity(map), k \notin DOMAIN adapter,
                      ~RestatesDefault(map, k)
               PROVE  k \in DOMAIN opts \/ k \in SecurityInUse(map)
    BY DEF NothingIgnored
  <2>1. /\ DOMAIN map = DOMAIN config \cup DOMAIN adapter
        /\ DOMAIN adapter \subseteq PollErrorKeys \cup {LogLevelKey}
        /\ \A x \in DOMAIN config : config[x] = map[x]
    BY DEF IInv, KeysAccounted
  <2>2. /\ k \in DOMAIN config /\ ~Rejected(k)
        /\ DOMAIN config \cap SecurityKeys # {} => ~Rejects(Collect(config))
        /\ DOMAIN opts = InEffect(config)
    BY <2>1 DEF IInv, OptionsTranslated
  <2>3. CASE k \in SecurityKeys
    <3>1. DOMAIN adapter \cap SecurityKeys = {}
      <4>1. \A x \in PollErrorKeys \cup {LogLevelKey} : x \notin SecurityKeys
        BY DEF PollErrorKeys, BailKey, LogIntervalKey, BackoffKey, LogLevelKey, SecurityKeys, Fields,
               SslKeys, SaslKeys, CaKeys, LocationPair, PemPair, CredentialKeys, UserKeys, AwsKeys,
               OauthKeys, OidcKeys, GcpKeys
      <4> QED  BY <2>1, <4>1
    <3>2. \A f \in SecurityKeys :
            (f \in DOMAIN config <=> f \in DOMAIN map) /\ (f \in DOMAIN config => config[f] = map[f])
      BY <2>1, <3>1
    <3>3. Fields \subseteq SecurityKeys /\ "sasl.mechanisms" \in SecurityKeys
      BY DEF SecurityKeys
    <3>4. Collect(config) = Collect(map)
      BY <3>2, <3>3 DEF Collect
    <3>5. ~Rejects(Collect(map))
      BY <2>2, <2>3, <3>4
    <3> QED  BY <2>3, <3>5, SecurityUsed
  <2>4. CASE k \notin SecurityKeys
    <3>1. k \in TableKeys
      BY <2>2, <2>4 DEF Rejected
    <3>2. ~RestatesDefault(config, k)
      BY <2>1, <2>2 DEF RestatesDefault
    <3>3. ~LosesToAlias(config, k)
      BY <2>1 DEF LosesToAlias, Overridden
    <3> QED  BY <2>2, <3>1, <3>2, <3>3 DEF InEffect
  <2> QED  BY <2>3, <2>4
<1>3. IInv => BridgeRefusesUnfetched
  BY DEF IInv, FetchedLast
<1> QED  BY <1>1, <1>2, <1>3

(* checkRebalanceAboveDrain decides for the timeouts that are in effect    *)
(* once the table has set them, for every document, default and width.     *)
THEOREM DrainFits == Spec => []DrainFitsRebalance
  BY InvariantImplies, InvariantHolds, PTL

(* Every key of a document that was built has an effect, unless it is      *)
(* blank, restates a default or loses to another key in one of three ways: *)
(* the pop functions, the table and franzSecurity.build leave no other     *)
(* behind.                                                                 *)
THEOREM NoKeyIgnored == Spec => []NothingIgnored
  BY InvariantImplies, InvariantHolds, PTL

(* Whatever the bridge refuses it refuses before any identity source is    *)
(* asked for a credential; only a setting the engine itself refuses is     *)
(* reported after.                                                         *)
THEOREM RefusedUnfetched == Spec => []BridgeRefusesUnfetched
  BY InvariantImplies, InvariantHolds, PTL

-----------------------------------------------------------------------------
(* Documents that a host's setters assemble *)

NatValued(f) == \A k \in DOMAIN f : f[k] \in Nat

\* Before build() nothing was handed to the bridge.
Assembling ==
  /\ adapter = <<>> /\ opts = <<>> /\ code = 0 /\ ~fetched
  /\ builder = [f \in DOMAIN builder |-> builder[f]] /\ "demux" \in DOMAIN builder
  /\ NatValued(builder.demux) /\ NatValued(demux)

DocInv == (stage = "builder" => Assembling) /\ (stage # "builder" => IInv)

\* Rounding up to whole milliseconds adds less than one of them.
LEMMA CeilBounds ==
  ASSUME NEW d \in Nat
  PROVE  /\ DurationMsCeil(d) \in Nat /\ DurationMsCeil(d) * Millisecond \in Nat
         /\ d <= DurationMsCeil(d) * Millisecond
         /\ DurationMsCeil(d) * Millisecond < d + Millisecond
<1>1. Millisecond \in Nat \ {0}
  BY DurationsAssumption
<1>2. DurationMsCeil(d) \in Nat
  BY <1>1 DEF DurationMsCeil
<1> QED  BY <1>1, <1>2 DEF DurationMsCeil

\* A builder and a document of another host both start well.
LEMMA DocInitInvariant == DocInit => DocInv
<1> SUFFICES ASSUME DocInit PROVE DocInv
  OBVIOUS
<1>1. CASE Init
  BY <1>1, InitInvariant DEF Init, DocInv
<1>2. CASE ~Init
  <2>1. stage = "builder" /\ adapter = <<>> /\ opts = <<>> /\ code = 0 /\ ~fetched
    BY <1>2, Zenon DEF DocInit
  <2>2. PICK topic \in Texts : builder = NewBuilder(topic)
    BY <1>2 DEF DocInit
  <2>3. builder = [f \in DOMAIN builder |-> builder[f]] /\ "demux" \in DOMAIN builder
    BY <2>2 DEF NewBuilder
  <2>4. builder.demux = <<>> /\ demux = <<>>
    BY <2>2 DEF NewBuilder, DocInit
  <2> QED  BY <2>1, <2>3, <2>4 DEF DocInv, Assembling, NatValued
<1> QED  BY <1>1, <1>2

\* A setter changes the builder, and nothing the bridge looks at.
LEMMA SettersKeep ==
  ASSUME DocInv,
         \/ \E field \in {"brokers", "consumer_group"}, text \in Texts : SetRequired(field, text)
         \/ \E pair \in OptionPairs : SetOption(pair)
         \/ \E pair \in HostPairs : KafkaOption(pair)
         \/ \E key \in DurationOptions, d \in Durations : SetDurationOption(key, d)
         \/ \E name \in CountSettings, n \in Counts : SetDemuxCount(name, n)
         \/ \E name \in DurationSettings, d \in Durations : SetDemuxDuration(name, d)
         \/ Demux
         \/ \E name, team \in Texts : SetService(name, team)
         \/ \E field \in {"bandwidth_stats_interval", "bandwidth_flush_interval"}, d \in Durations :
              SetBandwidth(field, d)
  PROVE  DocInv'
<1>1. stage = "builder" /\ UNCHANGED vars
  BY DEF SetRequired, SetOption, KafkaOption, SetDurationOption, SetDemuxCount, SetDemuxDuration, Demux,
         SetService, SetBandwidth, Setting
<1>2. Assembling
  BY <1>1 DEF DocInv
<1>3. \/ \E field \in {"brokers", "consumer_group", "kafka", "service",
                       "bandwidth_stats_interval", "bandwidth_flush_interval"} : \E v :
            builder' = [builder EXCEPT ![field] = v] /\ demux' = demux
      \/ \E name, n : n \in Nat /\ builder' = builder /\ demux' = With(demux, name, n)
      \/ builder' = [builder EXCEPT !.demux = demux] /\ demux' = <<>>
  BY HostAssumption DEF SetRequired, SetOption, KafkaOption, SetDurationOption, SetDemuxCount,
       SetDemuxDuration, Demux, SetService, SetBandwidth
<1> DEFINE Shape == /\ builder' = [f \in DOMAIN builder' |-> builder'[f]]
                    /\ "demux" \in DOMAIN builder'
                    /\ NatValued(builder'.demux) /\ NatValued(demux')
<1>4. Shape
  <2>1. ASSUME NEW field, field # "demux", NEW v,
               builder' = [builder EXCEPT ![field] = v], demux' = demux
        PROVE  Shape
    BY <1>2, <2>1 DEF Assembling, NatValued
  <2>2. ASSUME NEW name, NEW n \in Nat, builder' = builder, demux' = With(demux, name, n)
        PROVE  Shape
    BY <1>2, <2>2 DEF Assembling, NatValued, With
  <2>3. ASSUME builder' = [builder EXCEPT !.demux = demux], demux' = <<>>
        PROVE  Shape
    BY <1>2, <2>3 DEF Assembling, NatValued
  <2> QED  BY <1>3, <2>1, <2>2, <2>3
<1> QED  BY <1>1, <1>2, <1>4 DEF vars, DocInv, Assembling

\* What config_json writes is a document the bridge may be given.
LEMMA BuildDocumentKeeps == ASSUME DocInv, BuildDocument PROVE DocInv'
<1>1. /\ stage = "builder" /\ stage' = "parse" /\ document' = ConfigJson(builder)
      /\ config' = KafkaConfig(builder) /\ UNCHANGED <<adapter, opts, code, fetched>>
  BY DEF BuildDocument
<1>2. Assembling
  BY <1>1 DEF DocInv
<1>3. DrainSetting' \in Int
  <2>1. document'.demux = DemuxRead(DemuxJson(builder))
    BY <1>1 DEF ConfigJson
  <2>2. ASSUME "drainTimeout" \in DOMAIN builder.demux
        PROVE  DemuxRead(DemuxJson(builder))["drainTimeout"] \in Int
    BY <1>2, <2>2, CeilBounds DEF DemuxRead, DemuxJson, DurationSettings, Assembling, NatValued
  <2>3. DOMAIN DemuxRead(DemuxJson(builder)) = DOMAIN builder.demux
    BY DEF DemuxRead, DemuxJson
  <2> QED  BY <2>1, <2>2, <2>3 DEF DrainSetting
<1>4. document'.kafka = config'
  BY <1>1 DEF ConfigJson
<1>5. DrainChecked' /\ OptionsTranslated' /\ KeysAccounted' /\ FetchedLast'
  BY <1>1, <1>2, <1>3, <1>4 DEF Assembling, DrainChecked, Checked, OptionsTranslated,
       KeysAccounted, FetchedLast, BridgeRefusesUnfetched, errBadOption
<1> QED  BY <1>1, <1>5 DEF DocInv, IInv

\* The bridge never goes back to the builder.
LEMMA BridgeKeeps == ASSUME DocInv, Next PROVE DocInv'
<1>1. stage # "builder" /\ stage' # "builder"
  BY DEF Next, ParseBridgeConfig, CheckRebalanceAboveDrain, ParseBandwidth, PopClientLogLevel,
         PopPollErrorOptions, FranzKgoOpts, CreateConsumer, Refuse, Proceed
<1> QED  BY <1>1, NextPreserves DEF DocInv

\* Every step of a host or of the bridge.
LEMMA DocNextPreserves == DocInv /\ [DocNext]_docVars => DocInv'
<1> SUFFICES ASSUME DocInv, [DocNext]_docVars PROVE DocInv'
  OBVIOUS
<1>1. CASE Bridge(Next)
  BY <1>1, BridgeKeeps DEF Bridge
<1>2. CASE UNCHANGED docVars
  <2>1. UNCHANGED vars /\ builder' = builder /\ demux' = demux
    BY <1>2 DEF docVars
  <2>2. IInv => IInv'
    BY <2>1, NextPreserves
  <2> QED  BY <2>1, <2>2 DEF vars, DocInv, Assembling, NatValued
<1> QED  BY <1>1, <1>2, SettersKeep, BuildDocumentKeeps DEF DocNext

\* Whatever a host sets, and in whatever order, an engine that was built for it
\* drains within its rebalance timeout and ignores no option, and what the
\* bridge refuses of its document it refuses before a credential is fetched.
THEOREM AssembledDocuments ==
  DocSpec => []DrainFitsRebalance /\ []NothingIgnored /\ []BridgeRefusesUnfetched
<1>1. DocInv => DrainFitsRebalance /\ NothingIgnored /\ BridgeRefusesUnfetched
  BY InvariantImplies DEF DocInv, Assembling, DrainFitsRebalance, NothingIgnored,
       BridgeRefusesUnfetched, errBadOption
<1> QED  BY <1>1, DocNextPreserves, DocInitInvariant, PTL DEF DocSpec

-----------------------------------------------------------------------------
(* What the host asked for *)

\* f has the milliseconds of every Duration the host asked for.
AskedIn(f) ==
  \A k \in DOMAIN asked :
    /\ k \in DurationOptions \cap DOMAIN f
    /\ asked[k] \in Nat
    /\ f[k] = DurationMsCeil(asked[k])

\* The texts of a builder are texts.
HostTexts ==
  /\ \A field \in {"topic", "brokers", "consumer_group"} : builder[field] \in Seq(Characters)
  /\ builder.service = Null \/ \E name, team \in Seq(Characters) : builder.service = <<name, team>>
  /\ \A k \in TextKeys \cap DOMAIN builder.kafka : builder.kafka[k] \in Seq(Characters)

\* The builder is a Builder, and holds what was asked.
HostBuilder ==
  /\ builder = [f \in DOMAIN builder |-> builder[f]]
  /\ DOMAIN builder = {"topic", "brokers", "consumer_group", "kafka", "demux", "service",
                       "bandwidth_stats_interval", "bandwidth_flush_interval"}
  /\ NatValued(builder.demux) /\ NatValued(demux)
  /\ builder.bandwidth_stats_interval \in Nat \cup {Null}
  /\ builder.bandwidth_flush_interval \in Nat \cup {Null}
  /\ AskedIn(builder.kafka)
  /\ HostTexts

\* The poll-error Durations have left the map for the adapter.
AskedOrPopped ==
  \A k \in DOMAIN asked :
    IF k \in PollErrorKeys THEN adapter[k] = Duration(DurationMsCeil(asked[k]))
    ELSE k \in DOMAIN config /\ config[k] = DurationMsCeil(asked[k])

\* The bridge was given that builder's document, and has what was asked in the
\* map or among the adapter's options.
HostDocument ==
  /\ document = ConfigJson(builder)
  /\ stage \in {"parse", "drain", "bandwidth", "loglevel", "pollerrors"} => AskedIn(config)
  /\ stage \in {"options", "create", "built"} => AskedOrPopped
  /\ stage \in Checked \ {"bandwidth"} => BandwidthOk
  /\ code = errInvalidJSON => stage = "refused" /\ ~document.wellFormed

HostInv ==
  /\ stage = "builder" => HostBuilder
  /\ stage # "builder" /\ builder # Null => HostBuilder /\ HostDocument

\* A product that int64 holds does not wrap.
LEMMA WrapFits == ASSUME NEW n \in Nat, n < Int64 PROVE Wrap(n) = n
<1>1. Int64 \in Nat \ {0}
  BY DurationsAssumption
<1>2. (n + Int64) % (2 * Int64) = n + Int64
  BY <1>1
<1> QED  BY <1>1, <1>2 DEF Wrap

\* A Duration that fits is honoured by its milliseconds.
LEMMA AskedHonoured ==
  ASSUME NEW d \in Nat, Fits(d)
  PROVE  Honours(Duration(DurationMsCeil(d)), d)
<1> DEFINE v == DurationMsCeil(d) * Millisecond
<1>0. Millisecond \in Nat /\ Int64 \in Nat
  BY DurationsAssumption
<1>1. v \in Nat /\ d <= v /\ v < d + Millisecond
  BY CeilBounds
<1>2. v < Int64
  BY <1>0, <1>1 DEF Fits
<1> HIDE DEF v
<1>3. Wrap(v) = v
  BY <1>1, <1>2, WrapFits
<1> QED  BY <1>1, <1>3 DEF Duration, Honours, v

\* The decoder reads back the character that was escaped.
LEMMA EscapeCrosses == ASSUME NEW c \in Characters PROVE DecodeUnit(EscapeChar(c)) = c
<1> USE DEF Quote, Backslash
<1>0. c \in Nat
  BY DEF Characters
<1>1. CASE c \in {34, 92, 10, 13, 9}
  <2> DEFINE x == IF c = 10 THEN 110 ELSE IF c = 13 THEN 114 ELSE IF c = 9 THEN 116 ELSE c
  <2>1. EscapeChar(c) = <<92, x>>
    BY <1>1 DEF EscapeChar
  <2>2. <<x, c>> \in JsonEscapes
    BY <1>1 DEF JsonEscapes
  <2>3. \A e \in JsonEscapes : e[1] = x => e[2] = c
    BY <1>1 DEF JsonEscapes
  <2> HIDE DEF x
  <2>4. \E e \in JsonEscapes : e[1] = x
    BY <2>2
  <2>5. (CHOOSE e \in JsonEscapes : e[1] = x)[2] = c
    BY <2>3, <2>4
  <2> QED  BY <2>1, <2>4, <2>5 DEF DecodeUnit
<1>2. CASE c < 32 /\ c \notin {10, 13, 9}
  <2> DEFINE h == c \div 16
             l == c % 16
             u == EscapeChar(c)
  <2>1. h \in 0..1 /\ l \in 0..15 /\ c = 16 * h + l
    BY <1>0, <1>2
  <2>2. u = <<92, 117, 48, 48, HexDigit(h), HexDigit(l)>>
    BY <1>0, <1>2 DEF EscapeChar
  <2> HIDE DEF h, l, u
  <2>3. HexValue(HexDigit(h)) = h /\ HexValue(HexDigit(l)) = l /\ HexValue(48) = 0
    BY <2>1 DEF HexValue, HexDigit, Malformed
  <2>4. /\ Len(u) = 6 /\ u[1] = 92 /\ u[2] = 117 /\ u[3] = 48 /\ u[4] = 48
        /\ u[5] = HexDigit(h) /\ u[6] = HexDigit(l)
    BY <2>2
  <2>5. HexValue(u[3]) = 0 /\ HexValue(u[4]) = 0 /\ HexValue(u[5]) = h /\ HexValue(u[6]) = l
    BY <2>3, <2>4
  <2>6. ~\E i \in 3..6 : HexValue(u[i]) = Malformed
    <3> HIDE DEF HexValue
    <3> QED  BY <2>1, <2>5 DEF Malformed
  <2>7. DecodeUnit(u) = 4096 * HexValue(u[3]) + 256 * HexValue(u[4]) + 16 * HexValue(u[5]) + HexValue(u[6])
    BY <2>4, <2>6 DEF DecodeUnit
  <2>8. DecodeUnit(u) = c
    BY <2>1, <2>5, <2>7
  <2> QED  BY <2>8 DEF u
<1>3. CASE c >= 32 /\ c # 34 /\ c # 92
  <2>1. EscapeChar(c) = <<c>>
    BY <1>0, <1>3 DEF EscapeChar
  <2> QED  BY <1>0, <1>3, <2>1 DEF DecodeUnit
<1> QED  BY <1>0, <1>1, <1>2, <1>3

\* So the bridge reads every text as it was written.
LEMMA TextCrosses ==
  ASSUME NEW text \in Seq(Characters)
  PROVE  Crosses(text) = text /\ \A i \in DOMAIN text : Crosses(text)[i] # Malformed
<1>1. \A i \in DOMAIN text : text[i] \in Characters
  OBVIOUS
<1>2. Crosses(text) = [i \in DOMAIN text |-> DecodeUnit(EscapeChar(text[i]))]
  BY DEF Crosses, Decode, JsonEscape
<1>3. text = [i \in DOMAIN text |-> text[i]]
  OBVIOUS
<1>4. Crosses(text) = text
  BY <1>1, <1>2, <1>3, EscapeCrosses
<1>5. \A c \in Characters : c # Malformed
  BY DEF Characters, Malformed
<1> QED  BY <1>1, <1>4, <1>5

\* A builder's texts arrive.
LEMMA BuilderTextsCross ==
  ASSUME HostTexts, builder = [f \in DOMAIN builder |-> builder[f]]
  PROVE  /\ \A text \in TextsOf(builder) : text \in Seq(Characters)
         /\ \A field \in {"topic", "brokers", "consumer_group", "service"} :
              ConfigJson(builder)[field] = builder[field]
         /\ \A k \in TextKeys \cap DOMAIN builder.kafka : KafkaConfig(builder)[k] = builder.kafka[k]
<1>1. builder.service # Null =>
        /\ builder.service[1] \in Seq(Characters) /\ builder.service[2] \in Seq(Characters)
        /\ builder.service = <<builder.service[1], builder.service[2]>>
  BY DEF HostTexts
<1>2. \A text \in TextsOf(builder) : text \in Seq(Characters)
  BY <1>1 DEF HostTexts, TextsOf
<1>3. /\ ConfigJson(builder).topic = Crosses(builder.topic)
      /\ ConfigJson(builder).brokers = Crosses(builder.brokers)
      /\ ConfigJson(builder).consumer_group = Crosses(builder.consumer_group)
      /\ ConfigJson(builder).service =
           IF builder.service = Null THEN Null
           ELSE <<Crosses(builder.service[1]), Crosses(builder.service[2])>>
  BY DEF ConfigJson
<1>4. ConfigJson(builder).service = builder.service
  <2>1. CASE builder.service = Null
    BY <1>3, <2>1
  <2>2. CASE builder.service # Null
    <3>1. /\ Crosses(builder.service[1]) = builder.service[1]
          /\ Crosses(builder.service[2]) = builder.service[2]
      BY <1>1, <2>2, TextCrosses
    <3> QED  BY <1>1, <1>3, <2>2, <3>1
  <2> QED  BY <2>1, <2>2
<1>5. \A field \in {"topic", "brokers", "consumer_group"} : Crosses(builder[field]) = builder[field]
  BY TextCrosses DEF HostTexts
<1>6. \A k \in TextKeys \cap DOMAIN builder.kafka : KafkaConfig(builder)[k] = builder.kafka[k]
  BY TextCrosses DEF HostTexts, KafkaConfig
<1> QED  BY <1>2, <1>3, <1>4, <1>5, <1>6

\* The document of a builder is malformed only for a Duration that does not fit.
LEMMA MalformedByDuration ==
  ASSUME NatValued(builder.demux), \A text \in TextsOf(builder) : text \in Seq(Characters),
         ~ConfigJson(builder).wellFormed
  PROVE  \E name \in DOMAIN builder.demux \cap DurationSettings : ~Fits(builder.demux[name])
<1>1. \A text \in TextsOf(builder) : \A i \in DOMAIN text : Crosses(text)[i] # Malformed
  BY TextCrosses
<1>2. PICK name \in DOMAIN DemuxJson(builder) \cap DurationSettings :
             ~ParsesAsDuration(DemuxJson(builder)[name])
  <2> HIDE DEF DemuxJson
  <2> QED  BY <1>1 DEF ConfigJson
<1>3. /\ name \in DOMAIN builder.demux \cap DurationSettings
      /\ DemuxJson(builder)[name] = DurationMsCeil(builder.demux[name])
  BY <1>2 DEF DemuxJson
<1> DEFINE d == builder.demux[name]
<1>4. d \in Nat
  BY <1>3 DEF NatValued
<1>5. /\ DurationMsCeil(d) * Millisecond \in Nat
      /\ DurationMsCeil(d) * Millisecond < d + Millisecond
  BY <1>4, CeilBounds
<1>6. ~(DurationMsCeil(d) * Millisecond < Int64)
  BY <1>2, <1>3 DEF ParsesAsDuration
<1>7. ~Fits(d)
  <2> DEFINE v == DurationMsCeil(d) * Millisecond
  <2>1. v \in Nat /\ v < d + Millisecond /\ ~(v < Int64)
    BY <1>5, <1>6
  <2> HIDE DEF v, d
  <2> QED  BY <1>4, <2>1, DurationsAssumption DEF Fits
<1> QED  BY <1>3, <1>7

\* No other setter of Options writes the key of a Duration, and those that take
\* a text write one.
LEMMA OptionKeysApart ==
  ASSUME NEW pair \in OptionPairs
  PROVE  pair[1] \notin DurationOptions /\ (pair[1] \in TextKeys => pair[2] \in Seq(Characters))
<1>1. \/ pair[1] \in NameKeys \cup {"client.id"} /\ pair[2] \in Texts
      \/ pair[1] \in Int32Keys \cup
           {"auto.offset.reset", LogLevelKey, "partition.assignment.strategy",
            "allow.auto.create.topics", "check.crcs", "enable.metrics.push"}
  <2> DEFINE lists == {Joined(s) : s \in {<<>>} \cup [1..1 -> Strategies] \cup [1..2 -> {"sticky", "range"}]}
  <2>1. pair \in (Int32Keys \X Counts) \cup ((NameKeys \cup {"client.id"}) \X Texts)
          \cup ({"auto.offset.reset"} \X {"earliest", "latest"})
          \cup ({LogLevelKey} \X {"none", "error", "warn", "info", "debug"})
          \cup ({"partition.assignment.strategy"} \X lists)
          \cup {<<"allow.auto.create.topics", "true">>, <<"check.crcs", "false">>,
                <<"enable.metrics.push", "false">>}
    BY Zenon DEF OptionPairs
  <2> HIDE DEF lists
  <2>2. ASSUME NEW K, NEW V, pair \in K \X V PROVE pair[1] \in K /\ pair[2] \in V
    BY <2>2
  <2>3. CASE pair \in Int32Keys \X Counts
    BY <2>2, <2>3
  <2>4. CASE pair \in (NameKeys \cup {"client.id"}) \X Texts
    BY <2>2, <2>4
  <2>5. CASE pair \in {"auto.offset.reset"} \X {"earliest", "latest"}
    BY <2>2, <2>5
  <2>6. CASE pair \in {LogLevelKey} \X {"none", "error", "warn", "info", "debug"}
    BY <2>2, <2>6
  <2>7. CASE pair \in {"partition.assignment.strategy"} \X lists
    BY <2>2, <2>7
  <2>8. CASE pair \in {<<"allow.auto.create.topics", "true">>, <<"check.crcs", "false">>,
                       <<"enable.metrics.push", "false">>}
    BY <2>8
  <2> QED  BY <2>1, <2>3, <2>4, <2>5, <2>6, <2>7, <2>8
<1>2. pair[1] \notin DurationOptions
  BY <1>1 DEF Int32Keys, NameKeys, LogLevelKey, DurationOptions, PollErrorKeys, BailKey,
              LogIntervalKey, BackoffKey, RebalanceKey, FetchWaitKey
<1>3. pair[1] \in TextKeys => pair[2] \in Texts
  BY <1>1 DEF Int32Keys, NameKeys, LogLevelKey, TextKeys, UnknownKey
<1> QED  BY <1>2, <1>3, TextsAssumption

\* A builder starts with nothing asked; another host's document has no builder.
LEMMA HostInitInvariant == DocInit => HostInv
<1> SUFFICES ASSUME DocInit PROVE HostInv
  OBVIOUS
<1>1. CASE Init /\ builder = Null
  BY <1>1 DEF HostInv, Init
<1>2. ASSUME NEW topic \in Texts, builder = NewBuilder(topic), stage = "builder" PROVE HostInv
  <2>1. asked = <<>> /\ demux = <<>>
    BY DEF DocInit
  <2>2. /\ builder = [f \in DOMAIN builder |-> builder[f]]
        /\ DOMAIN builder = {"topic", "brokers", "consumer_group", "kafka", "demux", "service",
                             "bandwidth_stats_interval", "bandwidth_flush_interval"}
    BY <1>2 DEF NewBuilder
  <2>3. /\ builder.demux = <<>> /\ builder.bandwidth_stats_interval = Null
        /\ builder.bandwidth_flush_interval = Null
    BY <1>2 DEF NewBuilder
  <2>4. /\ builder.topic = topic /\ builder.brokers = <<>> /\ builder.consumer_group = <<>>
        /\ builder.service = Null /\ builder.kafka = <<>>
    BY <1>2 DEF NewBuilder
  <2>5. HostTexts
    <3>1. <<>> \in Seq(Characters) /\ topic \in Seq(Characters) /\ DOMAIN <<>> = {}
      BY TextsAssumption
    <3>2. \A field \in {"topic", "brokers", "consumer_group"} : builder[field] \in Seq(Characters)
      BY <2>4, <3>1
    <3>3. TextKeys \cap DOMAIN builder.kafka = {}
      BY <2>4, <3>1
    <3> QED  BY <2>4, <3>2, <3>3 DEF HostTexts
  <2>6. HostBuilder
    BY <2>1, <2>2, <2>3, <2>5 DEF HostBuilder, NatValued, AskedIn
  <2> QED  BY <1>2, <2>6 DEF HostInv
<1> QED  BY <1>1, <1>2 DEF DocInit

\* A field is set, and the others stay.
LEMMA SetField ==
  ASSUME HostBuilder, NEW field \in DOMAIN builder, NEW v,
         builder' = [builder EXCEPT ![field] = v], demux' = demux, asked' = asked,
         field \notin {"kafka", "demux"},
         field \in {"bandwidth_stats_interval", "bandwidth_flush_interval"} => v \in Nat,
         field \in {"topic", "brokers", "consumer_group"} => v \in Seq(Characters),
         field = "service" => \E name, team \in Seq(Characters) : v = <<name, team>>
  PROVE  HostBuilder'
<1>1. builder' = [f \in DOMAIN builder |-> IF f = field THEN v ELSE builder[f]]
  BY DEF HostBuilder
<1>2. DOMAIN builder' = DOMAIN builder /\ builder' = [f \in DOMAIN builder' |-> builder'[f]]
  BY <1>1
<1>3. builder'.demux = builder.demux /\ builder'.kafka = builder.kafka
  BY <1>1 DEF HostBuilder
<1>4. /\ builder'.bandwidth_stats_interval \in Nat \cup {Null}
      /\ builder'.bandwidth_flush_interval \in Nat \cup {Null}
  BY <1>1 DEF HostBuilder
<1>5. AskedIn(builder.kafka)'
  BY <1>3 DEF HostBuilder, AskedIn
<1>6. HostTexts'
  <2>1. HostTexts
    BY DEF HostBuilder
  <2>2. \A x \in {"topic", "brokers", "consumer_group"} : builder'[x] \in Seq(Characters)
    BY <1>1, <2>1 DEF HostBuilder, HostTexts
  <2>3. \/ builder'.service = builder.service
        \/ \E name, team \in Seq(Characters) : builder'.service = <<name, team>>
    BY <1>1 DEF HostBuilder
  <2> QED  BY <1>3, <2>1, <2>2, <2>3 DEF HostTexts
<1> QED  BY <1>2, <1>3, <1>4, <1>5, <1>6 DEF HostBuilder, NatValued

\* The client options are set, with all that was asked.
LEMMA SetKafka ==
  ASSUME HostBuilder, NEW f, builder' = [builder EXCEPT !.kafka = f], demux' = demux,
         AskedIn(builder.kafka)', \A k \in TextKeys \cap DOMAIN f : f[k] \in Seq(Characters)
  PROVE  HostBuilder'
<1>1. builder' = [field \in DOMAIN builder |-> IF field = "kafka" THEN f ELSE builder[field]]
  BY DEF HostBuilder
<1>2. /\ DOMAIN builder' = DOMAIN builder
      /\ builder' = [field \in DOMAIN builder' |-> builder'[field]]
      /\ builder'.demux = builder.demux
      /\ builder'.bandwidth_stats_interval = builder.bandwidth_stats_interval
      /\ builder'.bandwidth_flush_interval = builder.bandwidth_flush_interval
  BY <1>1 DEF HostBuilder
<1>3. HostTexts'
  <2>1. /\ \A x \in {"topic", "brokers", "consumer_group"} : builder'[x] = builder[x]
        /\ builder'.service = builder.service /\ builder'.kafka = f
    BY <1>1 DEF HostBuilder
  <2> QED  BY <2>1 DEF HostBuilder, HostTexts
<1> QED  BY <1>2, <1>3 DEF HostBuilder, NatValued

LEMMA DurationsNotTexts == DurationOptions \cap TextKeys = {}
BY DEF DurationOptions, TextKeys, NameKeys, UnknownKey, PollErrorKeys, BailKey, LogIntervalKey,
       BackoffKey, RebalanceKey, FetchWaitKey

\* A setter keeps what was asked in the builder.
LEMMA HostSettersKeep ==
  ASSUME HostBuilder,
         \/ \E field \in {"brokers", "consumer_group"}, text \in Texts : SetRequired(field, text)
         \/ \E pair \in OptionPairs : SetOption(pair)
         \/ \E pair \in HostPairs : KafkaOption(pair)
         \/ \E key \in DurationOptions, d \in Durations : SetDurationOption(key, d)
         \/ \E name \in CountSettings, n \in Counts : SetDemuxCount(name, n)
         \/ \E name \in DurationSettings, d \in Durations : SetDemuxDuration(name, d)
         \/ Demux
         \/ \E name, team \in Texts : SetService(name, team)
         \/ \E field \in {"bandwidth_stats_interval", "bandwidth_flush_interval"}, d \in Durations :
              SetBandwidth(field, d)
  PROVE  HostBuilder'
<1>1. ASSUME NEW field \in {"brokers", "consumer_group"}, NEW text \in Texts, SetRequired(field, text)
      PROVE  HostBuilder'
  <2>1. /\ builder' = [builder EXCEPT ![field] = text] /\ demux' = demux /\ asked' = asked
        /\ field \in DOMAIN builder /\ text \in Seq(Characters)
    BY <1>1, TextsAssumption DEF SetRequired, HostBuilder
  <2> QED  BY <2>1, SetField
<1>2. ASSUME NEW pair \in OptionPairs, SetOption(pair) PROVE HostBuilder'
  <2> DEFINE kafka == With(builder.kafka, pair[1], pair[2])
  <2>1. builder' = [builder EXCEPT !.kafka = kafka] /\ demux' = demux /\ asked' = asked
    BY <1>2 DEF SetOption
  <2>2. builder'.kafka = kafka
    BY <2>1 DEF HostBuilder
  <2>3. AskedIn(builder.kafka)'
    BY <2>1, <2>2, OptionKeysApart DEF HostBuilder, AskedIn, With
  <2>4. \A k \in TextKeys \cap DOMAIN kafka : kafka[k] \in Seq(Characters)
    BY OptionKeysApart DEF HostBuilder, HostTexts, With
  <2> HIDE DEF kafka
  <2> QED  BY <2>1, <2>3, <2>4, SetKafka
<1>2a. ASSUME NEW pair \in HostPairs, KafkaOption(pair) PROVE HostBuilder'
  <2> DEFINE kafka == With(builder.kafka, pair[1], pair[2])
  <2>1. builder' = [builder EXCEPT !.kafka = kafka] /\ demux' = demux
    BY <1>2a DEF KafkaOption
  <2>2. asked' = Without(asked, {pair[1]})
    BY <1>2a DEF KafkaOption
  <2>3. builder'.kafka = kafka
    BY <2>1 DEF HostBuilder
  <2>4. AskedIn(builder.kafka)'
    BY <2>2, <2>3 DEF HostBuilder, AskedIn, With, Without
  <2>5. \A k \in TextKeys \cap DOMAIN kafka : kafka[k] \in Seq(Characters)
    BY TextsAssumption DEF HostBuilder, HostTexts, With
  <2> HIDE DEF kafka
  <2> QED  BY <2>1, <2>4, <2>5, SetKafka
<1>3. ASSUME NEW key \in DurationOptions, NEW d \in Durations, SetDurationOption(key, d)
      PROVE  HostBuilder'
  <2> DEFINE kafka == With(builder.kafka, key, DurationMsCeil(d))
  <2>1. builder' = [builder EXCEPT !.kafka = kafka] /\ demux' = demux
    BY <1>3 DEF SetDurationOption
  <2>2. asked' = With(asked, key, d) /\ d \in Nat
    BY <1>3, HostAssumption DEF SetDurationOption
  <2>3. builder'.kafka = kafka
    BY <2>1 DEF HostBuilder
  <2>4. AskedIn(builder.kafka)'
    BY <2>2, <2>3 DEF HostBuilder, AskedIn, With
  <2>5. \A k \in TextKeys \cap DOMAIN kafka : kafka[k] \in Seq(Characters)
    BY DurationsNotTexts DEF HostBuilder, HostTexts, With
  <2> HIDE DEF kafka
  <2> QED  BY <2>1, <2>4, <2>5, SetKafka
<1>4. ASSUME NEW name, NEW n \in Nat, UNCHANGED <<builder, asked>>, demux' = With(demux, name, n)
      PROVE  HostBuilder'
  BY <1>4 DEF HostBuilder, HostTexts, NatValued, With, AskedIn
<1>5. CASE Demux
  <2>1. builder' = [f \in DOMAIN builder |-> IF f = "demux" THEN demux ELSE builder[f]]
    BY <1>5 DEF Demux, HostBuilder
  <2>2. asked' = asked /\ demux' = <<>>
    BY <1>5 DEF Demux
  <2>3. /\ DOMAIN builder' = DOMAIN builder /\ builder' = [f \in DOMAIN builder' |-> builder'[f]]
        /\ builder'.demux = demux /\ builder'.kafka = builder.kafka
        /\ builder'.bandwidth_stats_interval = builder.bandwidth_stats_interval
        /\ builder'.bandwidth_flush_interval = builder.bandwidth_flush_interval
    BY <2>1 DEF HostBuilder
  <2>4. HostTexts'
    <3>1. \A x \in {"topic", "brokers", "consumer_group", "service"} : builder'[x] = builder[x]
      BY <2>1 DEF HostBuilder
    <3> QED  BY <2>3, <3>1 DEF HostBuilder, HostTexts
  <2> QED  BY <2>2, <2>3, <2>4 DEF HostBuilder, NatValued, AskedIn
<1>6. ASSUME NEW name \in Texts, NEW team \in Texts, SetService(name, team) PROVE HostBuilder'
  <2>1. /\ builder' = [builder EXCEPT !["service"] = <<name, team>>]
        /\ demux' = demux /\ asked' = asked /\ "service" \in DOMAIN builder
        /\ name \in Seq(Characters) /\ team \in Seq(Characters)
    BY <1>6, TextsAssumption DEF SetService, HostBuilder
  <2> QED  BY <2>1, SetField
<1>7. ASSUME NEW field \in {"bandwidth_stats_interval", "bandwidth_flush_interval"},
             NEW d \in Durations, SetBandwidth(field, d)
      PROVE  HostBuilder'
  <2>1. /\ builder' = [builder EXCEPT ![field] = d] /\ demux' = demux /\ asked' = asked
        /\ field \in DOMAIN builder /\ d \in Nat
    BY <1>7, HostAssumption DEF SetBandwidth, HostBuilder
  <2> QED  BY <2>1, SetField
<1> QED  BY <1>1, <1>2, <1>2a, <1>3, <1>4, <1>5, <1>6, <1>7, HostAssumption DEF SetDemuxCount, SetDemuxDuration

\* franzSecurity.build refuses for an option or for the adapter.
LEMMA BuildCodes ==
  ASSUME NEW c, NEW env
  PROVE  Build(c, env).code \in {0, errAdapter, errBadOption}
<1> DEFINE s == Collect(c)
<1>1. Client(s).code = 0
  BY DEF Client
<1>2. /\ Refused(errAdapter, TRUE).code = errAdapter /\ Refused(errAdapter, FALSE).code = errAdapter
      /\ Refused(errBadOption, FALSE).code = errBadOption
  BY DEF Refused
<1>3. Build(c, env) \in {Client(s), Refused(errAdapter, TRUE), Refused(errAdapter, FALSE),
                        Refused(errBadOption, FALSE)}
  <2>1. Fetch(s, env) \in {Client(s), Refused(errAdapter, TRUE), Refused(errAdapter, FALSE),
                           Refused(errBadOption, FALSE)}
    BY DEF Fetch
  <2> QED  BY <2>1 DEF Build
<1> HIDE DEF s
<1> QED  BY <1>1, <1>2, <1>3, Zenon

\* build() hands over what the builder holds.
LEMMA HostBuildKeeps == ASSUME DocInv, HostInv, BuildDocument PROVE HostInv'
<1>1. /\ stage = "builder" /\ stage' = "parse" /\ document' = ConfigJson(builder)
      /\ config' = KafkaConfig(builder) /\ code' = code /\ UNCHANGED <<builder, demux, asked>>
  BY DEF BuildDocument
<1>2. HostBuilder /\ code = 0
  BY <1>1 DEF HostInv, DocInv, Assembling
<1>3. HostBuilder'
  BY <1>1, <1>2 DEF HostBuilder, HostTexts, NatValued, AskedIn
<1>4. AskedIn(config)'
  BY <1>1, <1>2, DurationsNotTexts DEF HostBuilder, AskedIn, KafkaConfig
<1>5. ConfigJson(builder)' = ConfigJson(builder)
  BY <1>1
<1>6. HostDocument'
  BY <1>1, <1>2, <1>4, <1>5 DEF HostDocument, Checked, errInvalidJSON
<1> QED  BY <1>3, <1>6, <1>1 DEF HostInv

\* A step of the bridge does not touch the host's side.
LEMMA HostUntouched ==
  ASSUME UNCHANGED <<document, builder, demux, asked>>
  PROVE  /\ HostBuilder => HostBuilder'
         /\ document = ConfigJson(builder) => (document = ConfigJson(builder))'
         /\ BandwidthOk => BandwidthOk'
         /\ config' = config /\ AskedIn(config) => AskedIn(config)'
         /\ config' = config /\ adapter' = adapter /\ AskedOrPopped => AskedOrPopped'
<1>1. HostBuilder => HostBuilder'
  BY DEF HostBuilder, HostTexts, NatValued, AskedIn
<1>2. document = ConfigJson(builder) => (document = ConfigJson(builder))'
  <2>1. ConfigJson(builder)' = ConfigJson(builder)
    OBVIOUS
  <2> QED  BY <2>1
<1>3. BandwidthOk => BandwidthOk'
  BY DEF BandwidthOk
<1>4. config' = config /\ AskedIn(config) => AskedIn(config)'
  BY DEF AskedIn
<1>5. config' = config /\ adapter' = adapter /\ AskedOrPopped => AskedOrPopped'
  BY DEF AskedOrPopped
<1> QED  BY <1>1, <1>2, <1>3, <1>4, <1>5

\* A refusal, for whatever but malformed JSON.
LEMMA HostRefused ==
  ASSUME HostDocument, UNCHANGED <<document, builder, demux, asked>>, stage' = "refused",
         code' = errInvalidJSON => ~document.wellFormed
  PROVE  HostDocument'
  BY HostUntouched DEF HostDocument, Checked

\* Each step of the bridge keeps what was asked, in the map or popped from it.
LEMMA HostBridgeKeeps ==
  ASSUME HostDocument, HostBuilder, FetchedLast, Next, UNCHANGED <<builder, demux, asked>>
  PROVE  HostDocument'
<1> USE DEF errInvalidJSON
<1>1. CASE ParseBridgeConfig
  <2>1. CASE Refuse(ParseCode(document)) /\ ParseCode(document) # 0
    <3>1. ParseCode(document) = errInvalidJSON => ~document.wellFormed
      BY DEF ParseCode, errBadOption, errMissingConfig
    <3> HIDE DEF errInvalidJSON
    <3> QED  BY <2>1, <3>1, HostRefused DEF Refuse
  <2>2. CASE Proceed("drain") /\ UNCHANGED <<config, adapter, opts, fetched>>
    BY <1>1, <2>2, HostUntouched DEF ParseBridgeConfig, Proceed, HostDocument, Checked, FetchedLast
  <2> QED  BY <1>1, <2>1, <2>2 DEF ParseBridgeConfig
<1>2. CASE CheckRebalanceAboveDrain
  <2>1. CASE Refuse(errBadOption)
    BY <2>1, HostRefused DEF Refuse, errBadOption
  <2>2. CASE Proceed("bandwidth") /\ UNCHANGED <<config, adapter, opts, fetched>>
    BY <1>2, <2>2, HostUntouched DEF CheckRebalanceAboveDrain, Proceed, HostDocument, Checked, FetchedLast
  <2> QED  BY <1>2, <2>1, <2>2 DEF CheckRebalanceAboveDrain
<1>3. CASE ParseBandwidth
  <2>1. CASE Refuse(errBadOption)
    BY <2>1, HostRefused DEF Refuse, errBadOption
  <2>2. CASE BandwidthOk /\ Proceed("loglevel") /\ UNCHANGED <<config, adapter, opts, fetched>>
    BY <1>3, <2>2, HostUntouched DEF ParseBandwidth, Proceed, HostDocument, Checked, FetchedLast
  <2> QED  BY <1>3, <2>1, <2>2 DEF ParseBandwidth
<1>4. CASE PopClientLogLevel
  <2>1. CASE Refuse(errBadOption)
    BY <2>1, HostRefused DEF Refuse, errBadOption
  <2>2. CASE config' = Without(config, {LogLevelKey}) /\ Proceed("pollerrors")
    <3>1. LogLevelKey \notin DurationOptions
      BY DEF LogLevelKey, DurationOptions, PollErrorKeys, BailKey, LogIntervalKey, BackoffKey, RebalanceKey,
             FetchWaitKey
    <3>2. AskedIn(config)
      BY <1>4 DEF PopClientLogLevel, HostDocument
    <3>3. AskedIn(config)'
      BY <2>2, <3>1, <3>2 DEF AskedIn, Without
    <3> QED
      BY <1>4, <2>2, <3>3, HostUntouched DEF PopClientLogLevel, Proceed, HostDocument, Checked, FetchedLast
  <2>3. CASE Proceed("pollerrors") /\ UNCHANGED <<config, adapter, opts, fetched>>
    BY <1>4, <2>3, HostUntouched DEF PopClientLogLevel, Proceed, HostDocument, Checked, FetchedLast
  <2> QED  BY <1>4, <2>1, <2>2, <2>3 DEF PopClientLogLevel
<1>5. CASE PopPollErrorOptions
  <2> DEFINE given == PollErrorKeys \cap DOMAIN config
  <2>1. CASE Refuse(errBadOption)
    BY <2>1, HostRefused DEF Refuse, errBadOption
  <2>2. CASE /\ config' = Without(config, given)
             /\ adapter' = [k \in DOMAIN adapter \cup given |->
                              IF k \in given THEN Duration(config[k]) ELSE adapter[k]]
             /\ Proceed("options")
    <3>1. AskedIn(config)
      BY <1>5 DEF PopPollErrorOptions, HostDocument
    <3>2. AskedOrPopped'
      BY <2>2, <3>1 DEF AskedOrPopped, AskedIn, Without
    <3> QED
      BY <1>5, <2>2, <3>2, HostUntouched DEF PopPollErrorOptions, Proceed, HostDocument, Checked, FetchedLast
  <2> QED  BY <1>5, <2>1, <2>2 DEF PopPollErrorOptions
<1>6. ASSUME NEW env \in Environments, FranzKgoOpts(env) PROVE HostDocument'
  <2>1. CASE Refuse(errBadOption)
    BY <2>1, HostRefused DEF Refuse, errBadOption
  <2>2. CASE stage' = "refused" /\ code' = Build(config, env).code /\ document' = document
    <3>1. code' # errInvalidJSON
      BY <2>2, BuildCodes DEF errAdapter, errBadOption
    <3> QED  BY <2>2, <3>1, HostRefused
  <2>3. CASE Proceed("create") /\ UNCHANGED <<config, adapter>>
    BY <1>6, <2>3, HostUntouched DEF FranzKgoOpts, Proceed, HostDocument, Checked, FetchedLast
  <2> QED  BY <1>6, <2>1, <2>2, <2>3 DEF FranzKgoOpts
<1>7. ASSUME NEW dials \in BOOLEAN, NEW valid \in BOOLEAN, CreateConsumer(dials, valid)
      PROVE  HostDocument'
  <2>1. CASE Refuse(errAdapter) \/ Refuse(errBadOption)
    BY <2>1, HostRefused DEF Refuse, errAdapter, errBadOption
  <2>2. CASE Proceed("built") /\ UNCHANGED <<config, adapter, opts, fetched>>
    BY <1>7, <2>2, HostUntouched DEF CreateConsumer, Proceed, HostDocument, Checked, FetchedLast
  <2> QED  BY <1>7, <2>1, <2>2 DEF CreateConsumer
<1> QED  BY <1>1, <1>2, <1>3, <1>4, <1>5, <1>6, <1>7 DEF Next

\* What the invariants say of the values in effect.
LEMMA HostImplies == ASSUME DocInv, HostInv PROVE HostIsUnderstood
<1> SUFFICES ASSUME builder # Null, stage # "builder" PROVE HostIsUnderstood
  BY DEF HostIsUnderstood
<1>1. /\ HostBuilder /\ HostDocument /\ document = ConfigJson(builder)
      /\ \A text \in TextsOf(builder) : text \in Seq(Characters)
  BY BuilderTextsCross DEF HostInv, HostBuilder, HostDocument
<1>1a. TextsArrive
  <2>1. document.kafka = KafkaConfig(builder)
    BY <1>1 DEF ConfigJson
  <2> QED  BY <1>1, <2>1, BuilderTextsCross DEF HostBuilder, TextsArrive
<1>2. ASSUME code = errInvalidJSON
      PROVE  \E name \in DOMAIN builder.demux \cap DurationSettings : ~Fits(builder.demux[name])
  <2>1. ~ConfigJson(builder).wellFormed
    BY <1>1, <1>2 DEF HostDocument
  <2> QED  BY <1>1, <2>1, MalformedByDuration DEF HostBuilder
<1>3. ASSUME stage = "built"
      PROVE  IInv /\ AskedOrPopped /\ BandwidthOk /\ document = ConfigJson(builder)
  BY <1>1, <1>3 DEF DocInv, HostDocument, Checked
<1>4. ASSUME stage = "built", NEW k \in DOMAIN asked, Fits(asked[k]), ~LosesToAlias(builder.kafka, k)
      PROVE  Honours(IF k \in PollErrorKeys THEN adapter[k] ELSE opts[k], asked[k])
  <2>1. asked[k] \in Nat /\ k \in DurationOptions
    BY <1>1 DEF HostBuilder, AskedIn
  <2>2. CASE k \in PollErrorKeys
    BY <1>3, <1>4, <2>1, <2>2, AskedHonoured DEF AskedOrPopped
  <2>3. CASE k \notin PollErrorKeys
    <3>1. k \in MillisKeys /\ k \in TableKeys
      BY <2>1, <2>3 DEF DurationOptions, MillisKeys, TableKeys
    <3>2. k \in DOMAIN config /\ config[k] = DurationMsCeil(asked[k])
      BY <1>3, <1>4, <2>3 DEF AskedOrPopped
    <3>3. k \notin BoolKeys
      BY <3>1 DEF MillisKeys, BoolKeys, RebalanceKey, FetchWaitKey, FetchWaitAlias
    <3>4. ~LosesToAlias(config, k)
      <4>1. DOMAIN document.kafka = DOMAIN builder.kafka
        BY <1>1 DEF ConfigJson, KafkaConfig
      <4>2. DOMAIN config \subseteq DOMAIN document.kafka
        BY <1>3, <1>4 DEF IInv, KeysAccounted
      <4> QED  BY <1>4, <4>1, <4>2 DEF LosesToAlias
    <3>5. k \in InEffect(config)
      BY <3>1, <3>2, <3>3, <3>4 DEF InEffect, RestatesDefault
    <3>6. opts[k] = Duration(DurationMsCeil(asked[k]))
      BY <1>3, <1>4, <3>1, <3>2, <3>5 DEF IInv, OptionsTranslated, Translated
    <3> QED  BY <1>4, <2>1, <2>3, <3>6, AskedHonoured
  <2> QED  BY <2>2, <2>3
<1>5. ASSUME NEW name \in DOMAIN builder.demux \cap DurationSettings
      PROVE  Honours(document.demux[name], builder.demux[name])
  <2> DEFINE d == builder.demux[name]
  <2>1. d \in Nat
    BY <1>1 DEF HostBuilder, NatValued
  <2>2. document.demux = DemuxRead(DemuxJson(builder))
    BY <1>1 DEF ConfigJson
  <2>3. document.demux[name] = DurationMsCeil(d) * Millisecond
    BY <2>2 DEF DemuxRead, DemuxJson
  <2> HIDE DEF d
  <2>4. Honours(document.demux[name], d)
    BY <2>1, <2>3, CeilBounds DEF Honours
  <2> QED  BY <2>4 DEF d
<1>6. ASSUME stage = "built", NEW field \in {"bandwidth_stats_interval", "bandwidth_flush_interval"},
             builder[field] # Null, BandwidthField(builder, field) > 0
      PROVE  Honours(BandwidthField(builder, field), builder[field])
  <2>1. builder[field] \in Nat
    BY <1>1, <1>6 DEF HostBuilder
  <2>2. BandwidthField(builder, field) = DurationMsCeil(builder[field]) * Millisecond
    BY <1>6 DEF BandwidthField, NotANumber
  <2> QED  BY <2>1, <2>2, CeilBounds DEF Honours
<1>7. ASSUME stage = "built", builder.bandwidth_stats_interval # Null
      PROVE  Honours(document.stats, builder.bandwidth_stats_interval)
  <2>1. document.stats = BandwidthField(builder, "bandwidth_stats_interval")
    BY <1>3, <1>7 DEF ConfigJson
  <2>2. document.stats \in Int /\ document.stats # Absent
    <3>1. builder.bandwidth_stats_interval \in Nat
      BY <1>1, <1>7 DEF HostBuilder
    <3> QED  BY <1>7, <2>1, <3>1, CeilBounds DEF BandwidthField, NotANumber, Absent
  <2>3. document.stats > 0
    BY <1>3, <1>7, <2>2, DurationsAssumption DEF BandwidthOk
  <2> QED  BY <1>6, <1>7, <2>1, <2>3
<1>8. ASSUME stage = "built", builder.bandwidth_flush_interval # Null
      PROVE  Honours(document.flush, builder.bandwidth_flush_interval)
  <2>1. document.flush = BandwidthField(builder, "bandwidth_flush_interval")
    BY <1>3, <1>8 DEF ConfigJson
  <2>2. document.flush # Absent
    <3>1. builder.bandwidth_flush_interval \in Nat
      BY <1>1, <1>8 DEF HostBuilder
    <3> QED  BY <1>8, <2>1, <3>1, CeilBounds DEF BandwidthField, NotANumber, Absent
  <2>3. document.flush > 0
    BY <1>3, <1>8, <2>2 DEF BandwidthOk
  <2> QED  BY <1>6, <1>8, <2>1, <2>3
<1>9. stage = "built" => DurationsHonoured
  BY <1>4, <1>5, <1>7, <1>8 DEF DurationsHonoured
<1> QED  BY <1>1a, <1>2, <1>9 DEF HostIsUnderstood

\* Whatever texts, pairs and Durations a host gives, in whatever order and for
\* every width and unit of time: the bridge reads each text as it was given,
\* the document is malformed only for a Duration Go cannot hold, and in an
\* engine that was built each Duration is in effect, rounded up by less than a
\* millisecond, but for a fetch wait that a pair under its alias replaces
\* (config_json, the pop functions and the option table, together).
THEOREM HostUnderstood == DocSpec => []HostIsUnderstood
<1>1. DocInv /\ HostInv /\ [DocNext]_docVars => HostInv'
  <2> SUFFICES ASSUME DocInv, HostInv, [DocNext]_docVars PROVE HostInv'
    OBVIOUS
  <2>1. CASE Bridge(Next)
    <3>1. stage # "builder" /\ stage' # "builder"
      BY <2>1 DEF Bridge, Next, ParseBridgeConfig, CheckRebalanceAboveDrain, ParseBandwidth,
             PopClientLogLevel, PopPollErrorOptions, FranzKgoOpts, CreateConsumer, Refuse, Proceed
    <3>2. UNCHANGED <<builder, demux, asked>> /\ Next
      BY <2>1 DEF Bridge
    <3>3. HostBuilder => HostBuilder'
      BY <3>2 DEF HostBuilder, HostTexts, NatValued, AskedIn
    <3>4. FetchedLast
      BY <3>1 DEF DocInv, IInv
    <3> QED  BY <3>1, <3>2, <3>3, <3>4, HostBridgeKeeps DEF HostInv
  <2>2. CASE UNCHANGED docVars
    <3>1. UNCHANGED <<document, builder, demux, asked>> /\ UNCHANGED <<stage, config, adapter, code>>
      BY <2>2 DEF docVars, vars
    <3> QED  BY <3>1, HostUntouched DEF HostInv, HostDocument
  <2>3. CASE BuildDocument
    BY <2>3, HostBuildKeeps
  <2>4. CASE stage = "builder" /\ UNCHANGED vars /\ DocNext /\ ~Bridge(Next) /\ ~BuildDocument
    <3>1. HostBuilder'
      BY <2>4, HostSettersKeep DEF HostInv, DocNext
    <3> QED  BY <2>4, <3>1 DEF HostInv, vars
  <2>5. DocNext => Bridge(Next) \/ BuildDocument \/ (stage = "builder" /\ UNCHANGED vars)
    BY DEF DocNext, SetRequired, SetOption, KafkaOption, SetDurationOption, SetDemuxCount, SetDemuxDuration,
           Demux, SetService, SetBandwidth, Setting
  <2> QED  BY <2>1, <2>2, <2>3, <2>4, <2>5
<1> QED  BY <1>1, DocInitInvariant, HostInitInvariant, DocNextPreserves, HostImplies, PTL DEF DocSpec


-----------------------------------------------------------------------------
(***************************************************************************)
(* Induction.  A set of naturals with 0 and the successor of each of its   *)
(* elements is Nat: the smallest natural outside it would have a           *)
(* predecessor inside.                                                     *)
(***************************************************************************)
LEMMA SmallestOf ==
  ASSUME NEW T, T \subseteq Nat, T # {}
  PROVE  \E x \in T : \A y \in T : x <= y
<1> DEFINE R == OpToRel(<, Nat)
<1>1. IsWellFoundedOn(R, Nat)
  BY NatLessThanWellFounded
<1>2. \A i, j \in Nat : i < j => <<i, j>> \in R
  BY DEF OpToRel
<1> HIDE DEF R
<1>3. PICK x \in T : \A y \in T : ~(<<y, x>> \in R)
  BY <1>1, WFMin
<1>4. \A y \in T : ~(y < x) /\ y \in Nat /\ x \in Nat
  BY <1>2, <1>3
<1> QED  BY <1>3, <1>4

LEMMA Induction ==
  ASSUME NEW S, S \subseteq Nat, 0 \in S, \A n \in S : n + 1 \in S
  PROVE  \A n \in Nat : n \in S
<1> SUFFICES ASSUME Nat \ S # {} PROVE FALSE
  OBVIOUS
<1>1. PICK x \in Nat \ S : \A y \in Nat \ S : x <= y
  BY SmallestOf
<1>2. x - 1 \in S
  BY <1>1
<1> QED  BY <1>1, <1>2

-----------------------------------------------------------------------------
(* The last write wins *)

\* f holds what deduped_kafka_config has after each of the first N pairs.
IsRounds(f, pairs, N) ==
  f = [n \in 0..N |-> IF n = 0 THEN <<>> ELSE Put(f[n - 1], pairs[n])]

\* The loop of deduped_kafka_config runs over every list of pairs.
LEMMA RoundsExist == ASSUME NEW pairs, NEW N \in Nat PROVE \E f : IsRounds(f, pairs, N)
<1> DEFINE S == {M \in Nat : \E f : IsRounds(f, pairs, M)}
<1>1. 0 \in S
  <2>1. IsRounds([n \in 0..0 |-> <<>>], pairs, 0)
    BY DEF IsRounds
  <2> QED  BY <2>1
<1>2. ASSUME NEW M \in S PROVE M + 1 \in S
  <2>1. PICK f : IsRounds(f, pairs, M)
    OBVIOUS
  <2> DEFINE g == [n \in 0..(M + 1) |-> IF n = M + 1 THEN Put(f[M], pairs[M + 1]) ELSE f[n]]
  <2>2. ASSUME NEW n \in 0..(M + 1)
        PROVE  g[n] = IF n = 0 THEN <<>> ELSE Put(g[n - 1], pairs[n])
    BY <2>1 DEF IsRounds
  <2>3. IsRounds(g, pairs, M + 1)
    BY <2>2 DEF IsRounds
  <2> QED  BY <2>3
<1>3. \A M \in Nat : M \in S
  <2> HIDE DEF S
  <2> QED  BY <1>1, <1>2, Induction DEF S
<1> QED  BY <1>3

\* What the map m holds after the first n pairs: their keys and nothing else,
\* each with a value that was written for it and not written over.
HoldsLast(m, pairs, n) ==
  /\ DOMAIN m = {pairs[i][1] : i \in 1..n}
  /\ \A i \in 1..n :
       \/ m[pairs[i][1]] = pairs[i][2]
       \/ \E j \in (i + 1)..n : pairs[j][1] = pairs[i][1]
  /\ \A k \in DOMAIN m : \E i \in 1..n : pairs[i][1] = k /\ pairs[i][2] = m[k]

\* One more pair.
LEMMA PutHolds ==
  ASSUME NEW m, NEW pairs, NEW n \in Nat, HoldsLast(m, pairs, n)
  PROVE  HoldsLast(Put(m, pairs[n + 1]), pairs, n + 1)
<1> DEFINE q == Put(m, pairs[n + 1])
<1>1. DOMAIN q = DOMAIN m \cup {pairs[n + 1][1]}
  BY DEF Put
<1>2. DOMAIN q = {pairs[i][1] : i \in 1..(n + 1)}
  BY <1>1 DEF HoldsLast
<1>3. ASSUME NEW i \in 1..(n + 1)
      PROVE  \/ q[pairs[i][1]] = pairs[i][2]
             \/ \E j \in (i + 1)..(n + 1) : pairs[j][1] = pairs[i][1]
  <2>1. CASE i = n + 1
    BY <2>1 DEF Put
  <2>2. CASE i # n + 1 /\ pairs[i][1] = pairs[n + 1][1]
    BY <2>2
  <2>3. CASE i # n + 1 /\ pairs[i][1] # pairs[n + 1][1]
    <3>1. i \in 1..n /\ pairs[i][1] \in DOMAIN m
      BY <2>3 DEF HoldsLast
    <3>2. q[pairs[i][1]] = m[pairs[i][1]]
      BY <2>3, <3>1 DEF Put
    <3> QED  BY <3>1, <3>2 DEF HoldsLast
  <2> QED  BY <2>1, <2>2, <2>3
<1>4. ASSUME NEW k \in DOMAIN q PROVE \E i \in 1..(n + 1) : pairs[i][1] = k /\ pairs[i][2] = q[k]
  <2>1. CASE k = pairs[n + 1][1]
    BY <2>1 DEF Put
  <2>2. CASE k # pairs[n + 1][1]
    <3>1. k \in DOMAIN m /\ q[k] = m[k]
      BY <2>2, <1>1 DEF Put
    <3> QED  BY <3>1 DEF HoldsLast
  <2> QED  BY <2>1, <2>2
<1> HIDE DEF q
<1>5. HoldsLast(q, pairs, n + 1)
  BY <1>2, <1>3, <1>4 DEF HoldsLast
<1> QED  BY <1>5 DEF q

\* deduped_kafka_config keeps, of every list of pairs, the last value of each
\* key.
LEMMA DedupedHoldsLast ==
  ASSUME NEW pairs, Len(pairs) \in Nat
  PROVE  HoldsLast(Deduped(pairs), pairs, Len(pairs))
<1> DEFINE rounds == CHOOSE f : IsRounds(f, pairs, Len(pairs))
<1>1. IsRounds(rounds, pairs, Len(pairs))
  BY RoundsExist
<1>2. Deduped(pairs) = rounds[Len(pairs)]
  BY DEF Deduped, IsRounds
<1> HIDE DEF rounds
<1> DEFINE S == {n \in Nat : n <= Len(pairs) => HoldsLast(rounds[n], pairs, n)}
<1>3. 0 \in S
  <2>1. rounds[0] = <<>>
    BY <1>1 DEF IsRounds
  <2> QED  BY <2>1 DEF HoldsLast
<1>4. ASSUME NEW n \in S PROVE n + 1 \in S
  <2> SUFFICES ASSUME n + 1 <= Len(pairs) PROVE HoldsLast(rounds[n + 1], pairs, n + 1)
    OBVIOUS
  <2>1. rounds[n + 1] = Put(rounds[n], pairs[n + 1])
    BY <1>1 DEF IsRounds
  <2> QED  BY <2>1, PutHolds
<1>5. \A n \in Nat : n \in S
  <2> HIDE DEF S
  <2> QED  BY <1>3, <1>4, Induction DEF S
<1> QED  BY <1>2, <1>5

-----------------------------------------------------------------------------
(* Sequences of pairs *)

\* The elements of a concatenation, by position.
LEMMA ConcatAt ==
  ASSUME NEW T, NEW s \in Seq(T), NEW t \in Seq(T)
  PROVE  /\ s \o t \in Seq(T)
         /\ Len(s \o t) = Len(s) + Len(t)
         /\ \A i \in 1..Len(s) : (s \o t)[i] = s[i]
         /\ \A i \in 1..Len(t) : (s \o t)[Len(s) + i] = t[i]
         /\ \A i \in 1..Len(s \o t) : i \in 1..Len(s) \/ i - Len(s) \in 1..Len(t)
OBVIOUS

\* The elements of a concatenation are those of its parts.
LEMMA ConcatSet ==
  ASSUME NEW T, NEW s \in Seq(T), NEW t \in Seq(T)
  PROVE  ToSet(s \o t) = ToSet(s) \cup ToSet(t)
<1>1. ASSUME NEW x \in ToSet(s \o t) PROVE x \in ToSet(s) \cup ToSet(t)
  <2>1. PICK i \in 1..Len(s \o t) : x = (s \o t)[i]
    BY ConcatAt DEF ToSet
  <2>2. CASE i \in 1..Len(s)
    BY <2>1, <2>2, ConcatAt DEF ToSet
  <2>3. CASE i - Len(s) \in 1..Len(t)
    BY <2>1, <2>3, ConcatAt DEF ToSet
  <2> QED  BY <2>1, <2>2, <2>3, ConcatAt
<1>2. ASSUME NEW x \in ToSet(s) PROVE x \in ToSet(s \o t)
  <2>1. PICK i \in 1..Len(s) : x = s[i]
    BY DEF ToSet
  <2>2. i \in DOMAIN (s \o t) /\ (s \o t)[i] = x
    BY <2>1, ConcatAt
  <2> QED  BY <2>2 DEF ToSet
<1>3. ASSUME NEW x \in ToSet(t) PROVE x \in ToSet(s \o t)
  <2>1. PICK i \in 1..Len(t) : x = t[i]
    BY DEF ToSet
  <2>2. Len(s) + i \in 1..Len(s \o t) /\ (s \o t)[Len(s) + i] = x
    BY <2>1, ConcatAt
  <2>3. Len(s) + i \in DOMAIN (s \o t)
    BY <2>1, ConcatAt
  <2> QED  BY <2>2, <2>3 DEF ToSet
<1> QED  BY <1>1, <1>2, <1>3

\* A list of pairs is in Seq(T) when each of its pairs is in T.
LEMMA OneInSeq == ASSUME NEW T, NEW a \in T PROVE <<a>> \in Seq(T) /\ ToSet(<<a>>) = {a}
BY DEF ToSet

LEMMA EmptyToSet == ToSet(<<>>) = {}
BY DEF ToSet

\* Short lists, element by element.
LEMMA ShortInSeq ==
  ASSUME NEW T, NEW a \in T, NEW b \in T, NEW c \in T, NEW d \in T
  PROVE  /\ <<a, b>> \in Seq(T) /\ ToSet(<<a, b>>) = {a, b}
         /\ <<a, b, c>> \in Seq(T) /\ ToSet(<<a, b, c>>) = {a, b, c}
         /\ <<a, b, c, d>> \in Seq(T) /\ ToSet(<<a, b, c, d>>) = {a, b, c, d}
BY DEF ToSet

-----------------------------------------------------------------------------
(* What the typed setters push *)

\* The pairs of the tls_* and disable_* setters.
SslPairs ==
  {<<"ssl.ca.location", "set">>, <<"ssl.ca.pem", "set">>,
   <<"ssl.certificate.location", "set">>, <<"ssl.key.location", "set">>,
   <<"ssl.certificate.pem", "set">>, <<"ssl.key.pem", "set">>,
   <<"enable.ssl.certificate.verification", "false">>,
   <<"ssl.endpoint.identification.algorithm", "none">>}

\* The pairs of the sasl_* setters and their refinements.
SaslPairs ==
  {<<"sasl.mechanism", m>> : m \in Mechanisms} \cup {<<k, "set">> : k \in CredentialKeys}
    \cup {<<"sasl.oauthbearer.method", "gcp">>}

ProtocolPairs == {<<"security.protocol", p>> : p \in {"ssl", "sasl_ssl", "sasl_plaintext"}}

\* Every pair there may be: the host's and the typed ones.
AllPairs == StringPairs \cup SslPairs \cup SaslPairs \cup ProtocolPairs

\* The Options of a mechanism.
Optional ==
  [k \in {"none", "UserPass", "AwsMskIam", "OauthbearerOidc", "GcpIam"} |->
     CASE k = "AwsMskIam"       -> AwsKeys
       [] k = "OauthbearerOidc" -> {"sasl.oauthbearer.scope", "sasl.oauthbearer.extensions"}
       [] k = "GcpIam"          -> GcpKeys
       [] OTHER                 -> {}]

\* All of a certificate and its key, or neither.
Paired(pairs) ==
  /\ <<"ssl.certificate.location", "set">> \in pairs <=> <<"ssl.key.location", "set">> \in pairs
  /\ <<"ssl.certificate.pem", "set">> \in pairs <=> <<"ssl.key.pem", "set">> \in pairs

\* A mechanism as a setter chose it, refined since.
Chosen(choice) ==
  /\ sasl.kind = choice.kind
  /\ sasl.keys = choice.keys
  /\ choice.forcesTls => tls

SaslTyped ==
  /\ sasl = [kind |-> sasl.kind, keys |-> sasl.keys, options |-> sasl.options]
  /\ sasl # NoSasl => \E choice \in SaslSetters : Chosen(choice)
  /\ sasl.kind \in DOMAIN Optional
  /\ sasl.options \subseteq Optional[sasl.kind]
  /\ "aws.role.session.name" \in sasl.options => "aws.role.arn" \in sasl.options

SslTyped ==
  /\ tls \in BOOLEAN
  /\ sslEntries \in Seq(SslPairs)
  /\ sslEntries # <<>> => tls
  /\ Paired(ToSet(sslEntries))

OptionsTyped ==
  /\ entries \in Seq(AllPairs)
  /\ kafkaConfig \in Seq(AllPairs)
  /\ SaslTyped
  /\ SslTyped

LEMMA TypedIsAll ==
  /\ \A p \in AllPairs : p = <<p[1], p[2]>>
  /\ \A s \in Seq(SslPairs) : s \in Seq(AllPairs)
  /\ \A s \in Seq(SaslPairs) : s \in Seq(AllPairs)
  /\ \A s \in Seq(StringPairs) : s \in Seq(AllPairs)
<1>1. ASSUME NEW T, T \subseteq AllPairs, NEW s \in Seq(T) PROVE s \in Seq(AllPairs)
  BY <1>1
<1>2. SslPairs \subseteq AllPairs /\ SaslPairs \subseteq AllPairs /\ StringPairs \subseteq AllPairs
  BY DEF AllPairs
<1>3. \A p \in SslPairs : p = <<p[1], p[2]>>
  BY DEF SslPairs
<1>4. \A p \in SaslPairs : p = <<p[1], p[2]>>
  BY DEF SaslPairs
<1>5. \A p \in ProtocolPairs : p = <<p[1], p[2]>>
  BY DEF ProtocolPairs
<1>6. \A p \in StringPairs : p = <<p[1], p[2]>>
  BY DEF StringPairs
<1> QED  BY <1>1, <1>2, <1>3, <1>4, <1>5, <1>6 DEF AllPairs

LEMMA TypedSslPushes ==
  ASSUME NEW pairs \in TypedSsl
  PROVE  pairs \in Seq(SslPairs) /\ Paired(ToSet(pairs))
<1> DEFINE P(k) == <<k, "set">>
<1>1. /\ P("ssl.ca.location") \in SslPairs /\ P("ssl.ca.pem") \in SslPairs
      /\ P("ssl.certificate.location") \in SslPairs /\ P("ssl.key.location") \in SslPairs
      /\ P("ssl.certificate.pem") \in SslPairs /\ P("ssl.key.pem") \in SslPairs
      /\ <<"enable.ssl.certificate.verification", "false">> \in SslPairs
      /\ <<"ssl.endpoint.identification.algorithm", "none">> \in SslPairs
  BY DEF SslPairs
<1>2. \/ \E a \in SslPairs \ {P("ssl.certificate.location"), P("ssl.key.location"),
                              P("ssl.certificate.pem"), P("ssl.key.pem")} : pairs = <<a>>
      \/ pairs = <<P("ssl.certificate.location"), P("ssl.key.location")>>
      \/ pairs = <<P("ssl.certificate.pem"), P("ssl.key.pem")>>
  BY <1>1 DEF TypedSsl
<1>3. CASE \E a \in SslPairs \ {P("ssl.certificate.location"), P("ssl.key.location"),
                              P("ssl.certificate.pem"), P("ssl.key.pem")} : pairs = <<a>>
  <2>1. PICK a \in SslPairs \ {P("ssl.certificate.location"), P("ssl.key.location"),
                              P("ssl.certificate.pem"), P("ssl.key.pem")} : pairs = <<a>>
    BY <1>3
  <2>2. pairs \in Seq(SslPairs) /\ ToSet(pairs) = {a}
    BY <2>1, OneInSeq
  <2> QED  BY <2>1, <2>2 DEF Paired
<1>4. CASE pairs = <<P("ssl.certificate.location"), P("ssl.key.location")>>
  <2>1. pairs \in Seq(SslPairs)
        /\ ToSet(pairs) = {P("ssl.certificate.location"), P("ssl.key.location")}
    BY <1>1, <1>4, ShortInSeq
  <2> QED  BY <2>1 DEF Paired
<1>5. CASE pairs = <<P("ssl.certificate.pem"), P("ssl.key.pem")>>
  <2>1. pairs \in Seq(SslPairs) /\ ToSet(pairs) = {P("ssl.certificate.pem"), P("ssl.key.pem")}
    BY <1>1, <1>5, ShortInSeq
  <2> QED  BY <2>1 DEF Paired
<1> QED  BY <1>2, <1>3, <1>4, <1>5

\* The keys of each sasl_* setter.
LEMMA SaslSetterKeys ==
  ASSUME NEW choice \in SaslSetters
  PROVE  /\ choice.keys \in Seq(SaslPairs)
         /\ choice.kind \in DOMAIN Optional \ {"none"}
<1> DEFINE P(k) == <<k, "set">>
<1>1. /\ \A m \in Mechanisms : <<"sasl.mechanism", m>> \in SaslPairs
      /\ \A k \in CredentialKeys : P(k) \in SaslPairs
      /\ <<"sasl.oauthbearer.method", "gcp">> \in SaslPairs
  BY DEF SaslPairs
<1>2. Passwords \subseteq Mechanisms /\ "AWS_MSK_IAM" \in Mechanisms /\ "OAUTHBEARER" \in Mechanisms
  BY DEF Mechanisms
<1>3. /\ {"sasl.username", "sasl.password"} \subseteq CredentialKeys
      /\ {"sasl.oauthbearer.token.endpoint.url", "sasl.oauthbearer.client.id",
          "sasl.oauthbearer.client.secret"} \subseteq CredentialKeys
  BY DEF CredentialKeys, UserKeys, OauthKeys, OidcKeys
<1>4. DOMAIN Optional = {"none", "UserPass", "AwsMskIam", "OauthbearerOidc", "GcpIam"}
  BY DEF Optional
<1> HIDE DEF P
<1>5. CASE \E m \in Passwords :
             choice = [kind |-> "UserPass", forcesTls |-> FALSE,
                       keys |-> << <<"sasl.mechanism", m>>, P("sasl.username"), P("sasl.password") >>]
  <2>1. PICK m \in Passwords :
             choice = [kind |-> "UserPass", forcesTls |-> FALSE,
                       keys |-> << <<"sasl.mechanism", m>>, P("sasl.username"), P("sasl.password") >>]
    BY <1>5
  <2>2. <<"sasl.mechanism", m>> \in SaslPairs
    BY <1>1, <1>2
  <2>3. P("sasl.username") \in SaslPairs /\ P("sasl.password") \in SaslPairs
    BY <1>1, <1>3
  <2>4. << <<"sasl.mechanism", m>>, P("sasl.username"), P("sasl.password") >> \in Seq(SaslPairs)
    BY <2>2, <2>3, ShortInSeq
  <2> QED  BY <2>1, <2>4, <1>4
<1>6. CASE choice = [kind |-> "AwsMskIam", forcesTls |-> TRUE,
                     keys |-> << <<"sasl.mechanism", "AWS_MSK_IAM">> >>]
  <2>1. << <<"sasl.mechanism", "AWS_MSK_IAM">> >> \in Seq(SaslPairs)
    BY <1>1, <1>2, OneInSeq
  <2> QED  BY <1>6, <2>1, <1>4
<1>7. CASE choice = [kind |-> "OauthbearerOidc", forcesTls |-> FALSE,
                     keys |-> << <<"sasl.mechanism", "OAUTHBEARER">>,
                                 P("sasl.oauthbearer.token.endpoint.url"),
                                 P("sasl.oauthbearer.client.id"),
                                 P("sasl.oauthbearer.client.secret") >>]
  <2>1. /\ <<"sasl.mechanism", "OAUTHBEARER">> \in SaslPairs
        /\ P("sasl.oauthbearer.token.endpoint.url") \in SaslPairs
        /\ P("sasl.oauthbearer.client.id") \in SaslPairs
        /\ P("sasl.oauthbearer.client.secret") \in SaslPairs
    BY <1>1, <1>2, <1>3
  <2>2. << <<"sasl.mechanism", "OAUTHBEARER">>, P("sasl.oauthbearer.token.endpoint.url"),
           P("sasl.oauthbearer.client.id"), P("sasl.oauthbearer.client.secret") >> \in Seq(SaslPairs)
    BY <2>1, ShortInSeq
  <2> QED  BY <1>7, <2>2, <1>4
<1>8. CASE choice = [kind |-> "GcpIam", forcesTls |-> TRUE,
                     keys |-> << <<"sasl.mechanism", "OAUTHBEARER">>,
                                 <<"sasl.oauthbearer.method", "gcp">> >>]
  <2>1. << <<"sasl.mechanism", "OAUTHBEARER">>, <<"sasl.oauthbearer.method", "gcp">> >>
          \in Seq(SaslPairs)
    BY <1>1, <1>2, ShortInSeq
  <2> QED  BY <1>8, <2>1, <1>4
<1> QED  BY <1>5, <1>6, <1>7, <1>8 DEF SaslSetters, P

\* The mechanism's keys are sequences of pairs; nothing is without a mechanism.
LEMMA SaslKeysTyped ==
  ASSUME SaslTyped
  PROVE  sasl.keys \in Seq(SaslPairs)
<1>1. CASE sasl = NoSasl
  BY <1>1 DEF NoSasl
<1>2. CASE sasl # NoSasl
  BY <1>2, SaslSetterKeys DEF SaslTyped, Chosen
<1> QED  BY <1>1, <1>2

\* The Options that may be Some.
Optionals == AwsKeys \cup {"sasl.oauthbearer.scope", "sasl.oauthbearer.extensions"} \cup GcpKeys

LEMMA OptionalKeys ==
  /\ \A k \in DOMAIN Optional : Optional[k] \subseteq Optionals
  /\ Optionals \subseteq CredentialKeys
  /\ Optionals = {"aws.region", "aws.profile", "aws.role.arn", "aws.role.session.name",
                  "sasl.oauthbearer.scope", "sasl.oauthbearer.extensions",
                  "gcp.principal", "gcp.credentials.file"}
<1>1. ASSUME NEW k \in DOMAIN Optional PROVE Optional[k] \subseteq Optionals
  BY DEF Optional, Optionals
<1>2. Optionals \subseteq CredentialKeys
  BY DEF Optionals, CredentialKeys, OauthKeys, OidcKeys
<1>3. Optionals = {"aws.region", "aws.profile", "aws.role.arn", "aws.role.session.name",
                  "sasl.oauthbearer.scope", "sasl.oauthbearer.extensions",
                  "gcp.principal", "gcp.credentials.file"}
  BY DEF Optionals, AwsKeys, GcpKeys
<1> QED  BY <1>1, <1>2, <1>3

\* One Option: its pair, or nothing.
LEMMA IfSomePairs ==
  ASSUME NEW key \in CredentialKeys
  PROVE  /\ IfSome(key) \in Seq(SaslPairs)
         /\ ToSet(IfSome(key)) = {<<k, "set">> : k \in sasl.options \cap {key}}
<1>1. CASE key \in sasl.options
  <2>1. <<key, "set">> \in SaslPairs
    BY DEF SaslPairs
  <2>2. IfSome(key) = << <<key, "set">> >>
    BY <1>1 DEF IfSome
  <2>3. IfSome(key) \in Seq(SaslPairs) /\ ToSet(IfSome(key)) = {<<key, "set">>}
    BY <2>1, <2>2, OneInSeq
  <2> QED  BY <1>1, <2>3
<1>2. CASE key \notin sasl.options
  <2>1. IfSome(key) = <<>>
    BY <1>2 DEF IfSome
  <2>2. ToSet(<<>>) = {}
    BY DEF ToSet
  <2> QED  BY <1>2, <2>1, <2>2
<1> QED  BY <1>1, <1>2

\* What SaslEntries holds: the mechanism's keys and the Options that are Some.
LEMMA SaslEntriesHold ==
  ASSUME SaslTyped
  PROVE  /\ SaslEntries \in Seq(SaslPairs)
         /\ ToSet(SaslEntries) = ToSet(sasl.keys) \cup {<<k, "set">> : k \in sasl.options}
<1> DEFINE O(k) == {<<j, "set">> : j \in sasl.options \cap {k}}
<1> DEFINE a == sasl.keys
           b == a \o IfSome("aws.region")
           c == b \o IfSome("aws.profile")
           d == c \o IfSome("aws.role.arn")
           e == d \o IfSome("aws.role.session.name")
           f == e \o IfSome("sasl.oauthbearer.scope")
           g == f \o IfSome("sasl.oauthbearer.extensions")
           h == g \o IfSome("gcp.principal")
           i == h \o IfSome("gcp.credentials.file")
<1>1. a \in Seq(SaslPairs)
  BY SaslKeysTyped
<1>2. ASSUME NEW s \in Seq(SaslPairs), NEW k \in Optionals
      PROVE  /\ s \o IfSome(k) \in Seq(SaslPairs)
             /\ ToSet(s \o IfSome(k)) = ToSet(s) \cup O(k)
  <2>1. IfSome(k) \in Seq(SaslPairs) /\ ToSet(IfSome(k)) = O(k)
    BY OptionalKeys, IfSomePairs
  <2> HIDE DEF O
  <2> QED  BY <2>1, ConcatSet, ConcatAt
<1>3. SaslEntries = i
  BY DEF SaslEntries
<1> HIDE DEF O, a
<1>4. b \in Seq(SaslPairs) /\ ToSet(b) = ToSet(a) \cup O("aws.region")
  BY <1>1, <1>2, OptionalKeys
<1> HIDE DEF b
<1>5. c \in Seq(SaslPairs) /\ ToSet(c) = ToSet(b) \cup O("aws.profile")
  BY <1>4, <1>2, OptionalKeys
<1> HIDE DEF c
<1>6. d \in Seq(SaslPairs) /\ ToSet(d) = ToSet(c) \cup O("aws.role.arn")
  BY <1>5, <1>2, OptionalKeys
<1> HIDE DEF d
<1>7. e \in Seq(SaslPairs) /\ ToSet(e) = ToSet(d) \cup O("aws.role.session.name")
  BY <1>6, <1>2, OptionalKeys
<1> HIDE DEF e
<1>8. f \in Seq(SaslPairs) /\ ToSet(f) = ToSet(e) \cup O("sasl.oauthbearer.scope")
  BY <1>7, <1>2, OptionalKeys
<1> HIDE DEF f
<1>9. g \in Seq(SaslPairs) /\ ToSet(g) = ToSet(f) \cup O("sasl.oauthbearer.extensions")
  BY <1>8, <1>2, OptionalKeys
<1> HIDE DEF g
<1>10. h \in Seq(SaslPairs) /\ ToSet(h) = ToSet(g) \cup O("gcp.principal")
  BY <1>9, <1>2, OptionalKeys
<1> HIDE DEF h
<1>11. i \in Seq(SaslPairs) /\ ToSet(i) = ToSet(h) \cup O("gcp.credentials.file")
  BY <1>10, <1>2, OptionalKeys
<1> HIDE DEF i
<1>12. ToSet(i) = ToSet(a) \cup O("aws.region") \cup O("aws.profile") \cup O("aws.role.arn")
                  \cup O("aws.role.session.name") \cup O("sasl.oauthbearer.scope")
                  \cup O("sasl.oauthbearer.extensions") \cup O("gcp.principal")
                  \cup O("gcp.credentials.file")
  BY <1>4, <1>5, <1>6, <1>7, <1>8, <1>9, <1>10, <1>11
<1>13. sasl.options \subseteq Optionals
  BY OptionalKeys DEF SaslTyped
<1>14. {<<k, "set">> : k \in sasl.options} =
         O("aws.region") \cup O("aws.profile") \cup O("aws.role.arn")
                  \cup O("aws.role.session.name") \cup O("sasl.oauthbearer.scope")
                  \cup O("sasl.oauthbearer.extensions") \cup O("gcp.principal")
                  \cup O("gcp.credentials.file")
  BY <1>13, OptionalKeys DEF O
<1>15. ToSet(i) = ToSet(a) \cup {<<k, "set">> : k \in sasl.options}
  BY <1>12, <1>14
<1> QED  BY <1>3, <1>11, <1>15 DEF a

-----------------------------------------------------------------------------
(* The setters keep the Options well formed *)

LEMMA OptionsInitTyped == ClientInit => OptionsTyped
<1> SUFFICES ASSUME ClientInit PROVE OptionsTyped
  OBVIOUS
<1>1. "none" \in DOMAIN Optional /\ Optional["none"] = {}
  BY DEF Optional
<1>2. sasl.kind = "none" /\ sasl.options = {}
  BY DEF ClientInit, NoSasl
<1>3. SaslTyped
  BY <1>1, <1>2 DEF ClientInit, NoSasl, SaslTyped
<1>4. ToSet(sslEntries) = {}
  BY DEF ClientInit, ToSet
<1>5. tls \in BOOLEAN
  BY Zenon DEF ClientInit
<1>6. SslTyped
  BY <1>4, <1>5 DEF ClientInit, SslTyped, Paired
<1> QED  BY <1>3, <1>6 DEF ClientInit, OptionsTyped

LEMMA KafkaOptionsKeeps ==
  ASSUME OptionsTyped, NEW pairs \in Seq(StringPairs), KafkaOptions(pairs)
  PROVE  OptionsTyped'
<1>1. pairs \in Seq(AllPairs)
  BY TypedIsAll
<1>2. entries' \in Seq(AllPairs)
  BY <1>1, ConcatAt DEF OptionsTyped, KafkaOptions
<1>3. UNCHANGED <<tls, sslEntries, sasl, kafkaConfig>>
  BY DEF KafkaOptions, Call, brokerVars
<1> QED
  BY <1>2, <1>3 DEF OptionsTyped, SaslTyped, SslTyped, Chosen

LEMMA TlsKeeps == ASSUME OptionsTyped, Tls PROVE OptionsTyped'
<1>1. UNCHANGED <<entries, sslEntries, sasl, kafkaConfig>> /\ tls'
  BY DEF Tls, Call, brokerVars
<1>2. SaslTyped'
  BY <1>1 DEF OptionsTyped, SaslTyped, Chosen
<1>3. tls' \in BOOLEAN
  BY Zenon DEF Tls
<1>4. SslTyped'
  BY <1>1, <1>3 DEF OptionsTyped, SslTyped
<1> QED  BY <1>1, <1>2, <1>4 DEF OptionsTyped

LEMMA PushSslKeeps ==
  ASSUME OptionsTyped, NEW pairs \in TypedSsl, PushSsl(pairs)
  PROVE  OptionsTyped'
<1>1. UNCHANGED <<entries, sasl, kafkaConfig>> /\ tls'
  BY DEF PushSsl, Call, brokerVars
<1>2. SaslTyped'
  BY <1>1 DEF OptionsTyped, SaslTyped, Chosen
<1>3. sslEntries \in Seq(SslPairs) /\ Paired(ToSet(sslEntries))
  BY DEF OptionsTyped, SslTyped
<1>4. pairs \in Seq(SslPairs) /\ Paired(ToSet(pairs))
  BY TypedSslPushes
<1>5. sslEntries' \in Seq(SslPairs) /\ ToSet(sslEntries') = ToSet(sslEntries) \cup ToSet(pairs)
  BY <1>3, <1>4, ConcatAt, ConcatSet DEF PushSsl
<1>6. Paired(ToSet(sslEntries'))
  BY <1>3, <1>4, <1>5 DEF Paired
<1>7. tls' \in BOOLEAN
  BY Zenon DEF PushSsl
<1>8. SslTyped'
  BY <1>1, <1>5, <1>6, <1>7 DEF SslTyped
<1> QED  BY <1>1, <1>2, <1>8 DEF OptionsTyped

LEMMA SetSaslKeeps ==
  ASSUME OptionsTyped, NEW choice \in SaslSetters, SetSasl(choice)
  PROVE  OptionsTyped'
<1>1. UNCHANGED <<entries, sslEntries, kafkaConfig>>
  BY DEF SetSasl, Call, brokerVars
<1>3. tls' \in BOOLEAN /\ (tls => tls') /\ (choice.forcesTls => tls')
  BY Zenon DEF SetSasl
<1>4. SslTyped'
  BY <1>1, <1>3 DEF OptionsTyped, SslTyped
<1>5. sasl' = [kind |-> choice.kind, keys |-> choice.keys, options |-> {}]
  BY DEF SetSasl
<1>6. sasl'.kind = choice.kind /\ sasl'.keys = choice.keys /\ sasl'.options = {}
  BY <1>5
<1>7. SaslTyped'
  BY <1>3, <1>5, <1>6, SaslSetterKeys DEF SaslTyped, Chosen
<1> QED  BY <1>1, <1>4, <1>7 DEF OptionsTyped

LEMMA RefineKeeps ==
  ASSUME OptionsTyped, NEW what \in Refinements, Refine(what)
  PROVE  OptionsTyped'
<1>1. UNCHANGED <<entries, tls, sslEntries, kafkaConfig>>
  BY DEF Refine, Call, brokerVars
<1>2. SslTyped'
  BY <1>1 DEF OptionsTyped, SslTyped
<1>3. CASE sasl.kind = what.kind
  <2> DEFINE o == (sasl.options \ what.clears) \cup what.sets
  <2>1. sasl = [kind |-> sasl.kind, keys |-> sasl.keys, options |-> sasl.options]
    BY DEF OptionsTyped, SaslTyped
  <2>2. sasl' = [kind |-> sasl.kind, keys |-> sasl.keys, options |-> o]
    BY <1>3, <2>1 DEF Refine
  <2>3. sasl'.kind = sasl.kind /\ sasl'.keys = sasl.keys /\ sasl'.options = o
    BY <2>2
  <2>4. /\ what.kind \in {"AwsMskIam", "OauthbearerOidc", "GcpIam"}
        /\ what.sets \subseteq Optional[what.kind]
    BY DEF Refinements, Optional, AwsKeys, GcpKeys
  <2>5. o \subseteq Optional[sasl.kind]
    BY <1>3, <2>4 DEF OptionsTyped, SaslTyped
  <2>6. "aws.role.session.name" \in o => "aws.role.arn" \in o
    BY DEF Refinements, OptionsTyped, SaslTyped
  <2>7. sasl # NoSasl
    BY <1>3, <2>4 DEF NoSasl
  <2>8. PICK choice \in SaslSetters : Chosen(choice)
    BY <2>7 DEF OptionsTyped, SaslTyped
  <2>9. Chosen(choice)'
    BY <1>1, <2>3, <2>8 DEF Chosen
  <2>10. SaslTyped'
    BY <2>2, <2>3, <2>5, <2>6, <2>9 DEF OptionsTyped, SaslTyped
  <2> QED  BY <1>1, <1>2, <2>10 DEF OptionsTyped
<1>4. CASE sasl.kind # what.kind
  <2>1. sasl' = sasl
    BY <1>4 DEF Refine
  <2> QED  BY <1>1, <1>2, <2>1 DEF OptionsTyped, SaslTyped, Chosen
<1> QED  BY <1>3, <1>4

-----------------------------------------------------------------------------
(* What Builder::options adds to the configuration *)

\* The last security.protocol of the pairs asks for TLS.
TlsStated(pairs) ==
  \E i \in 1..Len(pairs) :
    /\ pairs[i][1] = "security.protocol"
    /\ pairs[i][2] \in {"ssl", "sasl_ssl"}
    /\ \A j \in (i + 1)..Len(pairs) : pairs[j][1] # "security.protocol"

LEMMA TlsStatedAfter ==
  ASSUME NEW s \in Seq(AllPairs), NEW t \in Seq(AllPairs), TlsStated(t)
  PROVE  TlsStated(s \o t)
<1>1. PICK i \in 1..Len(t) :
        /\ t[i][1] = "security.protocol"
        /\ t[i][2] \in {"ssl", "sasl_ssl"}
        /\ \A j \in (i + 1)..Len(t) : t[j][1] # "security.protocol"
  BY DEF TlsStated
<1>2. Len(s) + i \in 1..Len(s \o t) /\ (s \o t)[Len(s) + i] = t[i]
  BY ConcatAt
<1>3. ASSUME NEW j \in (Len(s) + i + 1)..Len(s \o t)
      PROVE  (s \o t)[j][1] # "security.protocol"
  <2>1. j - Len(s) \in (i + 1)..Len(t)
    BY ConcatAt
  <2>2. (s \o t)[j] = t[j - Len(s)]
    BY <2>1, ConcatAt
  <2> QED  BY <1>1, <2>1, <2>2
<1> QED  BY <1>1, <1>2, <1>3 DEF TlsStated

LEMMA TlsStatedBefore ==
  ASSUME NEW s \in Seq(AllPairs), NEW t \in Seq(AllPairs), TlsStated(s),
         \A p \in ToSet(t) : p[1] # "security.protocol"
  PROVE  TlsStated(s \o t)
<1>1. PICK i \in 1..Len(s) :
        /\ s[i][1] = "security.protocol"
        /\ s[i][2] \in {"ssl", "sasl_ssl"}
        /\ \A j \in (i + 1)..Len(s) : s[j][1] # "security.protocol"
  BY DEF TlsStated
<1>2. i \in 1..Len(s \o t) /\ (s \o t)[i] = s[i]
  BY ConcatAt
<1>3. ASSUME NEW j \in (i + 1)..Len(s \o t)
      PROVE  (s \o t)[j][1] # "security.protocol"
  <2>1. CASE j \in 1..Len(s)
    BY <1>1, <2>1, ConcatAt
  <2>2. CASE j - Len(s) \in 1..Len(t)
    <3>1. (s \o t)[j] = t[j - Len(s)]
      BY <2>2, ConcatAt
    <3>2. t[j - Len(s)] \in ToSet(t)
      BY <2>2 DEF ToSet
    <3> QED  BY <3>1, <3>2
  <2>3. j \in 1..Len(s \o t)
    BY <1>2
  <2> QED  BY <2>1, <2>2, <2>3, ConcatAt
<1> QED  BY <1>1, <1>2, <1>3 DEF TlsStated

\* No typed pair but the protocol's is about the protocol.
LEMMA TypedPairKeys ==
  /\ \A p \in SslPairs : p[1] \in SslKeys /\ p[1] # "security.protocol"
  /\ \A p \in SaslPairs : p[1] \in SaslKeys /\ p[1] # "security.protocol"
<1>1. \A p \in SslPairs : p[1] \in SslKeys /\ p[1] # "security.protocol"
  BY DEF SslPairs, SslKeys, CaKeys, LocationPair, PemPair
<1>2. CredentialKeys \subseteq SaslKeys /\ "sasl.mechanism" \in SaslKeys
      /\ "sasl.oauthbearer.method" \in SaslKeys
  BY DEF SaslKeys, CredentialKeys, OauthKeys
<1>3. "security.protocol" \notin CredentialKeys
  BY DEF CredentialKeys, UserKeys, AwsKeys, OauthKeys, OidcKeys, GcpKeys
<1>4. \A p \in SaslPairs : p[1] \in SaslKeys /\ p[1] # "security.protocol"
  BY <1>2, <1>3 DEF SaslPairs
<1> QED  BY <1>1, <1>4

Secured == tls \/ sasl # NoSasl

LEMMA EmittedHolds ==
  ASSUME OptionsTyped
  PROVE  /\ Emitted \in Seq(AllPairs)
         /\ tls => TlsStated(Emitted)
         /\ ~Secured => ToSet(Emitted) = ToSet(entries)
         /\ Secured => ToSet(Emitted) = ToSet(entries) \cup {<<"security.protocol", Protocol>>}
                         \cup ToSet(sslEntries) \cup ToSet(SaslEntries)
<1> DEFINE p == <<"security.protocol", Protocol>>
           a == entries \o <<p>>
           b == a \o sslEntries
           c == b \o SaslEntries
<1>1. Protocol \in {"ssl", "sasl_ssl", "sasl_plaintext"} /\ (tls => Protocol \in {"ssl", "sasl_ssl"})
  BY DEF Protocol
<1>2. p \in AllPairs
  BY <1>1 DEF AllPairs, ProtocolPairs
<1>3. <<p>> \in Seq(AllPairs) /\ ToSet(<<p>>) = {p}
  BY <1>2, OneInSeq
<1>4. tls => TlsStated(<<p>>)
  <2> SUFFICES ASSUME tls PROVE TlsStated(<<p>>)
    OBVIOUS
  <2>1. Len(<<p>>) = 1 /\ <<p>>[1][1] = "security.protocol" /\ <<p>>[1][2] \in {"ssl", "sasl_ssl"}
    BY <1>1
  <2> QED  BY <2>1 DEF TlsStated
<1>5. entries \in Seq(AllPairs)
  BY DEF OptionsTyped
<1>6. sslEntries \in Seq(SslPairs) /\ sslEntries \in Seq(AllPairs)
  BY TypedIsAll DEF OptionsTyped, SslTyped
<1>7. SaslEntries \in Seq(SaslPairs) /\ SaslEntries \in Seq(AllPairs)
  BY TypedIsAll, SaslEntriesHold DEF OptionsTyped
<1>8. Emitted = IF Secured THEN c ELSE entries
  BY DEF Emitted, Secured
<1> HIDE DEF p
<1>9. /\ a \in Seq(AllPairs) /\ ToSet(a) = ToSet(entries) \cup {p}
      /\ tls => TlsStated(a)
  <2>1. a \in Seq(AllPairs)
    BY <1>3, <1>5, ConcatAt
  <2>2. ToSet(a) = ToSet(entries) \cup ToSet(<<p>>)
    BY <1>3, <1>5, ConcatSet
  <2>3. TlsStated(<<p>>) => TlsStated(a)
    BY <1>3, <1>5, TlsStatedAfter
  <2> QED  BY <1>3, <1>4, <2>1, <2>2, <2>3
<1> HIDE DEF a
<1>10. \A q \in ToSet(sslEntries) : q[1] # "security.protocol"
  BY <1>6, TypedPairKeys DEF ToSet
<1>11. \A q \in ToSet(SaslEntries) : q[1] # "security.protocol"
  BY <1>7, TypedPairKeys DEF ToSet
<1>12. b \in Seq(AllPairs) /\ ToSet(b) = ToSet(a) \cup ToSet(sslEntries)
  BY <1>6, <1>9, ConcatAt, ConcatSet
<1>13. tls => TlsStated(b)
  BY <1>6, <1>9, <1>10, TlsStatedBefore
<1> HIDE DEF b
<1>14. c \in Seq(AllPairs) /\ ToSet(c) = ToSet(b) \cup ToSet(SaslEntries)
  BY <1>7, <1>12, ConcatAt, ConcatSet
<1>15. tls => TlsStated(c)
  BY <1>7, <1>11, <1>12, <1>13, TlsStatedBefore
<1> HIDE DEF c
<1> QED  BY <1>5, <1>8, <1>9, <1>12, <1>14, <1>15 DEF Secured, p

-----------------------------------------------------------------------------
(* The invariant *)

SecurityPairs(pairs) == {p \in ToSet(pairs) : p[1] \in SecurityKeys}

\* No mechanism, as a choice.
NoChoice == [kind |-> "none", forcesTls |-> FALSE, keys |-> <<>>]

\* Pairs as one Options emits them when all of their security is typed: a
\* protocol p, TLS settings S, a mechanism and the Options O of it.
TypedAs(P, p, S, choice, O) ==
  /\ P = {<<"security.protocol", p>>} \cup S \cup ToSet(choice.keys) \cup {<<k, "set">> : k \in O}
  /\ Paired(S)
  /\ S # {} => p \in {"ssl", "sasl_ssl"}
  /\ choice = NoChoice <=> p = "ssl"
  /\ choice.forcesTls => p = "sasl_ssl"
  /\ O \subseteq Optional[choice.kind]
  /\ "aws.role.session.name" \in O => "aws.role.arn" \in O

TypedSecurity(P) ==
  P # {} => \E p \in {"ssl", "sasl_ssl", "sasl_plaintext"}, S \in SUBSET (P \cap SslPairs),
               choice \in SaslSetters \cup {NoChoice}, O \in SUBSET Optionals :
                 TypedAs(P, p, S, choice, O)

Layered ==
  /\ layers \in Seq([tls : BOOLEAN, typed : BOOLEAN])
  /\ layers # <<>> /\ Last(layers).tls => TlsStated(kafkaConfig)
  /\ layers = <<>> => kafkaConfig = <<>> /\ ~deferred
  /\ Len(layers) = 1 /\ layers[1].typed => ~deferred /\ TypedSecurity(SecurityPairs(kafkaConfig))

\* build() went by the configuration as it is.
OutcomeExplained ==
  \/ outcome = None
  \/ deferred /\ outcome = Refused(errBadOption, FALSE)
  \/ ~deferred /\ \E env \in Environments : outcome = Build(Effective, env)

OutcomeLast == outcome # None => layers # <<>>

ClientInv == OptionsTyped /\ Layered /\ OutcomeExplained /\ OutcomeLast

\* All the typed keys are security keys, so they conflict only with security
\* pairs.
LEMMA TypedKeysAreSecurity ==
  /\ SslKeys \subseteq SecurityKeys /\ SaslKeys \subseteq SecurityKeys
  /\ "security.protocol" \in SecurityKeys
BY DEF SecurityKeys, Fields

LEMMA NoConflict ==
  ASSUME OptionsTyped, Keys(entries) \cap SecurityKeys = {}
  PROVE  Conflicts = {}
<1>1. Keys(sslEntries) \subseteq SslKeys
  <2>1. ToSet(sslEntries) \subseteq SslPairs
    BY DEF OptionsTyped, SslTyped, ToSet
  <2> QED  BY <2>1, TypedPairKeys DEF Keys
<1>2. /\ UserKeys \subseteq SaslKeys /\ AwsKeys \subseteq SaslKeys /\ OidcKeys \subseteq SaslKeys
      /\ GcpKeys \cup {"sasl.oauthbearer.method"} \subseteq SaslKeys
      /\ {"sasl.mechanism"} \subseteq SaslKeys
  BY DEF SaslKeys, CredentialKeys, OauthKeys
<1>3. "sasl.mechanisms" \in SecurityKeys
  BY DEF SecurityKeys
<1> DEFINE own == CASE sasl.kind = "UserPass"        -> UserKeys
                    [] sasl.kind = "AwsMskIam"       -> AwsKeys
                    [] sasl.kind = "OauthbearerOidc" -> OidcKeys
                    [] sasl.kind = "GcpIam"          -> GcpKeys \cup {"sasl.oauthbearer.method"}
                    [] OTHER                         -> {}
<1>4. own \subseteq SaslKeys
  BY <1>2
<1>5. TypedSecurityKeys \subseteq SecurityKeys
  <2>1. TypedSecurityKeys = IF ~tls /\ sasl = NoSasl THEN {}
          ELSE {"security.protocol"} \cup Keys(sslEntries)
                 \cup (IF sasl = NoSasl THEN {} ELSE {"sasl.mechanism", "sasl.mechanisms"}) \cup own
    BY DEF TypedSecurityKeys
  <2> HIDE DEF own
  <2> QED  BY <1>1, <1>2, <1>3, <1>4, <2>1, TypedKeysAreSecurity
<1> QED  BY <1>5 DEF Conflicts

LEMMA EmittedSecurity ==
  ASSUME OptionsTyped, Keys(entries) \cap SecurityKeys = {}
  PROVE  TypedSecurity(SecurityPairs(Emitted))
<1> DEFINE P == SecurityPairs(Emitted)
<1>1. \A p \in ToSet(entries) : p[1] \notin SecurityKeys
  BY DEF Keys
<1>2. CASE ~Secured
  <2>1. ToSet(Emitted) = ToSet(entries)
    BY <1>2, EmittedHolds
  <2>2. P = {}
    BY <1>1, <2>1 DEF SecurityPairs
  <2> QED  BY <2>2 DEF TypedSecurity
<1>3. CASE Secured
  <2> DEFINE S == ToSet(sslEntries)
             O == sasl.options
             choice == IF sasl = NoSasl THEN NoChoice ELSE CHOOSE c \in SaslSetters : Chosen(c)
  <2>1. ToSet(Emitted) = ToSet(entries) \cup {<<"security.protocol", Protocol>>}
                           \cup ToSet(sslEntries) \cup ToSet(SaslEntries)
    BY <1>3, EmittedHolds
  <2>2. S \subseteq SslPairs
    BY DEF OptionsTyped, SslTyped, ToSet
  <2>3. ToSet(SaslEntries) = ToSet(sasl.keys) \cup {<<k, "set">> : k \in O}
        /\ ToSet(SaslEntries) \subseteq SaslPairs
    <3>1. /\ SaslEntries \in Seq(SaslPairs)
          /\ ToSet(SaslEntries) = ToSet(sasl.keys) \cup {<<k, "set">> : k \in O}
      BY SaslEntriesHold DEF OptionsTyped
    <3>2. ToSet(SaslEntries) \subseteq SaslPairs
      BY <3>1 DEF ToSet
    <3> QED  BY <3>1, <3>2
  <2>4. P = {<<"security.protocol", Protocol>>} \cup ToSet(sslEntries) \cup ToSet(SaslEntries)
    BY <1>1, <2>1, <2>2, <2>3, TypedPairKeys, TypedKeysAreSecurity DEF SecurityPairs
  <2>5. /\ choice \in SaslSetters \cup {NoChoice}
        /\ choice.keys = sasl.keys
        /\ choice.kind = sasl.kind
        /\ choice.forcesTls => tls
        /\ choice = NoChoice <=> sasl = NoSasl
    <3>1. CASE sasl = NoSasl
      BY <3>1 DEF NoSasl, NoChoice
    <3>2. CASE sasl # NoSasl
      <4>1. choice \in SaslSetters /\ Chosen(choice)
        BY <3>2 DEF OptionsTyped, SaslTyped
      <4>2. choice.kind # "none"
        BY <4>1, SaslSetterKeys
      <4>3. choice # NoChoice
        BY <4>2 DEF NoChoice
      <4> QED  BY <3>2, <4>1, <4>3 DEF Chosen
    <3> QED  BY <3>1, <3>2
  <2>6. O \subseteq Optional[sasl.kind] /\ O \in SUBSET Optionals
        /\ ("aws.role.session.name" \in O => "aws.role.arn" \in O)
    BY OptionalKeys DEF OptionsTyped, SaslTyped
  <2>7. Paired(S) /\ (S # {} => tls)
    <3>1. sslEntries = <<>> => S = {}
      BY DEF ToSet
    <3> QED  BY <3>1 DEF OptionsTyped, SslTyped
  <2>8. /\ Protocol \in {"ssl", "sasl_ssl", "sasl_plaintext"}
        /\ tls => Protocol \in {"ssl", "sasl_ssl"}
        /\ Protocol = "ssl" <=> sasl = NoSasl
    BY <1>3 DEF Protocol, Secured
  <2> HIDE DEF choice, P, S, O
  <2>9. TypedAs(P, Protocol, S, choice, O)
    <3>1. P = {<<"security.protocol", Protocol>>} \cup S \cup ToSet(choice.keys)
                \cup {<<k, "set">> : k \in O}
      BY <2>3, <2>4, <2>5 DEF S
    <3>2. choice.forcesTls => Protocol = "sasl_ssl"
      <4>1. choice.forcesTls => choice # NoChoice
        BY DEF NoChoice
      <4> QED  BY <4>1, <2>5, <2>8
    <3> QED  BY <3>1, <3>2, <2>5, <2>6, <2>7, <2>8 DEF TypedAs
  <2>10. S \in SUBSET (P \cap SslPairs)
    BY <2>2, <2>4 DEF S
  <2>11. TypedSecurity(P)
    BY <2>5, <2>6, <2>8, <2>9, <2>10 DEF TypedSecurity
  <2> QED  BY <2>11 DEF P
<1> QED  BY <1>2, <1>3

\* Nothing of the broker's moved.
LEMMA BrokerUntouched ==
  ASSUME ClientInv, OptionsTyped', UNCHANGED brokerVars
  PROVE  ClientInv'
<1>1. UNCHANGED <<kafkaConfig, deferred, outcome, layers>>
  BY DEF brokerVars
<1>2. Layered'
  BY <1>1 DEF ClientInv, Layered
<1>3. OutcomeExplained'
  BY <1>1 DEF ClientInv, OutcomeExplained, Effective
<1>4. OutcomeLast'
  BY <1>1 DEF ClientInv, OutcomeLast
<1> QED  BY <1>2, <1>3, <1>4 DEF ClientInv

LEMMA AdapterOptionsKeeps ==
  ASSUME ClientInv, AdapterOptions
  PROVE  ClientInv'
<1> DEFINE layer == [tls |-> tls, typed |-> Keys(entries) \cap SecurityKeys = {}]
<1>1. /\ outcome = None /\ outcome' = outcome
      /\ kafkaConfig' = kafkaConfig \o Emitted
      /\ layers' = Append(layers, layer)
      /\ entries' = <<>> /\ tls' = FALSE /\ sslEntries' = <<>> /\ sasl' = NoSasl
      /\ deferred' = (deferred \/ Conflicts # {})
  BY DEF AdapterOptions
<1>2. OptionsTyped /\ kafkaConfig \in Seq(AllPairs) /\ Emitted \in Seq(AllPairs)
  BY EmittedHolds DEF ClientInv, OptionsTyped
<1>3. kafkaConfig' \in Seq(AllPairs)
  BY <1>1, <1>2, ConcatAt
<1>4. OptionsTyped'
  <2>1. "none" \in DOMAIN Optional /\ Optional["none"] = {}
    BY DEF Optional
  <2>2. sasl'.kind = "none" /\ sasl'.options = {}
    BY <1>1 DEF NoSasl
  <2>3. SaslTyped'
    BY <1>1, <2>1, <2>2 DEF NoSasl, SaslTyped
  <2>4. ToSet(sslEntries') = {}
    BY <1>1 DEF ToSet
  <2>5. tls' \in BOOLEAN
    BY <1>1, Zenon
  <2>6. SslTyped'
    BY <1>1, <2>4, <2>5 DEF SslTyped, Paired
  <2> QED  BY <1>1, <1>3, <2>3, <2>6 DEF OptionsTyped
<1>5. layer \in [tls : BOOLEAN, typed : BOOLEAN]
  BY <1>2 DEF OptionsTyped, SslTyped
<1>6. layers \in Seq([tls : BOOLEAN, typed : BOOLEAN])
  BY DEF ClientInv, Layered
<1>7. layer.tls = tls
  OBVIOUS
<1>8. layer.typed => Keys(entries) \cap SecurityKeys = {}
  OBVIOUS
<1> HIDE DEF layer
<1>9. /\ layers' \in Seq([tls : BOOLEAN, typed : BOOLEAN])
      /\ layers' # <<>> /\ Len(layers') = Len(layers) + 1
      /\ Last(layers') = layer
      /\ layers = <<>> => layers'[1] = layer
  BY <1>1, <1>5, <1>6 DEF Last
<1>10. Last(layers').tls => TlsStated(kafkaConfig')
  <2>1. tls => TlsStated(Emitted)
    BY <1>2, EmittedHolds
  <2>2. TlsStated(Emitted) => TlsStated(kafkaConfig')
    BY <1>1, <1>2, TlsStatedAfter
  <2> QED  BY <1>7, <1>9, <2>1, <2>2
<1>11. ASSUME Len(layers') = 1, layers'[1].typed
       PROVE  ~deferred' /\ TypedSecurity(SecurityPairs(kafkaConfig'))
  <2>1. layers = <<>>
    BY <1>6, <1>9, <1>11
  <2>2. kafkaConfig = <<>> /\ ~deferred
    BY <2>1 DEF ClientInv, Layered
  <2>3. kafkaConfig' = Emitted
    BY <1>1, <1>2, <2>2
  <2>4. Keys(entries) \cap SecurityKeys = {}
    BY <1>8, <1>9, <1>11, <2>1
  <2>5. ~deferred'
    BY <1>1, <1>2, <2>2, <2>4, NoConflict
  <2> QED  BY <1>2, <2>3, <2>4, <2>5, EmittedSecurity
<1>12. Layered'
  BY <1>9, <1>10, <1>11 DEF Layered
<1>13. OutcomeExplained' /\ OutcomeLast'
  BY <1>1 DEF OutcomeExplained, OutcomeLast
<1> QED  BY <1>4, <1>12, <1>13 DEF ClientInv

LEMMA BuildEngineKeeps ==
  ASSUME ClientInv, NEW env \in Environments, BuildEngine(env)
  PROVE  ClientInv'
<1>1. /\ UNCHANGED <<entries, tls, sslEntries, sasl, kafkaConfig, deferred, layers>>
      /\ layers # <<>>
      /\ outcome' = IF deferred THEN Refused(errBadOption, FALSE)
                    ELSE Build(Deduped(kafkaConfig), env)
  BY DEF BuildEngine, optionVars
<1>2. OptionsTyped'
  BY <1>1 DEF ClientInv, OptionsTyped, SaslTyped, SslTyped, Chosen
<1>3. Layered' /\ OutcomeLast'
  BY <1>1 DEF ClientInv, Layered, OutcomeLast
<1>4. OutcomeExplained'
  BY <1>1 DEF OutcomeExplained, Effective
<1> QED  BY <1>2, <1>3, <1>4 DEF ClientInv

LEMMA ClientInitInvariant == ClientInit => ClientInv
<1> SUFFICES ASSUME ClientInit PROVE ClientInv
  OBVIOUS
<1>1. OptionsTyped
  BY OptionsInitTyped
<1>2. ~deferred
  BY Zenon DEF ClientInit
<1>3. Layered
  BY <1>2 DEF ClientInit, Layered
<1>4. OutcomeExplained /\ OutcomeLast
  BY DEF ClientInit, OutcomeExplained, OutcomeLast
<1> QED  BY <1>1, <1>3, <1>4 DEF ClientInv

LEMMA ClientNextPreserves == ASSUME ClientInv, [ClientNext]_clientVars PROVE ClientInv'
<1> OptionsTyped
  BY DEF ClientInv
<1>1. ASSUME NEW p \in Pairs, KafkaOptions(<<p>>) PROVE ClientInv'
  <2>1. <<p>> \in Seq(StringPairs)
    BY PairsAssumption
  <2> QED  BY <1>1, <2>1, KafkaOptionsKeeps, BrokerUntouched DEF KafkaOptions, Call
<1>2. ASSUME NEW f \in Files, KafkaOptions(f) PROVE ClientInv'
  <2>1. f \in Seq(StringPairs)
    BY PairsAssumption
  <2> QED  BY <1>2, <2>1, KafkaOptionsKeeps, BrokerUntouched DEF KafkaOptions, Call
<1>3. CASE Tls
  BY <1>3, TlsKeeps, BrokerUntouched DEF Tls, Call
<1>4. ASSUME NEW pairs \in TypedSsl, PushSsl(pairs) PROVE ClientInv'
  BY <1>4, PushSslKeeps, BrokerUntouched DEF PushSsl, Call
<1>5. ASSUME NEW choice \in SaslSetters, SetSasl(choice) PROVE ClientInv'
  BY <1>5, SetSaslKeeps, BrokerUntouched DEF SetSasl, Call
<1>6. ASSUME NEW what \in Refinements, Refine(what) PROVE ClientInv'
  BY <1>6, RefineKeeps, BrokerUntouched DEF Refine, Call
<1>7. CASE AdapterOptions
  BY <1>7, AdapterOptionsKeeps
<1>8. ASSUME NEW env \in Environments, BuildEngine(env) PROVE ClientInv'
  BY <1>8, BuildEngineKeeps
<1>9. CASE UNCHANGED clientVars
  <2>1. UNCHANGED <<entries, tls, sslEntries, sasl, kafkaConfig>> /\ UNCHANGED brokerVars
    BY <1>9 DEF clientVars, optionVars, brokerVars
  <2>2. OptionsTyped'
    BY <2>1 DEF OptionsTyped, SaslTyped, SslTyped, Chosen
  <2> QED  BY <2>1, <2>2, BrokerUntouched
<1> QED  BY <1>1, <1>2, <1>3, <1>4, <1>5, <1>6, <1>7, <1>8, <1>9 DEF ClientNext

LEMMA ClientInvariant == ClientSpec => []ClientInv
BY ClientInitInvariant, ClientNextPreserves, PTL DEF ClientSpec

-----------------------------------------------------------------------------
(* What a client that was built was built from *)

LEMMA EffectiveHoldsLast ==
  ASSUME ClientInv
  PROVE  /\ Len(kafkaConfig) \in Nat
         /\ HoldsLast(Effective, kafkaConfig, Len(kafkaConfig))
         /\ \A i \in 1..Len(kafkaConfig) : kafkaConfig[i] = <<kafkaConfig[i][1], kafkaConfig[i][2]>>
         /\ ToSet(kafkaConfig) = {kafkaConfig[i] : i \in 1..Len(kafkaConfig)}
<1>1. kafkaConfig \in Seq(AllPairs)
  BY DEF ClientInv, OptionsTyped
<1>2. Len(kafkaConfig) \in Nat /\ DOMAIN kafkaConfig = 1..Len(kafkaConfig)
  BY <1>1
<1>3. \A i \in 1..Len(kafkaConfig) : kafkaConfig[i] \in AllPairs
  BY <1>1
<1> QED  BY <1>2, <1>3, DedupedHoldsLast, TypedIsAll DEF Effective, ToSet

LEMMA LastWriteHolds == ASSUME ClientInv PROVE LastWriteWins
<1>1. Keys(kafkaConfig) = {kafkaConfig[i][1] : i \in 1..Len(kafkaConfig)}
  BY EffectiveHoldsLast DEF Keys
<1> QED  BY <1>1, EffectiveHoldsLast DEF LastWriteWins, HoldsLast

LEMMA BuiltBy ==
  ASSUME ClientInv, Built
  PROVE  LET s == Collect(Effective) IN
         /\ outcome = Client(s)
         /\ DOMAIN Effective \cap SecurityKeys # {} => ~Rejects(s)
<1>1. Refused(errBadOption, FALSE).code # 0
  BY DEF Refused, errBadOption
<1>2. PICK env \in Environments : outcome = Build(Effective, env)
  BY <1>1 DEF ClientInv, OutcomeExplained, Built
<1>3. Build(Effective, env).code = 0
  BY <1>2 DEF Built
<1> QED  BY <1>2, <1>3, BuiltFrom

LEMMA CredentialsUsed == ASSUME ClientInv PROVE CredentialsAllUsed
<1> SUFFICES ASSUME Built, NEW k \in CredentialKeys \cap DOMAIN Effective,
                    Stored(k, Effective[k]) # ""
             PROVE  k \in UsedBy(outcome.sasl)
  BY DEF CredentialsAllUsed
<1> DEFINE s == Collect(Effective)
<1>1. k \in Fields /\ k # "sasl.mechanism" /\ k \in SecurityKeys
  BY DEF Fields, SaslKeys, SecurityKeys, CredentialKeys, UserKeys, AwsKeys, OauthKeys, OidcKeys,
         GcpKeys
<1>2. s[k] # ""
  BY <1>1, CollectStores
<1>3. outcome = Client(s) /\ ~Rejects(s)
  BY <1>1, BuiltBy
<1> HIDE DEF s
<1>4. outcome.sasl = Source(s)
  BY <1>3 DEF Client
<1> QED  BY <1>2, <1>3, <1>4, CredentialBelongs

\* The protocols of a TLS client are stored as they are written.
LEMMA ProtocolStored ==
  ASSUME NEW v \in {"ssl", "sasl_ssl", "sasl_plaintext"}
  PROVE  Stored("security.protocol", v) = v
<1>1. v \in LowerNames
  BY DEF LowerNames
<1>2. TrimSpace(v) = v /\ ToLower(v) = v
  BY <1>1, StringsAssumption
<1> QED  BY <1>2 DEF Stored, FoldedKeys, Folded

\* A mechanism the code knows is taken as it is written.
LEMMA MechanismTaken ==
  ASSUME NEW s, s["sasl.mechanism"] \in Mechanisms
  PROVE  Mechanism(s) = s["sasl.mechanism"]
BY StringsAssumption DEF Mechanism

LEMMA TlsKept == ASSUME ClientInv PROVE TlsNotDowngraded
<1> SUFFICES ASSUME Built
             PROVE  /\ Last(layers).tls => outcome.tls # "off"
                    /\ outcome.sasl \in {"aws", "gcp"} => outcome.tls # "off"
                    /\ outcome.tls = "unverified" =>
                         AskedFor("enable.ssl.certificate.verification", "false")
                    /\ outcome.tls = "chain" =>
                         AskedFor("ssl.endpoint.identification.algorithm", "none")
  BY DEF TlsNotDowngraded
<1> DEFINE s == Collect(Effective)
<1>1. outcome.tls = Verification(s) /\ outcome.sasl = Source(s)
  BY BuiltBy DEF Client
<1>2. UsesTls(s) => outcome.tls # "off"
  <2> HIDE DEF s
  <2> QED  BY <1>1 DEF Verification
<1>3. "security.protocol" \in Fields /\ "security.protocol" # "sasl.mechanism"
      /\ "security.protocol" \in SecurityKeys
  BY DEF Fields, SecurityKeys
<1>4. \A f \in Fields \ {"sasl.mechanism"} :
        s[f] # "" => f \in DOMAIN Effective /\ s[f] = Stored(f, Effective[f])
  BY DEF Collect
<1>5. \A f \in Fields \ {"sasl.mechanism"} :
        f \in DOMAIN Effective => s[f] = Stored(f, Effective[f])
  BY DEF Collect
<1>6. Last(layers).tls => outcome.tls # "off"
  <2> SUFFICES ASSUME Last(layers).tls PROVE UsesTls(s)
    BY <1>2
  <2>1. TlsStated(kafkaConfig)
    BY DEF ClientInv, OutcomeLast, Layered, Built
  <2>2. PICK i \in 1..Len(kafkaConfig) :
          /\ kafkaConfig[i][1] = "security.protocol"
          /\ kafkaConfig[i][2] \in {"ssl", "sasl_ssl"}
          /\ \A j \in (i + 1)..Len(kafkaConfig) : kafkaConfig[j][1] # "security.protocol"
    BY <2>1 DEF TlsStated
  <2>3. "security.protocol" \in DOMAIN Effective /\ Effective["security.protocol"] = kafkaConfig[i][2]
    BY <2>2, EffectiveHoldsLast DEF HoldsLast
  <2>4. s["security.protocol"] = kafkaConfig[i][2]
    BY <1>3, <1>5, <2>2, <2>3, ProtocolStored
  <2> HIDE DEF s
  <2> QED  BY <2>2, <2>4 DEF UsesTls
<1>7. ASSUME outcome.sasl \in {"aws", "gcp"} PROVE outcome.tls # "off"
  <2>1. Source(s) \in {"aws", "gcp"}
    BY <1>1, <1>7
  <2>2. UsesSasl(s) /\ (Mechanism(s) = "AWS_MSK_IAM" \/ UsesGcp(s))
    <3> HIDE DEF s
    <3> QED  BY <2>1 DEF Source
  <2>3. s["security.protocol"] # ""
    <3> HIDE DEF s
    <3> QED  BY <2>2 DEF UsesSasl
  <2>4. DOMAIN Effective \cap SecurityKeys # {}
    BY <1>3, <1>4, <2>3
  <2>5. ~MechanismRejects(s)
    BY <2>2, <2>4, BuiltBy DEF Rejects
  <2>6. s["security.protocol"] = "sasl_ssl"
    <3> HIDE DEF s
    <3> QED  BY <2>2, <2>5 DEF MechanismRejects, AwsRejects, GcpRejects
  <2> HIDE DEF s
  <2> QED  BY <1>2, <2>6 DEF UsesTls
<1>8. ASSUME NEW f \in Fields \ {"sasl.mechanism"}, s[f] # "" PROVE AskedFor(f, s[f])
  <2>1. f \in DOMAIN Effective /\ s[f] = Stored(f, Effective[f])
    BY <1>4, <1>8
  <2>2. PICK i \in 1..Len(kafkaConfig) : kafkaConfig[i][1] = f /\ kafkaConfig[i][2] = Effective[f]
    BY <2>1, EffectiveHoldsLast DEF HoldsLast
  <2>3. kafkaConfig[i] \in ToSet(kafkaConfig)
    BY EffectiveHoldsLast
  <2> QED  BY <2>1, <2>2, <2>3 DEF AskedFor
<1> HIDE DEF s
<1>9. {"enable.ssl.certificate.verification", "ssl.endpoint.identification.algorithm"}
        \subseteq Fields \ {"sasl.mechanism"}
  BY DEF Fields, SslKeys
<1>10. outcome.tls = "unverified" => s["enable.ssl.certificate.verification"] = "false"
  BY <1>1 DEF Verification
<1>11. outcome.tls = "chain" => s["ssl.endpoint.identification.algorithm"] = "none"
  BY <1>1 DEF Verification
<1>12. outcome.tls = "unverified" => AskedFor("enable.ssl.certificate.verification", "false")
  BY <1>8, <1>9, <1>10
<1>13. outcome.tls = "chain" => AskedFor("ssl.endpoint.identification.algorithm", "none")
  BY <1>8, <1>9, <1>11
<1> QED  BY <1>6, <1>7, <1>12, <1>13

-----------------------------------------------------------------------------
(* Typed setters alone *)

\* The pairs of each choice, as a set.
LEMMA ChoiceKeys ==
  ASSUME NEW choice \in SaslSetters \cup {NoChoice}
  PROVE  LET P == ToSet(choice.keys) IN
         \/ choice = NoChoice /\ choice.kind = "none" /\ P = {}
         \/ /\ choice.kind = "UserPass"
            /\ \E m \in Passwords :
                 P = {<<"sasl.mechanism", m>>, <<"sasl.username", "set">>, <<"sasl.password", "set">>}
         \/ choice.kind = "AwsMskIam" /\ choice.forcesTls /\ P = {<<"sasl.mechanism", "AWS_MSK_IAM">>}
         \/ /\ choice.kind = "OauthbearerOidc"
            /\ P = {<<"sasl.mechanism", "OAUTHBEARER">>,
                    <<"sasl.oauthbearer.token.endpoint.url", "set">>,
                    <<"sasl.oauthbearer.client.id", "set">>,
                    <<"sasl.oauthbearer.client.secret", "set">>}
         \/ /\ choice.kind = "GcpIam" /\ choice.forcesTls
            /\ P = {<<"sasl.mechanism", "OAUTHBEARER">>, <<"sasl.oauthbearer.method", "gcp">>}
<1>1. CASE choice = NoChoice
  <2>1. choice.kind = "none" /\ choice.keys = <<>>
    BY <1>1 DEF NoChoice
  <2> QED  BY <1>1, <2>1, EmptyToSet
<1>2. CASE choice \in SaslSetters
  <2>1. CASE \E m \in Passwords :
               choice = [kind |-> "UserPass", forcesTls |-> FALSE,
                         keys |-> << <<"sasl.mechanism", m>>, <<"sasl.username", "set">>,
                                     <<"sasl.password", "set">> >>]
    <3>1. PICK m \in Passwords :
               choice = [kind |-> "UserPass", forcesTls |-> FALSE,
                         keys |-> << <<"sasl.mechanism", m>>, <<"sasl.username", "set">>,
                                     <<"sasl.password", "set">> >>]
      BY <2>1
    <3>2. choice.kind = "UserPass"
          /\ choice.keys = << <<"sasl.mechanism", m>>, <<"sasl.username", "set">>,
                              <<"sasl.password", "set">> >>
      BY <3>1
    <3>3. ToSet(choice.keys) = {<<"sasl.mechanism", m>>, <<"sasl.username", "set">>,
                                <<"sasl.password", "set">>}
      BY <3>2 DEF ToSet
    <3> QED  BY <3>2, <3>3
  <2>2. CASE choice = [kind |-> "AwsMskIam", forcesTls |-> TRUE,
                       keys |-> << <<"sasl.mechanism", "AWS_MSK_IAM">> >>]
    <3>1. choice.kind = "AwsMskIam" /\ choice.forcesTls
          /\ choice.keys = << <<"sasl.mechanism", "AWS_MSK_IAM">> >>
      BY <2>2
    <3>2. ToSet(choice.keys) = {<<"sasl.mechanism", "AWS_MSK_IAM">>}
      BY <3>1 DEF ToSet
    <3> QED  BY <3>1, <3>2
  <2>3. CASE choice = [kind |-> "OauthbearerOidc", forcesTls |-> FALSE,
                       keys |-> << <<"sasl.mechanism", "OAUTHBEARER">>,
                                   <<"sasl.oauthbearer.token.endpoint.url", "set">>,
                                   <<"sasl.oauthbearer.client.id", "set">>,
                                   <<"sasl.oauthbearer.client.secret", "set">> >>]
    <3>1. choice.kind = "OauthbearerOidc"
          /\ choice.keys = << <<"sasl.mechanism", "OAUTHBEARER">>,
                              <<"sasl.oauthbearer.token.endpoint.url", "set">>,
                              <<"sasl.oauthbearer.client.id", "set">>,
                              <<"sasl.oauthbearer.client.secret", "set">> >>
      BY <2>3
    <3>2. ToSet(choice.keys) = {<<"sasl.mechanism", "OAUTHBEARER">>,
                                <<"sasl.oauthbearer.token.endpoint.url", "set">>,
                                <<"sasl.oauthbearer.client.id", "set">>,
                                <<"sasl.oauthbearer.client.secret", "set">>}
      BY <3>1 DEF ToSet
    <3> QED  BY <3>1, <3>2
  <2>4. CASE choice = [kind |-> "GcpIam", forcesTls |-> TRUE,
                       keys |-> << <<"sasl.mechanism", "OAUTHBEARER">>,
                                   <<"sasl.oauthbearer.method", "gcp">> >>]
    <3>1. choice.kind = "GcpIam" /\ choice.forcesTls
          /\ choice.keys = << <<"sasl.mechanism", "OAUTHBEARER">>,
                              <<"sasl.oauthbearer.method", "gcp">> >>
      BY <2>4
    <3>2. ToSet(choice.keys) = {<<"sasl.mechanism", "OAUTHBEARER">>,
                                <<"sasl.oauthbearer.method", "gcp">>}
      BY <3>1 DEF ToSet
    <3> QED  BY <3>1, <3>2
  <2> QED  BY <1>2, <2>1, <2>2, <2>3, <2>4 DEF SaslSetters
<1> QED  BY <1>1, <1>2

\* The collected fields of a configuration whose security pairs are P: a field
\* is empty or holds a value of P for it, and no key of P is left empty.
CollectedFrom(s, P) ==
  /\ \A f \in Fields : s[f] = "" \/ <<f, s[f]>> \in P
  /\ \A k, v : <<k, v>> \in P => s[k] # ""

\* Typed TLS settings from one source are taken.
LEMMA TypedTlsTaken ==
  ASSUME NEW s, NEW P, NEW p, NEW S \in SUBSET SslPairs, NEW choice \in SaslSetters \cup {NoChoice},
         NEW O \in SUBSET Optionals, TypedAs(P, p, S, choice, O), CollectedFrom(s, P),
         p \in {"ssl", "sasl_ssl", "sasl_plaintext"},
         ~HasAll(s, CaKeys), ~Has(s, LocationPair) \/ ~Has(s, PemPair)
  PROVE  /\ ~TlsRejects(s)
         /\ s["security.protocol"] = p
         /\ Has(s, SslKeys) => UsesTls(s)
         /\ \A f \in SaslKeys :
              s[f] = "" \/ <<f, s[f]>> \in ToSet(choice.keys) \cup {<<k, "set">> : k \in O}
<1> DEFINE Q == ToSet(choice.keys) \cup {<<k, "set">> : k \in O}
<1>1. Q \subseteq SaslPairs
  <2>1. ToSet(choice.keys) \subseteq SaslPairs
    <3>1. CASE choice = NoChoice
      BY <3>1, EmptyToSet DEF NoChoice
    <3>2. CASE choice \in SaslSetters
      <4>1. choice.keys \in Seq(SaslPairs)
        BY <3>2, SaslSetterKeys
      <4> QED  BY <4>1 DEF ToSet
    <3> QED  BY <3>1, <3>2
  <2>2. {<<k, "set">> : k \in O} \subseteq SaslPairs
    BY OptionalKeys DEF SaslPairs
  <2> QED  BY <2>1, <2>2
<1>2. P = {<<"security.protocol", p>>} \cup S \cup Q
  BY DEF TypedAs
<1> HIDE DEF Q
<1>3. "security.protocol" \in Fields /\ SslKeys \subseteq Fields /\ SaslKeys \subseteq Fields
      /\ "security.protocol" \notin SslKeys /\ "security.protocol" \notin SaslKeys
      /\ SslKeys \cap SaslKeys = {}
  BY DEF Fields, SslKeys, SaslKeys, CaKeys, LocationPair, PemPair, CredentialKeys, UserKeys,
         AwsKeys, OauthKeys, OidcKeys, GcpKeys
<1>4. s["security.protocol"] = p
  <2>1. <<"security.protocol", p>> \in P
    BY <1>2
  <2>2. s["security.protocol"] # ""
    BY <2>1 DEF CollectedFrom
  <2>3. <<"security.protocol", s["security.protocol"]>> \in P
    BY <2>2, <1>3 DEF CollectedFrom
  <2>4. <<"security.protocol", s["security.protocol"]>> \notin S \cup Q
    BY <1>1, <1>3, TypedPairKeys
  <2> QED  BY <1>2, <2>3, <2>4
<1>5. \A f \in SslKeys : s[f] = "" \/ <<f, s[f]>> \in S
  <2> SUFFICES ASSUME NEW f \in SslKeys, s[f] # "" PROVE <<f, s[f]>> \in S
    OBVIOUS
  <2>1. <<f, s[f]>> \in P
    BY <1>3 DEF CollectedFrom
  <2>2. <<f, s[f]>> \notin Q /\ f # "security.protocol"
    BY <1>1, <1>3, TypedPairKeys
  <2> QED  BY <1>2, <2>1, <2>2
<1>6. \A f \in SaslKeys : s[f] = "" \/ <<f, s[f]>> \in Q
  <2> SUFFICES ASSUME NEW f \in SaslKeys, s[f] # "" PROVE <<f, s[f]>> \in Q
    OBVIOUS
  <2>1. <<f, s[f]>> \in P
    BY <1>3 DEF CollectedFrom
  <2>2. <<f, s[f]>> \notin S /\ f # "security.protocol"
    BY <1>3, TypedPairKeys
  <2> QED  BY <1>2, <2>1, <2>2
<1>7. Has(s, SslKeys) => UsesTls(s)
  <2>1. Has(s, SslKeys) => S # {}
    BY <1>5 DEF Has
  <2> QED  BY <1>4, <2>1 DEF TypedAs, UsesTls
<1>8. /\ s["ssl.key.password"] = ""
      /\ \A k \in CaKeys \cup LocationPair \cup PemPair : s[k] = "" \/ s[k] = "set"
      /\ s["enable.ssl.certificate.verification"] \in {"", "false"}
      /\ s["ssl.endpoint.identification.algorithm"] \in {"", "none"}
  <2>1. CaKeys \cup LocationPair \cup PemPair \subseteq SslKeys /\ "ssl.key.password" \in SslKeys
        /\ "enable.ssl.certificate.verification" \in SslKeys
        /\ "ssl.endpoint.identification.algorithm" \in SslKeys
    BY DEF SslKeys
  <2>2. s["ssl.key.password"] = ""
    BY <1>5, <2>1 DEF SslPairs
  <2>3. s["enable.ssl.certificate.verification"] \in {"", "false"}
    BY <1>5, <2>1 DEF SslPairs
  <2>4. s["ssl.endpoint.identification.algorithm"] \in {"", "none"}
    BY <1>5, <2>1 DEF SslPairs
  <2>5. ASSUME NEW k \in CaKeys \cup LocationPair \cup PemPair PROVE s[k] = "" \/ s[k] = "set"
    BY <1>5, <2>1 DEF SslPairs, CaKeys, LocationPair, PemPair
  <2> QED  BY <2>2, <2>3, <2>4, <2>5
<1>9. /\ s["ssl.certificate.location"] # "" <=> s["ssl.key.location"] # ""
      /\ s["ssl.certificate.pem"] # "" <=> s["ssl.key.pem"] # ""
  <2>1. ASSUME NEW k \in LocationPair \cup PemPair PROVE s[k] # "" <=> <<k, "set">> \in S
    <3>1. k \in SslKeys
      BY DEF SslKeys
    <3>2. s[k] # "" => <<k, "set">> \in S
      BY <1>5, <1>8, <3>1
    <3>3. <<k, "set">> \in S => s[k] # ""
      <4> SUFFICES ASSUME <<k, "set">> \in S PROVE s[k] # ""
        OBVIOUS
      <4>1. <<k, "set">> \in P
        BY <1>2
      <4> QED  BY <4>1 DEF CollectedFrom
    <3> QED  BY <3>2, <3>3
  <2> QED  BY <2>1 DEF TypedAs, Paired, LocationPair, PemPair
<1>10. ~VerificationRejects(s)
  BY <1>8 DEF VerificationRejects
<1>11. \A pair \in {LocationPair, PemPair} : ~(Has(s, pair) /\ ~HasAll(s, pair))
  <2>1. ~(Has(s, LocationPair) /\ ~HasAll(s, LocationPair))
    BY <1>9 DEF Has, HasAll, LocationPair
  <2>2. ~(Has(s, PemPair) /\ ~HasAll(s, PemPair))
    BY <1>9 DEF Has, HasAll, PemPair
  <2> QED  BY <2>1, <2>2
<1>12. ~\E k \in CaKeys \cup LocationPair \cup PemPair : s[k] = "bad"
  BY <1>8
<1>13. ~TlsRejects(s)
  BY <1>8, <1>10, <1>11, <1>12 DEF TlsRejects
<1> QED  BY <1>4, <1>6, <1>7, <1>13 DEF Q

LEMMA OptionalOf ==
  /\ Optional["none"] = {} /\ Optional["UserPass"] = {}
  /\ Optional["AwsMskIam"] = AwsKeys
  /\ Optional["OauthbearerOidc"] = {"sasl.oauthbearer.scope", "sasl.oauthbearer.extensions"}
  /\ Optional["GcpIam"] = GcpKeys
BY DEF Optional

\* A typed mechanism is taken, with whatever Options of it are Some.
LEMMA TypedMechanismTaken ==
  ASSUME NEW s, NEW p \in {"ssl", "sasl_ssl", "sasl_plaintext"},
         NEW choice \in SaslSetters \cup {NoChoice}, NEW O \in SUBSET Optionals,
         NEW Q, Q = ToSet(choice.keys) \cup {<<k, "set">> : k \in O},
         \A f \in SaslKeys : s[f] = "" \/ <<f, s[f]>> \in Q,
         \A k, v : <<k, v>> \in Q => s[k] # "",
         s["security.protocol"] = p,
         choice = NoChoice <=> p = "ssl",
         choice.forcesTls => p = "sasl_ssl",
         O \subseteq Optional[choice.kind],
         "aws.role.session.name" \in O => "aws.role.arn" \in O
  PROVE  /\ Has(s, SaslKeys) => UsesSasl(s)
         /\ UsesSasl(s) => ~MechanismRejects(s)
<1>1. SaslKeys = {"sasl.username", "sasl.password", "sasl.mechanism",
                  "aws.region", "aws.profile", "aws.role.arn", "aws.role.session.name",
                  "sasl.oauthbearer.token.endpoint.url", "sasl.oauthbearer.client.id",
                  "sasl.oauthbearer.client.secret", "sasl.oauthbearer.scope",
                  "sasl.oauthbearer.extensions", "sasl.oauthbearer.method",
                  "gcp.principal", "gcp.credentials.file"}
  BY DEF SaslKeys, CredentialKeys, UserKeys, AwsKeys, OauthKeys, OidcKeys, GcpKeys
<1>2. choice # NoChoice => UsesSasl(s)
  BY DEF UsesSasl
<1>3. "sasl.mechanism" \in SaslKeys
  BY <1>1
<1>4. CASE choice = NoChoice
  <2>1. ToSet(choice.keys) = {}
    BY <1>4, EmptyToSet DEF NoChoice
  <2>2. O = {}
    BY <1>4, OptionalOf DEF NoChoice
  <2>3. ~Has(s, SaslKeys)
    BY <2>1, <2>2 DEF Has
  <2>4. ~UsesSasl(s)
    BY <1>4 DEF UsesSasl
  <2> QED  BY <2>3, <2>4
<1>5. ASSUME choice.kind = "UserPass", choice # NoChoice, NEW m \in Passwords,
             ToSet(choice.keys) = {<<"sasl.mechanism", m>>, <<"sasl.username", "set">>,
                                   <<"sasl.password", "set">>}
      PROVE  ~MechanismRejects(s)
  <2>1. Q = {<<"sasl.mechanism", m>>, <<"sasl.username", "set">>, <<"sasl.password", "set">>}
    BY <1>5, OptionalOf
  <2>2. s["sasl.mechanism"] # "" /\ s["sasl.username"] # "" /\ s["sasl.password"] # ""
    BY <2>1
  <2>3. s["sasl.mechanism"] = m
    BY <1>3, <2>1, <2>2
  <2>4. \A f \in SaslKeys \ {"sasl.mechanism", "sasl.username", "sasl.password"} : s[f] = ""
    BY <2>1
  <2>5. ~Has(s, AwsKeys) /\ ~Has(s, OauthKeys) /\ ~Has(s, GcpKeys)
    BY <2>4, <1>1 DEF Has, AwsKeys, OauthKeys, OidcKeys, GcpKeys
  <2>6. HasAll(s, UserKeys)
    BY <2>2 DEF HasAll, UserKeys
  <2>7. Mechanism(s) = m
    BY <2>3, MechanismTaken DEF Mechanisms
  <2> QED  BY <2>5, <2>6, <2>7 DEF MechanismRejects, FamilyRejects, Mechanisms, Passwords, UsesGcp
<1>6. ASSUME choice.kind = "AwsMskIam", choice.forcesTls,
             ToSet(choice.keys) = {<<"sasl.mechanism", "AWS_MSK_IAM">>}
      PROVE  ~MechanismRejects(s)
  <2>1. O \subseteq AwsKeys
    BY <1>6, OptionalOf
  <2>2. Q = {<<"sasl.mechanism", "AWS_MSK_IAM">>} \cup {<<k, "set">> : k \in O}
    BY <1>6
  <2>3. \A f \in SaslKeys \ ({"sasl.mechanism"} \cup O) : s[f] = ""
    BY <2>2
  <2>4. s["sasl.mechanism"] = "AWS_MSK_IAM"
    <3>1. s["sasl.mechanism"] # ""
      BY <2>2
    <3>2. "sasl.mechanism" \notin O
      BY <2>1 DEF AwsKeys
    <3> QED  BY <1>3, <2>2, <3>1, <3>2
  <2>5. ~Has(s, UserKeys) /\ ~Has(s, OauthKeys) /\ ~Has(s, GcpKeys)
    BY <1>1, <2>1, <2>3 DEF Has, UserKeys, AwsKeys, OauthKeys, OidcKeys, GcpKeys
  <2>6. s["aws.role.session.name"] # "" => s["aws.role.arn"] # ""
    <3>1. s["aws.role.session.name"] # "" => "aws.role.session.name" \in O
      BY <1>1, <2>3
    <3>2. "aws.role.arn" \in O => s["aws.role.arn"] # ""
      BY <2>2
    <3> QED  BY <3>1, <3>2
  <2>7. ~AwsRejects(s)
    BY <1>6, <2>5, <2>6 DEF AwsRejects
  <2>8. Mechanism(s) = "AWS_MSK_IAM"
    BY <2>4, MechanismTaken DEF Mechanisms
  <2> QED  BY <2>5, <2>7, <2>8 DEF MechanismRejects, FamilyRejects, Mechanisms, Passwords, UsesGcp
<1>7. ASSUME choice.kind = "OauthbearerOidc",
             ToSet(choice.keys) = {<<"sasl.mechanism", "OAUTHBEARER">>,
                                   <<"sasl.oauthbearer.token.endpoint.url", "set">>,
                                   <<"sasl.oauthbearer.client.id", "set">>,
                                   <<"sasl.oauthbearer.client.secret", "set">>}
      PROVE  ~MechanismRejects(s)
  <2>1. O \subseteq {"sasl.oauthbearer.scope", "sasl.oauthbearer.extensions"}
    BY <1>7, OptionalOf
  <2>2. Q = {<<"sasl.mechanism", "OAUTHBEARER">>, <<"sasl.oauthbearer.token.endpoint.url", "set">>,
             <<"sasl.oauthbearer.client.id", "set">>, <<"sasl.oauthbearer.client.secret", "set">>}
              \cup {<<k, "set">> : k \in O}
    BY <1>7
  <2>3. \A f \in SaslKeys \ (O \cup {"sasl.mechanism", "sasl.oauthbearer.token.endpoint.url",
                                     "sasl.oauthbearer.client.id",
                                     "sasl.oauthbearer.client.secret"}) : s[f] = ""
    BY <2>2
  <2>4. s["sasl.mechanism"] = "OAUTHBEARER"
    <3>1. s["sasl.mechanism"] # ""
      BY <2>2
    <3> QED  BY <1>3, <2>1, <2>2, <3>1
  <2>5. HasAll(s, {"sasl.oauthbearer.token.endpoint.url", "sasl.oauthbearer.client.id",
                   "sasl.oauthbearer.client.secret"})
    BY <2>2 DEF HasAll
  <2>6. ~Has(s, UserKeys) /\ ~Has(s, AwsKeys) /\ ~Has(s, GcpKeys)
        /\ s["sasl.oauthbearer.method"] = ""
    BY <1>1, <2>1, <2>3 DEF Has, UserKeys, AwsKeys, GcpKeys
  <2>7. s["sasl.oauthbearer.extensions"] # "bad"
    BY <1>1, <2>1, <2>2
  <2>8. ~OidcRejects(s)
    BY <2>5, <2>6, <2>7 DEF OidcRejects
  <2>9. Mechanism(s) = "OAUTHBEARER"
    BY <2>4, MechanismTaken DEF Mechanisms
  <2> QED  BY <2>6, <2>8, <2>9 DEF MechanismRejects, FamilyRejects, Mechanisms, Passwords, UsesGcp
<1>8. ASSUME choice.kind = "GcpIam", choice.forcesTls,
             ToSet(choice.keys) = {<<"sasl.mechanism", "OAUTHBEARER">>,
                                   <<"sasl.oauthbearer.method", "gcp">>}
      PROVE  ~MechanismRejects(s)
  <2>1. O \subseteq GcpKeys
    BY <1>8, OptionalOf
  <2>2. Q = {<<"sasl.mechanism", "OAUTHBEARER">>, <<"sasl.oauthbearer.method", "gcp">>}
              \cup {<<k, "set">> : k \in O}
    BY <1>8
  <2>3. \A f \in SaslKeys \ ({"sasl.mechanism", "sasl.oauthbearer.method"} \cup O) : s[f] = ""
    BY <2>2
  <2>4. s["sasl.mechanism"] = "OAUTHBEARER" /\ s["sasl.oauthbearer.method"] = "gcp"
    <3>1. s["sasl.mechanism"] # "" /\ s["sasl.oauthbearer.method"] # ""
      BY <2>2
    <3>2. "sasl.mechanism" \notin O /\ "sasl.oauthbearer.method" \notin O
      BY <2>1 DEF GcpKeys
    <3>3. "sasl.oauthbearer.method" \in SaslKeys
      BY <1>1
    <3> QED  BY <1>3, <2>2, <3>1, <3>2, <3>3
  <2>5. ~Has(s, UserKeys) /\ ~Has(s, AwsKeys) /\ ~Has(s, OidcKeys)
    BY <1>1, <2>1, <2>3 DEF Has, UserKeys, AwsKeys, OidcKeys, GcpKeys
  <2>6. s["gcp.credentials.file"] # "bad"
    BY <1>1, <2>2
  <2>7. ~GcpRejects(s)
    BY <1>8, <2>5, <2>6 DEF GcpRejects
  <2>8. Mechanism(s) = "OAUTHBEARER"
    BY <2>4, MechanismTaken DEF Mechanisms
  <2> QED  BY <2>4, <2>5, <2>7, <2>8
           DEF MechanismRejects, FamilyRejects, Mechanisms, Passwords, UsesGcp
<1>9. CASE choice # NoChoice
  <2>1. ~MechanismRejects(s)
    BY <1>9, ChoiceKeys, <1>5, <1>6, <1>7, <1>8
  <2> QED  BY <1>2, <1>9, <2>1
<1> QED  BY <1>4, <1>9

\* What collect makes of the effective configuration.
LEMMA EffectiveCollected ==
  ASSUME ClientInv, NEW P, P = SecurityPairs(kafkaConfig),
         \A k, v : <<k, v>> \in P => v # "" /\ k # "sasl.mechanisms" /\ k \in SecurityKeys,
         \A k, v : <<k, v>> \in P => Stored(k, v) = v
  PROVE  /\ CollectedFrom(Collect(Effective), P)
         /\ P = {} => DOMAIN Effective \cap SecurityKeys = {}
         /\ \A f \in Fields : Collect(Effective)[f] = "" <=> f \notin DOMAIN Effective
<1> DEFINE s == Collect(Effective)
<1>1. ASSUME NEW k \in DOMAIN Effective \cap SecurityKeys PROVE <<k, Effective[k]>> \in P
  <2>1. PICK i \in 1..Len(kafkaConfig) : kafkaConfig[i][1] = k /\ kafkaConfig[i][2] = Effective[k]
    BY EffectiveHoldsLast DEF HoldsLast
  <2>2. kafkaConfig[i] = <<k, Effective[k]>> /\ kafkaConfig[i] \in ToSet(kafkaConfig)
    BY <2>1, EffectiveHoldsLast
  <2> QED  BY <2>1, <2>2 DEF SecurityPairs
<1>2. "sasl.mechanisms" \notin DOMAIN Effective
  <2>1. "sasl.mechanisms" \in SecurityKeys
    BY DEF SecurityKeys
  <2> QED  BY <1>1, <2>1
<1>4. Fields \subseteq SecurityKeys
  BY DEF SecurityKeys
<1>3. \A f \in Fields : s[f] = IF f \in DOMAIN Effective THEN Effective[f] ELSE ""
  <2> TAKE f \in Fields
  <2>1. s[f] = IF f \in DOMAIN Effective THEN Stored(f, Effective[f]) ELSE ""
    BY <1>2 DEF Collect
  <2>2. f \in DOMAIN Effective => Stored(f, Effective[f]) = Effective[f]
    BY <1>1, <1>4
  <2> QED  BY <2>1, <2>2
<1>5. ASSUME NEW k, NEW v, <<k, v>> \in P PROVE k \in DOMAIN Effective /\ k \in Fields /\ s[k] # ""
  <2>1. PICK i \in 1..Len(kafkaConfig) : kafkaConfig[i] = <<k, v>>
    <3>1. <<k, v>> \in ToSet(kafkaConfig)
      BY <1>5 DEF SecurityPairs
    <3> QED  BY <3>1, EffectiveHoldsLast
  <2>2. kafkaConfig[i][1] = k
    <3>1. <<k, v>>[1] = k
      OBVIOUS
    <3> QED  BY <2>1, <3>1, Zenon
  <2>3. k \in DOMAIN Effective
    BY <2>2, EffectiveHoldsLast DEF HoldsLast
  <2>4. k \in Fields
    BY <1>5 DEF SecurityKeys
  <2>5. <<k, Effective[k]>> \in P
    BY <1>1, <1>4, <2>3, <2>4
  <2>6. Effective[k] # ""
    BY <2>5
  <2> QED  BY <1>3, <2>3, <2>4, <2>6
<1>6. \A f \in Fields : s[f] = "" <=> f \notin DOMAIN Effective
  <2> TAKE f \in Fields
  <2>1. f \in DOMAIN Effective => <<f, Effective[f]>> \in P
    BY <1>1, <1>4
  <2>2. f \in DOMAIN Effective => Effective[f] # ""
    BY <2>1
  <2> QED  BY <1>3, <2>2
<1>7. \A f \in Fields : s[f] = "" \/ <<f, s[f]>> \in P
  BY <1>1, <1>3, <1>4
<1> HIDE DEF s
<1>8. CollectedFrom(s, P)
  BY <1>5, <1>7 DEF CollectedFrom
<1>9. P = {} => DOMAIN Effective \cap SecurityKeys = {}
  BY <1>1
<1> QED  BY <1>6, <1>8, <1>9 DEF s

LEMMA TypedPairsKnown ==
  ASSUME NEW P, NEW p \in {"ssl", "sasl_ssl", "sasl_plaintext"}, NEW S \in SUBSET SslPairs,
         NEW choice \in SaslSetters \cup {NoChoice}, NEW O \in SUBSET Optionals,
         TypedAs(P, p, S, choice, O)
  PROVE  /\ \A k, v : <<k, v>> \in P => v # "" /\ k # "sasl.mechanisms" /\ k \in SecurityKeys
         /\ \A k, v : <<k, v>> \in P => Stored(k, v) = v
<1>1. ToSet(choice.keys) \subseteq SaslPairs
  <2>1. CASE choice = NoChoice
    BY <2>1, EmptyToSet DEF NoChoice
  <2>2. CASE choice \in SaslSetters
    <3>1. choice.keys \in Seq(SaslPairs)
      BY <2>2, SaslSetterKeys
    <3> QED  BY <3>1 DEF ToSet
  <2> QED  BY <2>1, <2>2
<1>2. {<<k, "set">> : k \in O} \subseteq SaslPairs
  BY OptionalKeys DEF SaslPairs
<1>3. P \subseteq {<<"security.protocol", p>>} \cup SslPairs \cup SaslPairs
  BY <1>1, <1>2 DEF TypedAs
<1>4. \A k, v : <<k, v>> \in SslPairs => v # "" /\ k \in SslKeys
  BY DEF SslPairs, SslKeys, CaKeys, LocationPair, PemPair
<1>5. \A k, v : <<k, v>> \in SaslPairs => v # "" /\ k \in SaslKeys
  <2>1. "" \notin Mechanisms /\ CredentialKeys \subseteq SaslKeys /\ "sasl.mechanism" \in SaslKeys
        /\ "sasl.oauthbearer.method" \in SaslKeys
    BY DEF Mechanisms, Passwords, SaslKeys, CredentialKeys, OauthKeys
  <2> QED  BY <2>1 DEF SaslPairs
<1>6. "sasl.mechanisms" \notin SslKeys /\ "sasl.mechanisms" \notin SaslKeys
  BY DEF SslKeys, CaKeys, LocationPair, PemPair, SaslKeys, CredentialKeys, UserKeys, AwsKeys,
         OauthKeys, OidcKeys, GcpKeys
<1>7. \A k, v : <<k, v>> \in P => v # "" /\ k # "sasl.mechanisms" /\ k \in SecurityKeys
  BY <1>3, <1>4, <1>5, <1>6, TypedKeysAreSecurity
<1>8. ASSUME NEW k, NEW v \in {"set", "false", "none", "gcp"} PROVE Stored(k, v) = v
  <2>1. v \in LowerNames \cup {"set"}
    BY DEF LowerNames
  <2>2. TrimSpace(v) = v /\ ToLower(v) = v
    BY <2>1, StringsAssumption
  <2> QED  BY <2>2 DEF Stored, Folded
<1>9. ASSUME NEW v PROVE Stored("sasl.mechanism", v) = v
  BY DEF Stored, FoldedKeys, TrimmedKeys, AwsKeys, GcpKeys
<1>10. \A k, v : <<k, v>> \in SslPairs => v \in {"set", "false", "none", "gcp"}
  BY DEF SslPairs
<1>11. \A k, v : <<k, v>> \in SaslPairs => k = "sasl.mechanism" \/ v \in {"set", "false", "none", "gcp"}
  BY DEF SaslPairs
<1>12. ASSUME NEW k, NEW v, <<k, v>> \in P PROVE Stored(k, v) = v
  <2>1. CASE <<k, v>> \in SslPairs
    BY <1>8, <1>10, <2>1
  <2>2. CASE <<k, v>> \in SaslPairs
    BY <1>8, <1>9, <1>11, <2>2
  <2>3. CASE <<k, v>> = <<"security.protocol", p>>
    BY <2>3, ProtocolStored
  <2> QED  BY <1>3, <1>12, <2>1, <2>2, <2>3
<1> QED  BY <1>7, <1>12

\* What is left to fail once nothing is rejected.
LEMMA FetchLeft ==
  ASSUME NEW s, NEW env
  PROVE  \/ Fetch(s, env).code = 0
         \/ Fetch(s, env).code = errAdapter
         \/ Source(s) = "gcp" /\ s["gcp.principal"] = ""
<1>1. /\ Client(s).code = 0
      /\ Refused(errAdapter, FALSE).code = errAdapter
      /\ Refused(errAdapter, TRUE).code = errAdapter
  BY DEF Client, Refused
<1> QED  BY <1>1 DEF Fetch

LEMMA TypedAccepted == ASSUME ClientInv PROVE TypedSettersAccepted
<1> DEFINE s == Collect(Effective)
           P == SecurityPairs(kafkaConfig)
<1> SUFFICES ASSUME outcome # None, Len(layers) = 1, layers[1].typed,
                    ~(CaKeys \subseteq DOMAIN Effective),
                    LocationPair \cap DOMAIN Effective = {} \/ PemPair \cap DOMAIN Effective = {}
             PROVE  \/ outcome.code = 0
                    \/ outcome.code = errAdapter
                    \/ Source(s) = "gcp" /\ "gcp.principal" \notin DOMAIN Effective
  BY DEF TypedSettersAccepted
<1>1. ~deferred /\ TypedSecurity(P)
  BY DEF ClientInv, Layered
<1>2. PICK env \in Environments : outcome = Build(Effective, env)
  BY <1>1 DEF ClientInv, OutcomeExplained
<1>3. Client(s).code = 0
  BY DEF Client
<1>4. CASE P = {}
  <2>1. DOMAIN Effective \cap SecurityKeys = {}
    BY <1>4, EffectiveCollected
  <2> QED  BY <1>2, <1>3, <2>1 DEF Build
<1>5. CASE P # {}
  <2>1. PICK p \in {"ssl", "sasl_ssl", "sasl_plaintext"}, S \in SUBSET (P \cap SslPairs),
             choice \in SaslSetters \cup {NoChoice}, O \in SUBSET Optionals :
               TypedAs(P, p, S, choice, O)
    BY <1>1, <1>5 DEF TypedSecurity
  <2>2. /\ \A k, v : <<k, v>> \in P => v # "" /\ k # "sasl.mechanisms" /\ k \in SecurityKeys
        /\ \A k, v : <<k, v>> \in P => Stored(k, v) = v
    BY <2>1, TypedPairsKnown
  <2>3. CollectedFrom(s, P) /\ \A f \in Fields : s[f] = "" <=> f \notin DOMAIN Effective
    BY <2>2, EffectiveCollected
  <2>4. CaKeys \cup LocationPair \cup PemPair \subseteq Fields /\ "gcp.principal" \in Fields
    BY DEF Fields, SslKeys, SaslKeys, CredentialKeys, GcpKeys
  <2> HIDE DEF s, P
  <2>5. ~HasAll(s, CaKeys)
    BY <2>3, <2>4 DEF HasAll
  <2>6. ~Has(s, LocationPair) \/ ~Has(s, PemPair)
    BY <2>3, <2>4 DEF Has
  <2> DEFINE Q == ToSet(choice.keys) \cup {<<k, "set">> : k \in O}
  <2>7. /\ ~TlsRejects(s)
        /\ s["security.protocol"] = p
        /\ Has(s, SslKeys) => UsesTls(s)
        /\ \A f \in SaslKeys : s[f] = "" \/ <<f, s[f]>> \in Q
    BY <2>1, <2>3, <2>5, <2>6, TypedTlsTaken
  <2>8. \A k, v : <<k, v>> \in Q => s[k] # ""
    <3>1. Q \subseteq P
      BY <2>1 DEF TypedAs
    <3> HIDE DEF Q
    <3> QED  BY <2>3, <3>1 DEF CollectedFrom
  <2>9. /\ choice = NoChoice <=> p = "ssl"
        /\ choice.forcesTls => p = "sasl_ssl"
        /\ O \subseteq Optional[choice.kind]
        /\ "aws.role.session.name" \in O => "aws.role.arn" \in O
    BY <2>1 DEF TypedAs
  <2>10. (Has(s, SaslKeys) => UsesSasl(s)) /\ (UsesSasl(s) => ~MechanismRejects(s))
    BY <2>1, <2>7, <2>8, <2>9, TypedMechanismTaken
  <2>11. ~ProtocolRejects(s)
    BY <2>7, <2>10 DEF ProtocolRejects
  <2>12. outcome = Client(s) \/ outcome = Fetch(s, env)
    <3>1. ~Rejects(s)
      BY <2>7, <2>10, <2>11 DEF Rejects
    <3> QED  BY <1>2, <3>1 DEF Build, s
  <2> QED  BY <1>3, <2>3, <2>4, <2>12, FetchLeft
<1> QED  BY <1>4, <1>5

-----------------------------------------------------------------------------
(* The theorems *)

(***************************************************************************)
(* deduped_kafka_config sends each key once, with the value written last,  *)
(* whatever the setters, pairs and layers.                                 *)
(***************************************************************************)
THEOREM LastWrite == ClientSpec => []LastWriteWins
BY ClientInvariant, LastWriteHolds, PTL

(***************************************************************************)
(* In a client that was built, every credential that was configured        *)
(* belongs to the mechanism that authenticates (saslMechanism and the      *)
(* cross-checks of each mechanism).                                        *)
(***************************************************************************)
THEOREM NoCredentialUnused == ClientSpec => []CredentialsAllUsed
BY ClientInvariant, CredentialsUsed, PTL

(***************************************************************************)
(* A client built from Options that asked for TLS encrypts, an IAM         *)
(* mechanism never runs in the clear, and verification is weakened only    *)
(* for a host that asked for exactly that (Options::validate,              *)
(* awsIAMMechanism, gcpIAMMechanism, tlsConfig).                           *)
(***************************************************************************)
THEOREM TlsAsAsked == ClientSpec => []TlsNotDowngraded
BY ClientInvariant, TlsKept, PTL

(***************************************************************************)
(* Typed setters alone, in any order and number, make a configuration that *)
(* franzSecurity.build takes, unless they name two sources for one         *)
(* certificate or the environment refuses.                                 *)
(***************************************************************************)
THEOREM TypedSettersWork == ClientSpec => []TypedSettersAccepted
BY ClientInvariant, TypedAccepted, PTL
=============================================================================
