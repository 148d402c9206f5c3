-------------------------- MODULE MCFranzOptions --------------------------
(***************************************************************************)
(* FranzOptions over every document with at most two options from a list   *)
(* that has, for each family, a good value, a refused one and one whose    *)
(* duration wraps, and with larger combinations of security keys.  A       *)
(* millisecond is 4 units and an int64 -64 .. 63.                          *)
(***************************************************************************)
EXTENDS FranzOptions, FiniteSets

\* The spellings that occur, and what package strings makes of them.
MCTrimSpace(v) ==
  CASE v = " "       -> ""
    [] v = " SSL"    -> "SSL"
    [] v = "False "  -> "False"
    [] v = "aws_msk_iam " -> "aws_msk_iam"
    [] OTHER         -> v
MCToLower(v) ==
  CASE v = "SSL"     -> "ssl"
    [] v = "SASL_SSL" -> "sasl_ssl"
    [] v = "False"   -> "false"
    [] v = "TRUE"    -> "true"
    [] v = "Range"   -> "range"
    [] OTHER         -> v
MCToUpper(v) ==
  CASE v = "plain"   -> "PLAIN"
    [] v = "aws_msk_iam" -> "AWS_MSK_IAM"
    [] OTHER         -> v

NumberedOptions ==
  {RebalanceKey, BailKey, LogIntervalKey, BackoffKey} \X {NotANumber, 0, 2, 3, 4, 8, 20, 34, 64}

NamedOptions ==
  {<<LogLevelKey, "info">>, <<LogLevelKey, "loud">>,
   <<FetchWaitKey, 2>>, <<FetchWaitAlias, 3>>,
   <<"isolation.level", "read_committed">>, <<"isolation.level", "read_uncommitted">>,
   <<"group.id", "other">>, <<"client.id", <<>> >>, <<"client.rack", <<32>> >>,
   <<"no.such.option", <<49>> >>, <<"check.crcs", "False ">>, <<"check.crcs", "TRUE">>,
   <<"fetch.min.bytes", 1>>, <<"fetch.min.bytes", 64>>,
   <<"partition.assignment.strategy", <<"sticky", "Range">> >>,
   <<"partition.assignment.strategy", <<"sticky", "">> >>,
   <<"security.protocol", " SSL">>, <<"security.protocol", "sasl_ssl">>}

Gcp ==
  {<<"security.protocol", "SASL_SSL">>, <<"sasl.mechanism", "OAUTHBEARER">>,
   <<"sasl.oauthbearer.method", "gcp">>}

Security ==
  {{<<"security.protocol", "ssl">>, <<"enable.ssl.certificate.verification", v>>,
    <<"ssl.endpoint.identification.algorithm", a>>} : v \in {"False ", "true", " "}, a \in {"none", "other"}}
  \cup
  {{<<"security.protocol", p>>, <<"sasl.mechanism", "AWS_MSK_IAM">>, <<"sasl.mechanisms", m>>,
    <<"aws.region", r>>} : p \in {"sasl_ssl", "plaintext"}, m \in {"plain", "aws_msk_iam "}, r \in {"set", " "}}

AsConfig(pairs) ==
  [k \in {p[1] : p \in pairs} |-> (CHOOSE p \in pairs : p[1] = k)[2]]

Options == NumberedOptions \cup NamedOptions
Configs == {AsConfig({o1, o2}) : o1, o2 \in Options}
             \cup {AsConfig(Gcp \cup {o}) : o \in Options \ {<<"security.protocol", " SSL">>}}
             \cup {AsConfig(pairs) : pairs \in Security}
             \cup {<<>>}

Name == <<97>>
Plain ==
  [wellFormed |-> TRUE, demuxKnown |-> TRUE, topic |-> Name, brokers |-> Name, consumer_group |-> Name,
   adapter |-> "", demux |-> <<>>, stats |-> Absent, flush |-> Absent, kafka |-> <<>>]

Demuxes == {<<>>} \cup [{"drainTimeout"} -> {-4, 0, 8, 12, 24, 32}]

MCDocuments ==
  {[Plain EXCEPT !.kafka = c, !.demux = d] : c \in Configs, d \in Demuxes}
    \cup {[Plain EXCEPT !.demux = d, !.kafka = AsConfig(Gcp)] : d \in [{"pollTimeout"} -> {4}]}
    \cup {[Plain EXCEPT !.wellFormed = FALSE], [Plain EXCEPT !.demuxKnown = FALSE],
          [Plain EXCEPT !.brokers = <<>>], [Plain EXCEPT !.adapter = "other"],
          [Plain EXCEPT !.adapter = "franz", !.stats = 4, !.flush = 1],
          [Plain EXCEPT !.stats = 1], [Plain EXCEPT !.flush = NotANumber], [Plain EXCEPT !.flush = 0]}
=============================================================================
