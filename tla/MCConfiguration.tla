-------------------------- MODULE MCConfiguration --------------------------
(***************************************************************************)
(* The two halves of the configuration, side by side; neither reads the    *)
(* other's state, so only one of them takes steps.                         *)
(*                                                                         *)
(* The client's half: string pairs that agree and disagree with the typed  *)
(* setters, in more than one spelling, and property files for each way to  *)
(* authenticate.  The document's half: texts that are empty and of         *)
(* characters JSON does not take, Durations of none, less than one, one    *)
(* and more milliseconds, up to the widest and beyond; and the documents   *)
(* of MCFranzOptions.                                                      *)
(***************************************************************************)
EXTENDS MCFranzOptions, Document, ClientOptions

MCPairs ==
  {<<"security.protocol", "sasl_plaintext">>, <<"security.protocol", "plaintext">>,
   <<"sasl.mechanisms", "plain">>, <<"sasl.username", "other">>, <<"aws.region", "set">>,
   <<"aws.region", " ">>, <<"enable.ssl.certificate.verification", "False ">>,
   <<"sasl.oauthbearer.method", "gcp">>, <<"gcp.principal", "set">>,
   <<"ssl.ca.location", "bad">>, <<"ssl.endpoint.identification.algorithm", "other">>,
   <<"fetch.min.bytes", "1">>}

MCFiles ==
  {<< <<"security.protocol", "SASL_SSL">>, <<"sasl.mechanisms", "SCRAM-SHA-512">>,
      <<"sasl.username", "set">>, <<"sasl.password", "set">> >>,
   << <<"security.protocol", "sasl_plaintext">>, <<"sasl.mechanism", "aws_msk_iam ">> >>}

\* a, a quote, a backslash, NUL, newline, unit separator and an e-acute.
MCTexts     == {<<>>, <<97, 34, 92, 0, 10, 31, 233>>}
MCDurations == {0, 1, 4, 14, 35, 61}
MCCounts    == {0, 1, 64}
MCHostPairs ==
  {<<FetchWaitAlias, 3>>, <<FetchWaitKey, 5>>, <<RebalanceKey, NotANumber>>, <<BackoffKey, 34>>,
   <<UnknownKey, <<9, 47>> >>, <<"client.id", <<13>> >>, <<"security.protocol", "ssl">>}

DocIdle ==
  /\ stage = "idle" /\ document = Null /\ builder = Null
  /\ config = <<>> /\ adapter = <<>> /\ opts = <<>> /\ code = 0 /\ fetched = FALSE
  /\ demux = <<>> /\ asked = <<>> /\ made = 0

MCInit == ClientInit /\ (DocInit \/ DocIdle)

MCNext ==
  \/ stage = "idle" /\ ClientNext /\ UNCHANGED docVars
  \/ stage # "idle" /\ DocNext /\ UNCHANGED clientVars

MCSpec == MCInit /\ [][MCNext]_<<docVars, clientVars>>
=============================================================================
