--------------------------- MODULE FranzSecurity ---------------------------
(***************************************************************************)
(* The bridge's assembly of the security options                           *)
(* (bridge/franz_security.go, aws_iam.go, gcp_iam.go, oauth_oidc.go): the  *)
(* security keys are collected first, then validated as one unit, and only *)
(* then are credentials fetched.  Operators only; ClientOptions drives     *)
(* them.                                                                   *)
(*                                                                         *)
(* A configuration is a function from option keys to values.  A file, a    *)
(* certificate or an extension list whose content is not usable is "bad",  *)
(* a value that is neither blank nor unusable "set".                       *)
(***************************************************************************)
EXTENDS Integers

CONSTANTS
  ToLower(_), ToUpper(_), TrimSpace(_)   \* external: Go's package strings

CaKeys       == {"ssl.ca.location", "ssl.ca.pem"}
LocationPair == {"ssl.certificate.location", "ssl.key.location"}
PemPair      == {"ssl.certificate.pem", "ssl.key.pem"}
SslKeys      == CaKeys \cup LocationPair \cup PemPair
                  \cup {"ssl.key.password", "enable.ssl.certificate.verification",
                        "ssl.endpoint.identification.algorithm"}
UserKeys     == {"sasl.username", "sasl.password"}
AwsKeys      == {"aws.region", "aws.profile", "aws.role.arn", "aws.role.session.name"}
OidcKeys     == {"sasl.oauthbearer.token.endpoint.url", "sasl.oauthbearer.client.id",
                 "sasl.oauthbearer.client.secret", "sasl.oauthbearer.scope",
                 "sasl.oauthbearer.extensions"}
OauthKeys    == OidcKeys \cup {"sasl.oauthbearer.method"}
GcpKeys      == {"gcp.principal", "gcp.credentials.file"}
CredentialKeys == UserKeys \cup AwsKeys \cup OauthKeys \cup GcpKeys
SaslKeys     == CredentialKeys \cup {"sasl.mechanism"}
Fields       == SslKeys \cup SaslKeys \cup {"security.protocol"}
SecurityKeys == Fields \cup {"sasl.mechanisms"}

Passwords  == {"PLAIN", "SCRAM-SHA-256", "SCRAM-SHA-512"}
Mechanisms == Passwords \cup {"AWS_MSK_IAM", "OAUTHBEARER"}

\* The names the code compares with, as it spells them.
LowerNames ==
  {"", "plaintext", "ssl", "sasl_plaintext", "sasl_ssl", "true", "false", "https", "none",
   "oidc", "gcp"}

ASSUME StringsAssumption ==
  /\ \A v \in LowerNames \cup {"set"} : ToLower(v) = v
  /\ \A v \in Mechanisms : ToUpper(v) = v
  /\ \A v \in LowerNames \cup Mechanisms \cup {"set"} : TrimSpace(v) = v

errAdapter   == -4
errBadOption == -5

Folded(v) == ToLower(TrimSpace(v))

FoldedKeys  == {"security.protocol", "enable.ssl.certificate.verification",
                "ssl.endpoint.identification.algorithm", "sasl.oauthbearer.method"}
TrimmedKeys == AwsKeys \cup GcpKeys
                 \cup {"sasl.oauthbearer.token.endpoint.url", "sasl.oauthbearer.scope"}

\* What the collector of each key stores of its value.
Stored(key, v) ==
  IF key \in FoldedKeys THEN Folded(v) ELSE IF key \in TrimmedKeys THEN TrimSpace(v) ELSE v

\* franzSecurity.collect over the sorted keys: "sasl.mechanisms" sorts after
\* its alias and stores into the same field.
Collect(config) ==
  [f \in Fields |->
     IF f = "sasl.mechanism" /\ "sasl.mechanisms" \in DOMAIN config
     THEN config["sasl.mechanisms"]
     ELSE IF f \in DOMAIN config THEN Stored(f, config[f]) ELSE ""]

Has(s, keys)    == \E k \in keys : s[k] # ""
HasAll(s, keys) == \A k \in keys : s[k] # ""

UsesTls(s)  == s["security.protocol"] \in {"ssl", "sasl_ssl"}
UsesSasl(s) == s["security.protocol"] \in {"sasl_plaintext", "sasl_ssl"}

\* The mechanism saslMechanism goes by.
Mechanism(s) == ToUpper(TrimSpace(s["sasl.mechanism"]))

UsesGcp(s) == Mechanism(s) = "OAUTHBEARER" /\ s["sasl.oauthbearer.method"] = "gcp"

-----------------------------------------------------------------------------
(* What is refused before anything is fetched *)

ProtocolRejects(s) ==
  \/ s["security.protocol"] \notin {"plaintext", "ssl", "sasl_plaintext", "sasl_ssl"}
  \/ ~UsesTls(s)  /\ Has(s, SslKeys)
  \/ ~UsesSasl(s) /\ Has(s, SaslKeys)

\* The algorithm is looked at only when certificates are verified at all.
VerificationRejects(s) ==
  \/ s["enable.ssl.certificate.verification"] \notin {"", "true", "false"}
  \/ /\ s["enable.ssl.certificate.verification"] # "false"
     /\ s["ssl.endpoint.identification.algorithm"] \notin {"", "https", "none"}

TlsRejects(s) ==
  \/ s["ssl.key.password"] # ""
  \/ HasAll(s, CaKeys)
  \/ \E k \in CaKeys \cup LocationPair \cup PemPair : s[k] = "bad"
  \/ Has(s, LocationPair) /\ Has(s, PemPair)
  \/ \E pair \in {LocationPair, PemPair} : Has(s, pair) /\ ~HasAll(s, pair)
  \/ VerificationRejects(s)

\* Mutant: the families are not checked against the mechanism.
FamilyRejectsNothing(s) == FALSE

\* A key of a family that belongs to another mechanism than the one selected.
FamilyRejects(s) ==
  \/ Has(s, AwsKeys)   /\ Mechanism(s) # "AWS_MSK_IAM"
  \/ Has(s, OauthKeys) /\ Mechanism(s) # "OAUTHBEARER"
  \/ Has(s, GcpKeys)   /\ ~UsesGcp(s)

\* Mutant: the IAM mechanisms are let through in the clear.
AwsRejectsKeysOnly(s) ==
  \/ Has(s, UserKeys)
  \/ s["aws.role.session.name"] # "" /\ s["aws.role.arn"] = ""

AwsRejects(s) ==
  \/ s["security.protocol"] # "sasl_ssl"
  \/ Has(s, UserKeys)
  \/ s["aws.role.session.name"] # "" /\ s["aws.role.arn"] = ""

GcpRejects(s) ==
  \/ s["security.protocol"] # "sasl_ssl"
  \/ Has(s, UserKeys)
  \/ Has(s, OidcKeys)
  \/ s["gcp.credentials.file"] = "bad"

OidcRejects(s) ==
  \/ Has(s, UserKeys)
  \/ s["sasl.oauthbearer.method"] \notin {"", "oidc"}
  \/ ~HasAll(s, {"sasl.oauthbearer.token.endpoint.url", "sasl.oauthbearer.client.id",
                 "sasl.oauthbearer.client.secret"})
  \/ s["sasl.oauthbearer.extensions"] = "bad"

MechanismRejects(s) ==
  \/ Mechanism(s) \notin Mechanisms
  \/ FamilyRejects(s)
  \/ Mechanism(s) \in Passwords /\ ~HasAll(s, UserKeys)
  \/ Mechanism(s) = "AWS_MSK_IAM" /\ AwsRejects(s)
  \/ UsesGcp(s) /\ GcpRejects(s)
  \/ Mechanism(s) = "OAUTHBEARER" /\ ~UsesGcp(s) /\ OidcRejects(s)

-----------------------------------------------------------------------------
(* What is built *)

Verification(s) ==
  CASE ~UsesTls(s)                                          -> "off"
    [] s["enable.ssl.certificate.verification"] = "false"   -> "unverified"
    [] s["ssl.endpoint.identification.algorithm"] = "none"
         /\ s["enable.ssl.certificate.verification"] # "false" -> "chain"
    [] OTHER                                                -> "full"

Source(s) ==
  IF ~UsesSasl(s)                              THEN "none"
  ELSE IF Mechanism(s) \in Passwords    THEN "password"
  ELSE IF Mechanism(s) = "AWS_MSK_IAM"  THEN "aws"
  ELSE IF UsesGcp(s)                           THEN "gcp" ELSE "oidc"

\* The credential keys a source authenticates with.
UsedBy(source) ==
  CASE source = "password" -> UserKeys
    [] source = "aws"      -> AwsKeys
    [] source = "oidc"     -> OauthKeys
    [] source = "gcp"      -> GcpKeys \cup {"sasl.oauthbearer.method"}
    [] OTHER               -> {}

Refused(code, fetched) ==
  [code |-> code, tls |-> "off", sasl |-> "none", fetched |-> fetched]

Client(s) ==
  [code |-> 0, tls |-> Verification(s), sasl |-> Source(s),
   fetched |-> Source(s) \in {"aws", "oidc", "gcp"}]

\* External: what the identity source may do.  The AWS or Google libraries may
\* resolve to nothing, Google's to an identity without an email; any source
\* may refuse or time out.
Environments == {"answers", "unresolved", "anonymous", "refuses"}

\* The eager fetches of awsIAMMechanism, gcpIAMMechanism, oauthOIDCMechanism.
Fetch(s, env) ==
  CASE Source(s) \in {"aws", "gcp"} /\ env = "unresolved" -> Refused(errAdapter, FALSE)
    [] Source(s) = "gcp" /\ env = "anonymous" /\ s["gcp.principal"] = ""
                                                         -> Refused(errBadOption, FALSE)
    [] Source(s) \in {"aws", "oidc", "gcp"} /\ env = "refuses" -> Refused(errAdapter, TRUE)
    [] OTHER                                             -> Client(s)

\* What franzSecurity.build refuses of the collected keys.
Rejects(s) ==
  \/ ProtocolRejects(s)
  \/ UsesTls(s) /\ TlsRejects(s)
  \/ UsesSasl(s) /\ MechanismRejects(s)

\* franzSecurity.build.
Build(config, env) ==
  LET s == Collect(config) IN
  IF DOMAIN config \cap SecurityKeys = {} THEN Client(s)
  ELSE IF Rejects(s) THEN Refused(errBadOption, FALSE) ELSE Fetch(s, env)
=============================================================================
