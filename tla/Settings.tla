------------------------------ MODULE Settings ------------------------------
(***************************************************************************)
(* The property file of src/sdk/iotclient/IotClient.c: how its lines become*)
(* the record Properties (readProperties, getKeyNValue_1), which records   *)
(* are accepted (checkPropertiesAreOkay), and what iotclient_connect and   *)
(* getAuthCodeWithIDPW take from an accepted one.                          *)
(*                                                                         *)
(* A line is the sequence of its texts between the signs "=" and the end of*)
(* the line: nothing (the last line of a file may have none), "\n" or      *)
(* "\r\n".                                                                 *)
(***************************************************************************)
EXTENDS Naturals, Sequences, FiniteSetsExt

CONSTANTS Ignored,   \* texts that begin with "#" or a space
          Number,    \* values that atoi takes for a number other than 0
          Existing   \* names of files that can be opened

Key == {"authType", "host", "apiPort", "apiSslOpts", "apiTrustStore", "thingPort",
        "thingSslOpts", "thingTrustStore", "msgHeaderType", "keyStore",
        "keyPassword", "dataEncryption"}

Empty == ""

ASSUME SettingsAssumption == Ignored \cap (Key \cup {Empty}) = {} /\ Empty \notin Existing

Ending == {Empty, "\n", "\r\n"}

\* A comment or a blank line.
Skipped(line) ==
  \/ Head(line.texts) \in Ignored
  \/ line.texts = <<Empty>> /\ line.end # Empty

\* The places of the tokens strtok finds: it passes over empty texts, and the end of
\* the line belongs to the last one.
Tokens(line) ==
  {i \in DOMAIN line.texts :
     line.texts[i] # Empty \/ (i = Len(line.texts) /\ line.end # Empty)}
KeyAt(line) == Min(Tokens(line))
ValueAt(line) == Min(Tokens(line) \ {KeyAt(line)})

\* A line without a second token: getKeyNValue_1 follows a null pointer.
NoValue(line) == ~Skipped(line) /\ ~\E i, j \in Tokens(line) : i < j

\* One round of readProperties: the text of the second token, without the end of
\* the line, replaces the value of a known key; what follows is dropped.
Stored(properties, line) ==
  IF Skipped(line) \/ line.texts[KeyAt(line)] \notin Key THEN properties
  ELSE [properties EXCEPT ![line.texts[KeyAt(line)]] = line.texts[ValueAt(line)]]
-----------------------------------------------------------------------------
\* Mutant of checkPropertiesAreOkay: a trust store is asked for only with the
\* option "1".
checkPropertiesAreOkay_two_way(p) ==
  /\ p.authType \in {"5", "6"}
  /\ p.host # Empty
  /\ p.apiPort \in Number /\ p.thingPort \in Number
  /\ p.apiSslOpts \in {"0", "1"} /\ (p.apiSslOpts = "1" => p.apiTrustStore # Empty)
  /\ p.thingSslOpts \in {"0", "1", "2"}
  /\ p.thingSslOpts = "1" => p.thingTrustStore # Empty
  /\ p.thingSslOpts = "2" => p.keyStore # Empty
  /\ p.msgHeaderType \in {"D", "J"}
  /\ p.dataEncryption \in {"0", "1"}

\* An empty keyPassword is only warned about.
checkPropertiesAreOkay(p) ==
  /\ p.authType \in {"5", "6"}
  /\ p.host # Empty
  /\ p.apiPort \in Number /\ p.thingPort \in Number
  /\ p.apiSslOpts \in {"0", "1"} /\ (p.apiSslOpts = "1" => p.apiTrustStore # Empty)
  /\ p.thingSslOpts \in {"0", "1", "2"}
  /\ p.thingSslOpts \in {"1", "2"} => p.thingTrustStore # Empty
  /\ p.thingSslOpts = "2" => p.keyStore # Empty
  /\ p.msgHeaderType \in {"D", "J"}
  /\ p.dataEncryption \in {"0", "1"}

\* What the thing manager is created with: the key store is taken over only for
\* the type "6", which is always connected with the option "2".
ThingProperties(p) ==
  [sslOpts |-> IF p.authType = "5" THEN p.thingSslOpts ELSE "2",
   trustStore |-> p.thingTrustStore,
   keyStore |-> IF p.authType = "5" THEN Empty ELSE p.keyStore]

\* What the API manager is created with.
ApiProperties(p) ==
  [sslOpts |-> IF p.authType = "5" THEN p.apiSslOpts ELSE "2",
   trustStore |-> p.apiTrustStore]

\* The connection options of OCPProtocolMqtt_create: the stores it can open, and
\* whether the library checks the certificate of the server.
SslOptions(prop) ==
  LET trusted == prop.sslOpts # "0" /\ prop.trustStore \in Existing
      keyed == prop.sslOpts = "2" /\ prop.keyStore \in Existing
  IN [trustStore |-> IF trusted THEN prop.trustStore ELSE Empty,
      keyStore |-> IF keyed THEN prop.keyStore ELSE Empty,
      enableServerCertAuth |-> IF prop.sslOpts = "1" THEN ~trusted ELSE ~keyed]
=============================================================================
