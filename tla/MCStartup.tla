------------------------------ MODULE MCStartup ------------------------------
(* Property files: the one that comes with the samples, and files that     *)
(* differ from it in one or two lines.                                     *)
EXTENDS Startup

L(k, v) == [texts |-> <<k, v>>, end |-> "\n"]
Named(values) == [k \in Key |-> L(k, values[k])]

Values5 == [k \in Key |->
  CASE k = "authType" -> "5" [] k = "host" -> "server" [] k = "apiPort" -> "8088"
    [] k = "apiSslOpts" -> "1" [] k = "apiTrustStore" -> "pem" [] k = "thingPort" -> "8001"
    [] k = "thingSslOpts" -> "1" [] k = "thingTrustStore" -> "pem"
    [] k = "msgHeaderType" -> "D" [] k = "keyStore" -> "" [] k = "keyPassword" -> ""
    [] k = "dataEncryption" -> "1"]
Values6 == [Values5 EXCEPT !["authType"] = "6", !["thingSslOpts"] = "2",
                           !["keyStore"] = "missing", !["dataEncryption"] = "0"]

Order == <<"authType", "host", "apiPort", "apiSslOpts", "apiTrustStore", "thingPort",
           "thingSslOpts", "thingTrustStore", "msgHeaderType", "keyStore", "keyPassword",
           "dataEncryption">>
Lines12(values) == [i \in 1 .. 12 |-> L(Order[i], values[Order[i]])]
Base == Lines12(Values5)

MCFiles ==
  {Base, Lines12(Values6),
   \* values that are refused, and some that only another value lets through
   [Base EXCEPT ![1] = L("authType", "55")], [Base EXCEPT ![3] = L("apiPort", "port")],
   [Base EXCEPT ![5] = L("apiTrustStore", "")], [Base EXCEPT ![7] = L("thingSslOpts", "2")],
   Lines12([Values6 EXCEPT !["thingSslOpts"] = "0", !["thingTrustStore"] = ""]),
   Lines12([Values6 EXCEPT !["thingTrustStore"] = ""]),
   Lines12([Values5 EXCEPT !["thingSslOpts"] = "2", !["thingTrustStore"] = "",
                           !["keyStore"] = "pem"]),
   Lines12([Values5 EXCEPT !["thingSslOpts"] = "0", !["thingTrustStore"] = ""]),
   \* a key store that can be opened: asked for and not used, used, and not asked for
   Lines12([Values5 EXCEPT !["thingSslOpts"] = "2", !["keyStore"] = "pem"]),
   Lines12([Values6 EXCEPT !["keyStore"] = "pem"]),
   Lines12([Values6 EXCEPT !["keyStore"] = "pem", !["thingSslOpts"] = "1"]),
   \* lines: comments, blank ones, other endings, an unknown key, a key twice, a
   \* second "=", empty texts, a key without a value, keys that are not named
   <<[texts |-> <<"# ita ", " authType", "5">>, end |-> "\n"],
     [texts |-> <<"">>, end |-> "\r\n"], [texts |-> <<"other", "x">>, end |-> "\n"]>>
     \o [i \in 1 .. 12 |-> [Base[i] EXCEPT !.end = "\r\n"]]
     \o <<[texts |-> <<"keyPassword", "pw", "x">>, end |-> "\n"],
          [texts |-> <<"", "apiPort", "", "8001", "x">>, end |-> "\n"],
          [texts |-> <<"host", "second">>, end |-> ""]>>,
   [Base EXCEPT ![10] = [texts |-> <<"keyStore">>, end |-> "\n"]],
   [Base EXCEPT ![12] = [texts |-> <<"dataEncryption", "">>, end |-> ""]],
   SubSeq(Base, 3, 12), <<Base[1]>>}

MCIgnored == {"# ita "}
MCNumber == {"8088", "8001"}
=============================================================================
