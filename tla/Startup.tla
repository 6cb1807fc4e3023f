------------------------------- MODULE Startup -------------------------------
(***************************************************************************)
(* createIotClient of src/sdk/iotclient/IotClient.c up to the threads, with*)
(* getAuthCodeWithIDPW, which gets an authorization code from the server   *)
(* through the API manager, and the first part of iotclient_connect, which *)
(* makes the thing manager.  Whatever goes wrong in createIotClient ends   *)
(* the process.  A client that was made may be destroyed and made again;   *)
(* the memory of its Properties, which malloc does not clear, may then be  *)
(* that of the former ones.  Once a client is made the application may use *)
(* an API manager of its own.                                              *)
(*                                                                         *)
(* An authorization code is known by where it came from: nobody, the       *)
(* application, or the session of a login.                                 *)
(***************************************************************************)
EXTENDS Settings, ApiManager

CONSTANTS File,      \* the property files, sequences of lines
          MaxCreate, \* bound of the model: clients made
          MaxCall    \* bound of the model: API calls of the application

ASSUME StartupAssumption ==
  /\ \A f \in File : f \in Seq([texts : Seq(STRING) \ {<<>>}, end : Ending])
  /\ MaxCreate \in Nat \ {0} /\ MaxCall \in Nat

VARIABLES file,        \* the property file
          given,       \* which arguments of createIotClient are not empty
          pc,          \* "exit" after exit(EXIT_FAILURE) or a null pointer
          line,        \* the next line of the file
          properties,  \* the record, or what the memory holds
          authCode,    \* connInfo.authCode
          securityKey, \* the code the key of securityAES is made of
          thing,       \* what the thing manager was made with, or NoThing
          errCode,     \* of the iotclient_connect that made it, or 0
          held,        \* what the memory of properties held when it was allocated
          before,      \* logins the server had granted when createIotClient began
          created, calls  \* counters of the bounds

setup == <<file, given, line, properties, held, before, created>>
vars == <<api, setup, pc, authCode, securityKey, thing, errCode, calls>>

Zero == [k \in Key |-> Empty]
Nobody == [from |-> "nobody", session |-> 0]
NoThing == [prop |-> "none"]
Argument == {"authCode", "portal", "ids"}

Init ==
  /\ ApiInit
  /\ file \in File /\ given \in SUBSET Argument
  /\ pc = "read" /\ line = 1
  /\ properties = Zero /\ held = Zero
  /\ authCode = Nobody /\ securityKey = Nobody
  /\ thing = NoThing /\ errCode = 0
  /\ before = 0 /\ created = 1 /\ calls = 0

At(step1) == pc = step1
Goto(step1) == pc' = step1

\* The process ends.
Exit == Goto("exit") /\ UNCHANGED <<setup, authCode, securityKey, thing, errCode, calls>>
-----------------------------------------------------------------------------
\* readProperties: one line.
ReadLine ==
  /\ At("read") /\ line <= Len(file)
  /\ \/ /\ NoValue(file[line])
        /\ Exit
     \/ /\ ~NoValue(file[line])
        /\ properties' = Stored(properties, file[line])
        /\ line' = line + 1
        /\ UNCHANGED <<file, given, pc, authCode, securityKey, thing, errCode,
                       held, before, created, calls>>
  /\ UNCHANGED api

\* The end of the file: checkPropertiesAreOkay, the site id and the thing name;
\* then where the authorization code comes from.
Check ==
  /\ At("read") /\ line > Len(file)
  /\ LET okay == checkPropertiesAreOkay(properties) /\ "ids" \in given IN
       \/ ~okay /\ Exit
       \/ /\ okay /\ properties.authType = "6"
          /\ Goto("made")
          /\ UNCHANGED <<setup, authCode, securityKey, thing, errCode, calls>>
       \/ /\ okay /\ properties.authType = "5" /\ "authCode" \in given
          /\ authCode' = [from |-> "application", session |-> 0]
          /\ Goto("security")
          /\ UNCHANGED <<setup, securityKey, thing, errCode, calls>>
       \/ /\ okay /\ properties.authType = "5" /\ "authCode" \notin given
          /\ "portal" \in given
          /\ Goto("api create")
          /\ UNCHANGED <<setup, authCode, securityKey, thing, errCode, calls>>
       \/ /\ okay /\ properties.authType = "5" /\ "authCode" \notin given
          /\ "portal" \notin given
          /\ Exit
  /\ UNCHANGED api

\* getAuthCodeWithIDPW: apiManager = NULL; OCPAPIManager_create
ApiCreate ==
  /\ At("api create")
  /\ Create(ApiProperties(properties))
  /\ Goto(IF returned' = "SUCCESS" THEN "login" ELSE "exit")
  /\ UNCHANGED <<setup, authCode, securityKey, thing, errCode, calls>>

\* A call of the API manager by getAuthCodeWithIDPW, its end, and what follows.
Login ==
  /\ At("login") /\ do_login(TRUE)
  /\ Goto("logged in")
  /\ UNCHANGED <<setup, authCode, securityKey, thing, errCode, calls>>

GetInfo ==
  /\ At("logged in") /\ Idle
  /\ \/ /\ returned = "SUCCESS"
        /\ get_connectioninfo_ita(TRUE) /\ Goto("code")
        /\ UNCHANGED <<setup, authCode, securityKey, thing, errCode, calls>>
     \/ returned # "SUCCESS" /\ Exit /\ UNCHANGED api

\* Mutant of TakeCode: an empty code is taken too.
TakeCode_untested ==
  /\ At("code") /\ Idle
  /\ authCode' = IF returned = "SUCCESS" THEN [from |-> "server", session |-> sent.token]
                                         ELSE Nobody
  /\ Destroy
  /\ Goto("security")
  /\ UNCHANGED <<setup, securityKey, thing, errCode, calls>>

\* The code is copied and the API manager destroyed; without one the process ends.
TakeCode ==
  /\ At("code") /\ Idle
  /\ \/ /\ returned = "SUCCESS"
        /\ authCode' = [from |-> "server", session |-> sent.token]
        /\ Destroy
        /\ Goto("security")
        /\ UNCHANGED <<setup, securityKey, thing, errCode, calls>>
     \/ returned # "SUCCESS" /\ Exit /\ UNCHANGED api

\* securityAES = NULL; with dataEncryption its key is made of the code, which
\* OCPSecurityAES_create may fail to do.
MakeSecurity ==
  /\ At("security")
  /\ \/ /\ securityKey' = IF properties.dataEncryption = "0" THEN Nobody ELSE authCode
        /\ Goto("made")
        /\ UNCHANGED <<setup, authCode, thing, errCode, calls>>
     \/ properties.dataEncryption # "0" /\ Exit
  /\ UNCHANGED api
-----------------------------------------------------------------------------
\* iotclient_connect without a thing manager: OCPThingManager_create, and in it
\* OCPProtocolMqtt_create, whose library may fail: what they made goes again and
\* the caller is told ERR_CREATE_MQTT_FAIL.
MakeThingManager ==
  /\ At("made") /\ thing = NoThing
  /\ LET prop == ThingProperties(properties) IN
       \/ /\ thing' = [prop |-> prop, ssl |-> SslOptions(prop),
                       authCode |-> IF properties.authType = "5" THEN authCode ELSE Nobody]
          /\ errCode' = 0
       \/ errCode' = 5 /\ UNCHANGED thing
  /\ UNCHANGED <<api, setup, pc, authCode, securityKey, calls>>

\* destroyIotClient frees the properties and the thing manager; createIotClient is
\* called again.  An API manager of the application has been destroyed by then: it
\* would be another one, and the model has one at a time.
CreateAgain ==
  /\ At("made") /\ Idle /\ heap = {} /\ created < MaxCreate
  /\ created' = created + 1 /\ before' = logins
  /\ file' \in File /\ given' \in SUBSET Argument
  /\ held' \in {Zero, properties} /\ properties' = held'
  /\ line' = 1 /\ Goto("read")
  /\ thing' = NoThing /\ errCode' = 0 /\ securityKey' = Nobody
  /\ UNCHANGED <<api, authCode, calls>>

\* The application calls the API manager itself.
Use ==
  /\ At("made") /\ calls < MaxCall
  /\ calls' = calls + 1
  /\ \/ \E opt \in {"-", "0", "3"} : Create([sslOpts |-> opt])
     \/ Destroy \/ IsLogined
     \/ \E complete \in BOOLEAN :
          \/ do_login(complete) \/ get_connectioninfo_ita(complete)
          \/ get_all_rootthings(complete) \/ get_all_edgethings(complete)
          \/ get_direct_edgethings(complete) \/ get_thing_attributes(complete)
          \/ do_custom(complete)
  /\ UNCHANGED <<setup, pc, authCode, securityKey, thing, errCode>>

Continue == (CallSteps \/ FreeResponse) /\ UNCHANGED <<setup, pc, authCode, securityKey,
                                                      thing, errCode, calls>>

Next ==
  \/ ReadLine \/ Check \/ ApiCreate \/ Login \/ GetInfo \/ TakeCode \/ MakeSecurity
  \/ MakeThingManager \/ CreateAgain \/ Use \/ Continue

Spec == Init /\ [][Next]_vars
-----------------------------------------------------------------------------
\* A client of type 5 has the code it was given, or else one the server gave to a
\* login of this very createIotClient; encryption and the MQTT connection use the
\* same one, and no API manager is left behind.  The global connInfo still holds
\* the code of the client before.
AuthCodeOfThisClient ==
  /\ pc = "made" /\ properties.authType = "5" =>
       /\ authCode.from = IF "authCode" \in given THEN "application" ELSE "server"
       /\ authCode.from = "server" => authCode.session > before
       /\ securityKey \in {Nobody, authCode}
       /\ thing # NoThing => thing.authCode = authCode
  /\ pc \in {"read", "security"} => heap = {}

\* The first text that is not empty is the key, the next one, or nothing, the value.
Names(texts, k) ==
  \E n \in DOMAIN texts : texts[n] = k /\ \A m \in 1 .. n - 1 : texts[m] = Empty
Gives(texts, k, value) ==
  \E n, m \in DOMAIN texts :
    /\ n < m /\ texts[n] = k /\ texts[m] = value
    /\ \A j \in 1 .. m - 1 : j # n => texts[j] = Empty
    /\ value = Empty => m = Len(texts)

Lines(k) == {i \in DOMAIN file : Names(file[i].texts, k)}

\* The record has, of every key the file names, the value of its last line, and of
\* the others what the memory held: nothing, or the setting of a client before.
ReadAsWritten ==
  \A k \in Key :
    IF Lines(k) = {} THEN properties[k] = held[k]
    ELSE \E i \in Lines(k) : /\ \A j \in Lines(k) : j <= i
                             /\ Gives(file[i].texts, k, properties[k])

\* A file that can be opened, or none.
Opened(store) == IF store \in Existing THEN store ELSE Empty

\* What the library connects with, of the record.  The check asks for a trust store
\* with the options "1" and "2" and for a key store with "2"; a client of type 5
\* never uses its key store, and one of type 6 is connected with "2" whatever the
\* check looked at.  The certificate of the server goes unchecked only where a store
\* of the file was opened.
ConnectsWith(p, option, ssl) ==
  /\ option = IF p.authType = "5" THEN p.thingSslOpts ELSE "2"
  /\ ssl.trustStore = IF option = "0" THEN Empty ELSE Opened(p.thingTrustStore)
  /\ ssl.keyStore = IF p.authType = "5" THEN Empty ELSE Opened(p.keyStore)
  /\ option # "0" /\ option = p.thingSslOpts => p.thingTrustStore # Empty
  /\ option = "2" /\ option = p.thingSslOpts => p.keyStore # Empty
  /\ ~ssl.enableServerCertAuth => ssl.trustStore # Empty \/ ssl.keyStore # Empty

\* Whatever the endings of the lines, their order, repeated keys, empty texts and
\* comments: a client that was made has read its file as it is written, and its
\* connection uses those settings and no others.
SettingsReachConnection ==
  /\ pc \notin {"read", "exit"} => ReadAsWritten
  /\ thing # NoThing => ConnectsWith(properties, thing.prop.sslOpts, thing.ssl)
=============================================================================
