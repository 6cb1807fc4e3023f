---------------------------- MODULE ConnectProofs ----------------------------
(***************************************************************************)
(* Proofs about Connect for any number of calls and of lost connections.   *)
(***************************************************************************)
EXTENDS Connect, TLAPS

USE ConnectAssumption DEF Thread, ERR_OK, ERR_CREATE_MQTT_FAIL, ERR_MQTT_CONNECT_FAIL,
                          ERR_MQTT_SUBSCRIBE_FAIL, ERR_WRONG_AUTHTYPE

\* LIB reports a lost connection and carries out nothing meanwhile, so it finds
\* the connection down in the whole of its call, which ends at the subscription.
Library ==
  /\ pc[LIB] \in {"idle", "closed", "check", "connect", "wait_connect", "subscribe"}
  /\ pc[LIB] # "idle" => ~link
  /\ authType[LIB] = NoAuthType

\* Nothing happens before the manager exists.
NoManager ==
  ~thingManager => /\ ~link /\ ~connecting /\ pc[APP] = "idle" /\ pc[LIB] = "idle"
                   /\ authorized = 0 /\ result[APP] # ERR_OK

\* The call that created the manager, the one with AuthType: it starts with no
\* connection and nobody who makes one, so it goes the whole way to the token.
FirstCall ==
  authType[APP] = AuthType =>
    /\ pc[APP] \in {"check", "connect"} => ~link /\ ~connecting /\ pc[LIB] = "idle"
    /\ pc[APP] \in {"check", "connect", "wait_connect", "subscribe",
                    "wait_subscribe", "authorize"} => authorized = 0
    /\ pc[APP] \notin {"idle", "disconnect", "wait_disconnect"} => result[APP] # ERR_OK
    /\ pc[APP] = "flag" => authToken

AppSteps ==
  /\ pc[APP] # "closed"
  /\ pc[APP] \in {"disconnect", "wait_disconnect"} => result[APP] = 0
  /\ pc[APP] = "wait_auth" => authType[APP] = AuthType

\* Past the tests of the connection, it was up during the call.
SeenUp ==
  \A t \in Thread :
    pc[t] \in {"wait_subscribe", "authorize", "wait_auth", "flag"} => seen[t]

\* Every request to subscribe and to authorize belongs to a call.
Counted ==
  /\ pc[APP] # "idle" => calls > 0
  /\ authorized <= 1 /\ (authorized = 1 => calls > 0)
  /\ subscribing + (IF pc[APP] \in {"check", "connect", "wait_connect", "subscribe"}
                      THEN 1 ELSE 0) <= calls

\* TypeOK in three parts.
Flags ==
  /\ running \in BOOLEAN /\ thingManager \in BOOLEAN /\ authToken \in BOOLEAN
  /\ heartbeat \in BOOLEAN /\ link \in BOOLEAN /\ connecting \in BOOLEAN
  /\ notify \in BOOLEAN /\ disconnecting \in BOOLEAN /\ seen \in [Thread -> BOOLEAN]

Threads ==
  /\ pc \in [Thread -> {"idle", "closed", "check", "connect", "wait_connect",
                        "subscribe", "wait_subscribe", "authorize", "wait_auth",
                        "flag", "disconnect", "wait_disconnect"}]
  /\ authType \in [Thread -> {NoAuthType, AuthType}]
  /\ result \in [Thread -> {0, ERR_OK, ERR_CREATE_MQTT_FAIL,
                            ERR_MQTT_CONNECT_FAIL, ERR_MQTT_SUBSCRIBE_FAIL,
                            ERR_WRONG_AUTHTYPE}]

Numbers ==
  /\ sem \in 0 .. 1 /\ sem_forConn \in 0 .. 1 /\ thread_conn_flag \in 0 .. 1
  /\ auth_response \in {"empty", "granted", "refused"}
  /\ authorized \in 0 .. MaxCalls /\ authorize \in 0 .. authorized
  /\ subscribing \in 0 .. MaxCalls
  /\ calls \in 0 .. MaxCalls /\ lost \in 0 .. MaxLost

LEMMA TypeParts == TypeOK <=> Flags /\ Threads /\ Numbers
BY DEF TypeOK, Flags, Threads, Numbers

IInv == /\ TypeOK /\ Library /\ NoManager /\ FirstCall /\ AppSteps /\ SeenUp /\ Counted
        /\ OkMeansWasConnected /\ FirstOkAuthorizes
-----------------------------------------------------------------------------

LEMMA ConnectInv == ASSUME IInv, Connect PROVE IInv'
<1> USE DEF IInv, Connect, At, Goto, lib, auth, ghost
<1>1. TypeOK'
  <2>1. Flags'
    BY TypeParts DEF Flags
  <2>2. Threads'
    BY TypeParts DEF Threads
  <2>3. Numbers'
    BY TypeParts DEF Numbers, Counted
  <2> QED BY <2>1, <2>2, <2>3 DEF TypeOK, Flags, Threads, Numbers
<1>2. Library' /\ NoManager'
  BY DEF TypeOK, Library, NoManager
<1>3. FirstCall' /\ AppSteps' /\ FirstOkAuthorizes'
  BY DEF TypeOK, NoManager, FirstCall, AppSteps, FirstOkAuthorizes
<1>4. SeenUp' /\ OkMeansWasConnected'
  BY DEF TypeOK, NoManager, AppSteps, SeenUp, OkMeansWasConnected
<1>5. Counted'
  BY DEF TypeOK, Counted
<1> QED BY <1>1, <1>2, <1>3, <1>4, <1>5

LEMMA CreateFailsInv == ASSUME IInv, CreateFails PROVE IInv'
<1> USE DEF IInv, CreateFails, At, Goto, lib, auth, ghost
<1>1. TypeOK'
  <2>1. Flags'
    BY TypeParts DEF Flags
  <2>2. Threads'
    BY TypeParts DEF Threads
  <2>3. Numbers'
    BY TypeParts DEF Numbers, Counted
  <2> QED BY <2>1, <2>2, <2>3 DEF TypeOK, Flags, Threads, Numbers
<1>2. Library' /\ NoManager'
  BY DEF TypeOK, Library, NoManager
<1>3. FirstCall' /\ AppSteps' /\ FirstOkAuthorizes'
  BY DEF TypeOK, NoManager, FirstCall, AppSteps, FirstOkAuthorizes
<1>4. SeenUp' /\ OkMeansWasConnected'
  BY DEF TypeOK, NoManager, AppSteps, SeenUp, OkMeansWasConnected
<1>5. Counted'
  BY DEF TypeOK, Counted
<1> QED BY <1>1, <1>2, <1>3, <1>4, <1>5

LEMMA DisconnectInv == ASSUME IInv, Disconnect PROVE IInv'
<1> USE DEF IInv, Disconnect, At, Goto, lib, auth, ghost
<1>1. TypeOK'
  <2>1. Flags'
    BY TypeParts DEF Flags
  <2>2. Threads'
    BY TypeParts DEF Threads
  <2>3. Numbers'
    BY TypeParts DEF Numbers, Counted
  <2> QED BY <2>1, <2>2, <2>3 DEF TypeOK, Flags, Threads, Numbers
<1>2. Library' /\ NoManager'
  BY DEF TypeOK, Library, NoManager
<1>3. FirstCall' /\ AppSteps' /\ FirstOkAuthorizes'
  BY DEF TypeOK, NoManager, FirstCall, AppSteps, FirstOkAuthorizes
<1>4. SeenUp' /\ OkMeansWasConnected'
  BY DEF TypeOK, NoManager, AppSteps, SeenUp, OkMeansWasConnected
<1>5. Counted'
  BY DEF TypeOK, Counted
<1> QED BY <1>1, <1>2, <1>3, <1>4, <1>5

LEMMA MqttDisconnectInv == ASSUME IInv, MqttDisconnect PROVE IInv'
<1> USE DEF IInv, MqttDisconnect, At, Goto, lib, auth, ghost
<1>1. TypeOK'
  <2>1. Flags'
    BY TypeParts DEF Flags
  <2>2. Threads'
    BY TypeParts DEF Threads
  <2>3. Numbers'
    BY TypeParts DEF Numbers, Counted
  <2> QED BY <2>1, <2>2, <2>3 DEF TypeOK, Flags, Threads, Numbers
<1>2. Library' /\ NoManager'
  BY DEF TypeOK, Library, NoManager
<1>3. FirstCall' /\ AppSteps' /\ FirstOkAuthorizes'
  BY DEF TypeOK, NoManager, FirstCall, AppSteps, FirstOkAuthorizes
<1>4. SeenUp' /\ OkMeansWasConnected'
  BY DEF TypeOK, NoManager, AppSteps, SeenUp, OkMeansWasConnected
<1>5. Counted'
  BY DEF TypeOK, Counted
<1> QED BY <1>1, <1>2, <1>3, <1>4, <1>5

LEMMA WaitDisconnectInv == ASSUME IInv, WaitDisconnect PROVE IInv'
<1> USE DEF IInv, WaitDisconnect, WaitSem, At, Goto, lib, auth, ghost
<1>1. TypeOK'
  <2>1. Flags'
    BY TypeParts DEF Flags
  <2>2. Threads'
    BY TypeParts DEF Threads
  <2>3. Numbers'
    BY TypeParts DEF Numbers, Counted
  <2> QED BY <2>1, <2>2, <2>3 DEF TypeOK, Flags, Threads, Numbers
<1>2. Library' /\ NoManager'
  BY DEF TypeOK, Library, NoManager
<1>3. FirstCall' /\ AppSteps' /\ FirstOkAuthorizes'
  BY DEF TypeOK, NoManager, FirstCall, AppSteps, FirstOkAuthorizes
<1>4. SeenUp' /\ OkMeansWasConnected'
  BY DEF TypeOK, NoManager, AppSteps, SeenUp, OkMeansWasConnected
<1>5. Counted'
  BY DEF TypeOK, Counted
<1> QED BY <1>1, <1>2, <1>3, <1>4, <1>5

LEMMA ConnClosedInv == ASSUME IInv, ConnClosed PROVE IInv'
<1> USE DEF IInv, ConnClosed, At, Goto, lib, auth, ghost
<1>1. TypeOK'
  <2>1. Flags'
    BY TypeParts DEF Flags
  <2>2. Threads'
    BY TypeParts DEF Threads
  <2>3. Numbers'
    BY TypeParts DEF Numbers, Counted
  <2> QED BY <2>1, <2>2, <2>3 DEF TypeOK, Flags, Threads, Numbers
<1>2. Library' /\ NoManager'
  BY DEF TypeOK, Library, NoManager
<1>3. FirstCall' /\ AppSteps' /\ FirstOkAuthorizes'
  BY DEF TypeOK, NoManager, FirstCall, AppSteps, FirstOkAuthorizes
<1>4. SeenUp' /\ OkMeansWasConnected'
  BY DEF TypeOK, NoManager, AppSteps, SeenUp, OkMeansWasConnected
<1>5. Counted'
  BY DEF TypeOK, Counted
<1> QED BY <1>1, <1>2, <1>3, <1>4, <1>5

LEMMA ConnectedInv == ASSUME IInv, Connected PROVE IInv'
<1> USE DEF IInv, Connected, Free, Post, At, Goto, lib, auth, ghost
<1>1. TypeOK'
  <2>1. Flags'
    BY TypeParts DEF Flags
  <2>2. Threads'
    BY TypeParts DEF Threads
  <2>3. Numbers'
    BY TypeParts DEF Numbers, Counted
  <2> QED BY <2>1, <2>2, <2>3 DEF TypeOK, Flags, Threads, Numbers
<1>2. Library' /\ NoManager'
  BY DEF TypeOK, Library, NoManager
<1>3. FirstCall' /\ AppSteps' /\ FirstOkAuthorizes'
  BY DEF TypeOK, NoManager, FirstCall, AppSteps, FirstOkAuthorizes
<1>4. SeenUp' /\ OkMeansWasConnected'
  BY DEF TypeOK, NoManager, AppSteps, SeenUp, OkMeansWasConnected
<1>5. Counted'
  BY DEF TypeOK, Counted
<1> QED BY <1>1, <1>2, <1>3, <1>4, <1>5

LEMMA ConnectionLostInv == ASSUME IInv, ConnectionLost PROVE IInv'
<1> USE DEF IInv, ConnectionLost, Free, At, Goto, lib, auth, ghost
<1>1. TypeOK'
  <2>1. Flags'
    BY TypeParts DEF Flags
  <2>2. Threads'
    BY TypeParts DEF Threads
  <2>3. Numbers'
    BY TypeParts DEF Numbers, Counted
  <2> QED BY <2>1, <2>2, <2>3 DEF TypeOK, Flags, Threads, Numbers
<1>2. Library' /\ NoManager'
  BY DEF TypeOK, Library, NoManager
<1>3. FirstCall' /\ AppSteps' /\ FirstOkAuthorizes'
  BY DEF TypeOK, NoManager, FirstCall, AppSteps, FirstOkAuthorizes
<1>4. SeenUp' /\ OkMeansWasConnected'
  BY DEF TypeOK, NoManager, AppSteps, SeenUp, OkMeansWasConnected
<1>5. Counted'
  BY DEF TypeOK, Counted
<1> QED BY <1>1, <1>2, <1>3, <1>4, <1>5

LEMMA DisconnectedInv == ASSUME IInv, Disconnected PROVE IInv'
<1> USE DEF IInv, Disconnected, Free, Post, At, Goto, lib, auth, ghost
<1>1. TypeOK'
  <2>1. Flags'
    BY TypeParts DEF Flags
  <2>2. Threads'
    BY TypeParts DEF Threads
  <2>3. Numbers'
    BY TypeParts DEF Numbers, Counted
  <2> QED BY <2>1, <2>2, <2>3 DEF TypeOK, Flags, Threads, Numbers
<1>2. Library' /\ NoManager'
  BY DEF TypeOK, Library, NoManager
<1>3. FirstCall' /\ AppSteps' /\ FirstOkAuthorizes'
  BY DEF TypeOK, NoManager, FirstCall, AppSteps, FirstOkAuthorizes
<1>4. SeenUp' /\ OkMeansWasConnected'
  BY DEF TypeOK, NoManager, AppSteps, SeenUp, OkMeansWasConnected
<1>5. Counted'
  BY DEF TypeOK, Counted
<1> QED BY <1>1, <1>2, <1>3, <1>4, <1>5

LEMMA CheckInv == ASSUME IInv, NEW t \in Thread, Check(t) PROVE IInv'
<1> USE DEF IInv, Check, At, Goto, lib, auth, ghost
<1>1. TypeOK'
  <2>1. Flags'
    BY TypeParts DEF Flags
  <2>2. Threads'
    BY TypeParts DEF Threads
  <2>3. Numbers'
    BY TypeParts DEF Numbers, Counted
  <2> QED BY <2>1, <2>2, <2>3 DEF TypeOK, Flags, Threads, Numbers
<1>2. Library' /\ NoManager'
  BY DEF TypeOK, Library, NoManager
<1>3. FirstCall' /\ AppSteps' /\ FirstOkAuthorizes'
  BY DEF TypeOK, NoManager, FirstCall, AppSteps, FirstOkAuthorizes
<1>4. SeenUp' /\ OkMeansWasConnected'
  BY DEF TypeOK, NoManager, AppSteps, SeenUp, OkMeansWasConnected
<1>5. Counted'
  BY DEF TypeOK, Counted
<1> QED BY <1>1, <1>2, <1>3, <1>4, <1>5

LEMMA MqttConnectInv == ASSUME IInv, NEW t \in Thread, MqttConnect(t) PROVE IInv'
<1> USE DEF IInv, MqttConnect, At, Goto, lib, auth, ghost
<1>1. TypeOK'
  <2>1. Flags'
    BY TypeParts DEF Flags
  <2>2. Threads'
    BY TypeParts DEF Threads
  <2>3. Numbers'
    BY TypeParts DEF Numbers, Counted
  <2> QED BY <2>1, <2>2, <2>3 DEF TypeOK, Flags, Threads, Numbers
<1>2. Library' /\ NoManager'
  BY DEF TypeOK, Library, NoManager
<1>3. FirstCall' /\ AppSteps' /\ FirstOkAuthorizes'
  BY DEF TypeOK, NoManager, FirstCall, AppSteps, FirstOkAuthorizes
<1>4. SeenUp' /\ OkMeansWasConnected'
  BY DEF TypeOK, NoManager, AppSteps, SeenUp, OkMeansWasConnected
<1>5. Counted'
  BY DEF TypeOK, Counted
<1> QED BY <1>1, <1>2, <1>3, <1>4, <1>5

LEMMA SubscribeInv == ASSUME IInv, NEW t \in Thread, Subscribe(t) PROVE IInv'
<1> USE DEF IInv, Subscribe, Return, At, Goto, lib, auth, ghost
<1>0. /\ link => t = APP
      /\ calls' = calls /\ subscribing' \in {subscribing, subscribing + 1}
      /\ subscribing' # subscribing => t = APP
      /\ pc[t] = "subscribe" /\ pc'[t] \in {"wait_subscribe", "idle"}
      /\ (t # APP => pc'[APP] = pc[APP])
  BY DEF TypeOK, Library
<1>1. TypeOK'
  <2>1. Flags'
    BY TypeParts DEF Flags
  <2>2. Threads'
    BY TypeParts DEF Threads
  <2>3. Numbers'
    BY <1>0, TypeParts DEF Numbers, Counted
  <2> QED BY <2>1, <2>2, <2>3 DEF TypeOK, Flags, Threads, Numbers
<1>2. Library' /\ NoManager'
  BY DEF TypeOK, Library, NoManager
<1>3. FirstCall' /\ AppSteps' /\ FirstOkAuthorizes'
  BY DEF TypeOK, NoManager, FirstCall, AppSteps, FirstOkAuthorizes
<1>4. SeenUp' /\ OkMeansWasConnected'
  BY DEF TypeOK, NoManager, AppSteps, SeenUp, OkMeansWasConnected
<1>5. Counted'
  <2>1. CASE t = APP
    <3>1. subscribing' <= calls' /\ calls' > 0
      BY <1>0, <2>1 DEF TypeOK, Counted
    <3>2. subscribing' \in Nat
      <4>1. subscribing \in Nat
        BY TypeParts DEF Numbers
      <4>2. subscribing' \in {subscribing, subscribing + 1}
        BY <1>0
      <4> HIDE DEF Subscribe, IInv
      <4> QED BY <4>1, <4>2
    <3>3. pc'[APP] \notin {"check", "connect", "wait_connect", "subscribe"}
      BY <1>0, <2>1
    <3>4. UNCHANGED authorized
      OBVIOUS
    <3> HIDE DEF Subscribe
    <3> QED BY <3>1, <3>2, <3>3, <3>4 DEF Counted
  <2>2. CASE t # APP
    BY <1>0, <2>2 DEF TypeOK, Counted
  <2> QED BY <2>1, <2>2
<1> QED BY <1>1, <1>2, <1>3, <1>4, <1>5

LEMMA WaitConnectInv == ASSUME IInv, NEW t \in Thread, WaitConnect(t) PROVE IInv'
<1> USE DEF IInv, WaitConnect, WaitSem, At, Goto, lib, auth, ghost
<1>1. TypeOK'
  <2>1. Flags'
    BY TypeParts DEF Flags
  <2>2. Threads'
    BY TypeParts DEF Threads
  <2>3. Numbers'
    BY TypeParts DEF Numbers, Counted
  <2> QED BY <2>1, <2>2, <2>3 DEF TypeOK, Flags, Threads, Numbers
<1>2. Library' /\ NoManager'
  BY DEF TypeOK, Library, NoManager
<1>3. FirstCall' /\ AppSteps' /\ FirstOkAuthorizes'
  BY DEF TypeOK, Library, NoManager, FirstCall, AppSteps, FirstOkAuthorizes
<1>4. SeenUp' /\ OkMeansWasConnected'
  BY DEF TypeOK, NoManager, AppSteps, SeenUp, OkMeansWasConnected
<1>5. Counted'
  BY DEF TypeOK, Library, FirstCall, AppSteps, Counted
<1> QED BY <1>1, <1>2, <1>3, <1>4, <1>5

LEMMA WaitSubscribeInv == ASSUME IInv, NEW t \in Thread, WaitSubscribe(t) PROVE IInv'
<1> USE DEF IInv, WaitSubscribe, WaitSem, At, Goto, lib, auth, ghost
<1>1. TypeOK'
  <2>1. Flags'
    BY TypeParts DEF Flags
  <2>2. Threads'
    BY TypeParts DEF Threads
  <2>3. Numbers'
    BY TypeParts DEF Numbers, Counted
  <2> QED BY <2>1, <2>2, <2>3 DEF TypeOK, Flags, Threads, Numbers
<1>2. Library' /\ NoManager'
  BY DEF TypeOK, Library, NoManager
<1>3. FirstCall' /\ AppSteps' /\ FirstOkAuthorizes'
  BY DEF TypeOK, Library, NoManager, FirstCall, AppSteps, FirstOkAuthorizes
<1>4. SeenUp' /\ OkMeansWasConnected'
  BY DEF TypeOK, NoManager, AppSteps, SeenUp, OkMeansWasConnected
<1>5. Counted'
  BY DEF TypeOK, Library, FirstCall, AppSteps, Counted
<1> QED BY <1>1, <1>2, <1>3, <1>4, <1>5

LEMMA AuthorizeInv == ASSUME IInv, NEW t \in Thread, Authorize(t) PROVE IInv'
<1> USE DEF IInv, Authorize, At, Goto, lib, auth, ghost
<1>0. /\ t = APP /\ authorized = 0 /\ calls > 0
      /\ authorize' = authorize + 1 /\ authorized' = authorized + 1
  BY DEF TypeOK, Library, FirstCall, Counted
<1>1. TypeOK'
  <2>1. Flags'
    BY TypeParts DEF Flags
  <2>2. Threads'
    BY TypeParts DEF Threads
  <2>3. Numbers'
    BY <1>0, TypeParts DEF Numbers
  <2> QED BY <2>1, <2>2, <2>3 DEF TypeOK, Flags, Threads, Numbers
<1>2. Library' /\ NoManager'
  BY DEF TypeOK, Library, NoManager
<1>3. FirstCall' /\ AppSteps' /\ FirstOkAuthorizes'
  BY DEF TypeOK, Library, NoManager, FirstCall, AppSteps, FirstOkAuthorizes
<1>4. SeenUp' /\ OkMeansWasConnected'
  BY DEF TypeOK, NoManager, AppSteps, SeenUp, OkMeansWasConnected
<1>5. Counted'
  BY DEF TypeOK, Library, FirstCall, AppSteps, Counted
<1> QED BY <1>1, <1>2, <1>3, <1>4, <1>5

LEMMA SetTokenInv == ASSUME IInv, NEW t \in Thread, SetToken(t) PROVE IInv'
<1> USE DEF IInv, SetToken, At, Goto, lib, auth, ghost
<1>1. TypeOK'
  <2>1. Flags'
    BY TypeParts DEF Flags
  <2>2. Threads'
    BY TypeParts DEF Threads
  <2>3. Numbers'
    BY TypeParts DEF Numbers, Counted
  <2> QED BY <2>1, <2>2, <2>3 DEF TypeOK, Flags, Threads, Numbers
<1>2. Library' /\ NoManager'
  BY DEF TypeOK, Library, NoManager
<1>3. FirstCall' /\ AppSteps' /\ FirstOkAuthorizes'
  BY DEF TypeOK, Library, NoManager, FirstCall, AppSteps, FirstOkAuthorizes
<1>4. SeenUp' /\ OkMeansWasConnected'
  BY DEF TypeOK, NoManager, AppSteps, SeenUp, OkMeansWasConnected
<1>5. Counted'
  BY DEF TypeOK, Library, FirstCall, AppSteps, Counted
<1> QED BY <1>1, <1>2, <1>3, <1>4, <1>5

LEMMA AuthFailsInv == ASSUME IInv, NEW t \in Thread, AuthFails(t) PROVE IInv'
<1> USE DEF IInv, AuthFails, At, Goto, lib, auth, ghost
<1>1. TypeOK'
  <2>1. Flags'
    BY TypeParts DEF Flags
  <2>2. Threads'
    BY TypeParts DEF Threads
  <2>3. Numbers'
    BY TypeParts DEF Numbers, Counted
  <2> QED BY <2>1, <2>2, <2>3 DEF TypeOK, Flags, Threads, Numbers
<1>2. Library' /\ NoManager'
  BY DEF TypeOK, Library, NoManager
<1>3. FirstCall' /\ AppSteps' /\ FirstOkAuthorizes'
  BY DEF TypeOK, Library, NoManager, FirstCall, AppSteps, FirstOkAuthorizes
<1>4. SeenUp' /\ OkMeansWasConnected'
  BY DEF TypeOK, NoManager, AppSteps, SeenUp, OkMeansWasConnected
<1>5. Counted'
  BY DEF TypeOK, Library, FirstCall, AppSteps, Counted
<1> QED BY <1>1, <1>2, <1>3, <1>4, <1>5

LEMMA ConnectReturnsInv == ASSUME IInv, NEW t \in Thread, 
         MqttConnectFails(t) \/ WrongAuthType(t) PROVE IInv'
<1> USE DEF IInv, MqttConnectFails, WrongAuthType, Return, At, Goto, lib, auth, ghost
<1>1. TypeOK'
  <2>1. Flags'
    BY TypeParts DEF Flags
  <2>2. Threads'
    BY TypeParts DEF Threads
  <2>3. Numbers'
    BY TypeParts DEF Numbers, Counted
  <2> QED BY <2>1, <2>2, <2>3 DEF TypeOK, Flags, Threads, Numbers
<1>2. Library' /\ NoManager'
  BY DEF TypeOK, Library, NoManager
<1>3. FirstCall' /\ AppSteps' /\ FirstOkAuthorizes'
  BY DEF TypeOK, Library, NoManager, FirstCall, AppSteps, FirstOkAuthorizes
<1>4. SeenUp' /\ OkMeansWasConnected'
  BY DEF TypeOK, NoManager, AppSteps, SeenUp, OkMeansWasConnected
<1>5. Counted'
  BY DEF TypeOK, Library, FirstCall, AppSteps, Counted
<1> QED BY <1>1, <1>2, <1>3, <1>4, <1>5

LEMMA SetFlagInv == ASSUME IInv, NEW t \in Thread, SetFlag(t) PROVE IInv'
<1> USE DEF IInv, SetFlag, Return, At, Goto, lib, auth, ghost
<1>1. TypeOK'
  <2>1. Flags'
    BY TypeParts DEF Flags
  <2>2. Threads'
    BY TypeParts DEF Threads
  <2>3. Numbers'
    BY TypeParts DEF Numbers, Counted
  <2> QED BY <2>1, <2>2, <2>3 DEF TypeOK, Flags, Threads, Numbers
<1>2. Library' /\ NoManager'
  BY DEF TypeOK, Library, NoManager
<1>3. FirstCall' /\ AppSteps' /\ FirstOkAuthorizes'
  BY DEF TypeOK, Library, NoManager, FirstCall, AppSteps, FirstOkAuthorizes
<1>4. SeenUp' /\ OkMeansWasConnected'
  BY DEF TypeOK, NoManager, AppSteps, SeenUp, OkMeansWasConnected
<1>5. Counted'
  BY DEF TypeOK, Library, FirstCall, AppSteps, Counted
<1> QED BY <1>1, <1>2, <1>3, <1>4, <1>5

LEMMA AuthAnswerInv == ASSUME IInv, AuthAnswer PROVE IInv'
<1> USE DEF IInv, AuthAnswer, At, Goto, lib, auth, ghost
<1>1. TypeOK'
  <2>1. Flags'
    BY TypeParts DEF Flags
  <2>2. Threads'
    BY TypeParts DEF Threads
  <2>3. Numbers'
    BY TypeParts DEF Numbers, Counted
  <2> QED BY <2>1, <2>2, <2>3 DEF TypeOK, Flags, Threads, Numbers
<1>2. Library' /\ NoManager'
  BY DEF TypeOK, Library, NoManager
<1>3. FirstCall' /\ AppSteps' /\ FirstOkAuthorizes'
  BY DEF TypeOK, Library, NoManager, FirstCall, AppSteps, FirstOkAuthorizes
<1>4. SeenUp' /\ OkMeansWasConnected'
  BY DEF TypeOK, NoManager, AppSteps, SeenUp, OkMeansWasConnected
<1>5. Counted'
  BY DEF TypeOK, Library, FirstCall, AppSteps, Counted
<1> QED BY <1>1, <1>2, <1>3, <1>4, <1>5

LEMMA KeepAliveInv == ASSUME IInv, KeepAlive PROVE IInv'
<1> USE DEF IInv, KeepAlive, At, Goto, lib, auth, ghost
<1>1. TypeOK'
  <2>1. Flags'
    BY TypeParts DEF Flags
  <2>2. Threads'
    BY TypeParts DEF Threads
  <2>3. Numbers'
    BY TypeParts DEF Numbers, Counted
  <2> QED BY <2>1, <2>2, <2>3 DEF TypeOK, Flags, Threads, Numbers
<1>2. Library' /\ NoManager'
  BY DEF TypeOK, Library, NoManager
<1>3. FirstCall' /\ AppSteps' /\ FirstOkAuthorizes'
  BY DEF TypeOK, Library, NoManager, FirstCall, AppSteps, FirstOkAuthorizes
<1>4. SeenUp' /\ OkMeansWasConnected'
  BY DEF TypeOK, NoManager, AppSteps, SeenUp, OkMeansWasConnected
<1>5. Counted'
  BY DEF TypeOK, Library, FirstCall, AppSteps, Counted
<1> QED BY <1>1, <1>2, <1>3, <1>4, <1>5

LEMMA SubscribedInv == ASSUME IInv, Subscribed PROVE IInv'
<1> USE DEF IInv, Subscribed, Post, At, Goto, lib, auth, ghost
<1>1. TypeOK'
  <2>1. Flags'
    BY TypeParts DEF Flags
  <2>2. Threads'
    BY TypeParts DEF Threads
  <2>3. Numbers'
    BY TypeParts DEF Numbers, Counted
  <2> QED BY <2>1, <2>2, <2>3 DEF TypeOK, Flags, Threads, Numbers
<1>2. Library' /\ NoManager'
  BY DEF TypeOK, Library, NoManager
<1>3. FirstCall' /\ AppSteps' /\ FirstOkAuthorizes'
  BY DEF TypeOK, Library, NoManager, FirstCall, AppSteps, FirstOkAuthorizes
<1>4. SeenUp' /\ OkMeansWasConnected'
  BY DEF TypeOK, NoManager, AppSteps, SeenUp, OkMeansWasConnected
<1>5. Counted'
  BY DEF TypeOK, Library, FirstCall, AppSteps, Counted
<1> QED BY <1>1, <1>2, <1>3, <1>4, <1>5

LEMMA ConnectFailedInv == ASSUME IInv, ConnectFailed PROVE IInv'
<1> USE DEF IInv, ConnectFailed, Free, Post, At, Goto, lib, auth, ghost
<1>1. TypeOK'
  <2>1. Flags'
    BY TypeParts DEF Flags
  <2>2. Threads'
    BY TypeParts DEF Threads
  <2>3. Numbers'
    BY TypeParts DEF Numbers, Counted
  <2> QED BY <2>1, <2>2, <2>3 DEF TypeOK, Flags, Threads, Numbers
<1>2. Library' /\ NoManager'
  BY DEF TypeOK, Library, NoManager
<1>3. FirstCall' /\ AppSteps' /\ FirstOkAuthorizes'
  BY DEF TypeOK, Library, NoManager, FirstCall, AppSteps, FirstOkAuthorizes
<1>4. SeenUp' /\ OkMeansWasConnected'
  BY DEF TypeOK, NoManager, AppSteps, SeenUp, OkMeansWasConnected
<1>5. Counted'
  BY DEF TypeOK, Library, FirstCall, AppSteps, Counted
<1> QED BY <1>1, <1>2, <1>3, <1>4, <1>5

LEMMA StutterInv == ASSUME IInv, UNCHANGED vars PROVE IInv'
<1> USE DEF IInv, vars, At, Goto, lib, auth, ghost
<1>1. TypeOK'
  <2>1. Flags'
    BY TypeParts DEF Flags
  <2>2. Threads'
    BY TypeParts DEF Threads
  <2>3. Numbers'
    BY TypeParts DEF Numbers, Counted
  <2> QED BY <2>1, <2>2, <2>3 DEF TypeOK, Flags, Threads, Numbers
<1>2. Library' /\ NoManager'
  BY DEF TypeOK, Library, NoManager
<1>3. FirstCall' /\ AppSteps' /\ FirstOkAuthorizes'
  BY DEF TypeOK, Library, NoManager, FirstCall, AppSteps, FirstOkAuthorizes
<1>4. SeenUp' /\ OkMeansWasConnected'
  BY DEF TypeOK, NoManager, AppSteps, SeenUp, OkMeansWasConnected
<1>5. Counted'
  BY DEF TypeOK, Library, FirstCall, AppSteps, Counted
<1> QED BY <1>1, <1>2, <1>3, <1>4, <1>5
-----------------------------------------------------------------------------
LEMMA InitIInv == Init => IInv
<1> SUFFICES ASSUME Init PROVE IInv
  OBVIOUS
<1> USE DEF Init
<1>1. Flags
  BY DEF Flags
<1>2. Threads /\ Numbers
  BY DEF Threads, Numbers
<1>3. Library /\ NoManager /\ FirstCall /\ AppSteps
  BY DEF Library, NoManager, FirstCall, AppSteps
<1>4. SeenUp /\ Counted /\ OkMeansWasConnected /\ FirstOkAuthorizes
  BY DEF SeenUp, Counted, OkMeansWasConnected, FirstOkAuthorizes
<1> QED BY <1>1, <1>2, <1>3, <1>4, TypeParts DEF IInv

LEMMA StepIInv == IInv /\ [Next]_vars => IInv'
<1>1. ASSUME IInv, NEW t \in Thread, ConnectSteps(t) PROVE IInv'
  BY <1>1, CheckInv, MqttConnectInv, ConnectReturnsInv, WaitConnectInv, SubscribeInv,
     WaitSubscribeInv, AuthorizeInv, SetTokenInv, AuthFailsInv, SetFlagInv
  DEF ConnectSteps
<1>2. APP \in Thread /\ LIB \in Thread
  OBVIOUS
<1> QED BY <1>1, <1>2, ConnectInv, CreateFailsInv, DisconnectInv, MqttDisconnectInv, WaitDisconnectInv,
           ConnClosedInv, AuthAnswerInv, KeepAliveInv, ConnectedInv, ConnectFailedInv,
           SubscribedInv, DisconnectedInv, ConnectionLostInv, StutterInv DEF Next

LEMMA SpecIInv == Spec => []IInv
BY InitIInv, StepIInv, PTL DEF Spec

\* The types of the connection's state, for any number of calls and of lost
\* connections: both semaphores stay binary.
THEOREM ConnectTypeCorrect == Spec => []TypeOK
<1>1. IInv => TypeOK
  BY DEF IInv
<1> QED BY <1>1, SpecIInv, PTL

\* sem_forConn and auth_response serve one authorization: the manager asks for it
\* once, and one thread waits for the answer (IotClient.c:281-345).
THEOREM ConnectOneAuthorization == Spec => []OneAuthorization
<1>1. IInv => OneAuthorization
  BY DEF IInv, Library, Counted, TypeOK, OneAuthorization
<1> QED BY <1>1, SpecIInv, PTL

\* iotclient_connect returns ERR_OK only if the connection was up at some time
\* during the call, although no wait for the library is checked for success.
THEOREM ConnectOkMeansWasConnected == Spec => []OkMeansWasConnected
<1>1. IInv => OkMeansWasConnected
  BY DEF IInv
<1> QED BY <1>1, SpecIInv, PTL

\* The connect that creates the manager and returns ERR_OK has left a token, which
\* no reconnection of the library's thread takes away.
THEOREM ConnectFirstOkAuthorizes == Spec => []FirstOkAuthorizes
<1>1. IInv => FirstOkAuthorizes
  BY DEF IInv
<1> QED BY <1>1, SpecIInv, PTL
=============================================================================
