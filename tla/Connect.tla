------------------------------- MODULE Connect -------------------------------
(***************************************************************************)
(* Connecting, disconnecting and reconnecting: iotclient_connect,          *)
(* iotclient_disconnect, preHandlerConnClosed and thread_keep_alive of     *)
(* src/sdk/iotclient/IotClient.c, OCPThingManager_connect and _disconnect  *)
(* of src/sdk/manager/OCPThingManager.c, and the calls they make of        *)
(* src/sdk/protocol/OCPProtocolMqtt.c.                                     *)
(*                                                                         *)
(* Two threads run this code: APP, a thread of the application, and LIB,   *)
(* the thread on which the MQTT library reports a lost connection and      *)
(* which also carries out the requests to connect and to disconnect: while *)
(* it is in preHandlerConnClosed it carries out nothing.  Every request is *)
(* answered, perhaps late or never, by a callback that posts the one       *)
(* semaphore of the manager unless its value is above 0.                   *)
(***************************************************************************)
EXTENDS Naturals

CONSTANTS APP, LIB,
          NoAuthType,  \* the initial -1 of the local variable authType
          AuthType,    \* the configured type, 5 or 6
          MaxCalls,    \* bound of the model: calls of the application
          MaxLost      \* bound of the model: connections lost

ASSUME ConnectAssumption ==
  /\ APP # LIB /\ NoAuthType # AuthType /\ MaxCalls \in Nat /\ MaxLost \in Nat

Thread == {APP, LIB}
ERR_OK == 1
ERR_CREATE_MQTT_FAIL == 5
ERR_MQTT_CONNECT_FAIL == 10
ERR_MQTT_SUBSCRIBE_FAIL == 11
ERR_WRONG_AUTHTYPE == 13

VARIABLES running,           \* FALSE after exit(EXIT_FAILURE)
          thingManager,      \* the manager has been created
          pc,
          authType,          \* the local variable of each thread's last call
          sem,               \* the semaphore of the manager
          sem_forConn, auth_response,
          authToken,         \* the manager holds a token
          thread_conn_flag,
          authorize,         \* authorize messages queued and not answered
          authorized,        \* authorize messages queued so far
          heartbeat,         \* one was queued since the connection was made
          link,              \* MQTTAsync_isConnected
          connecting,        \* the library tries to connect
          notify,            \* it will report success to onConnectSuccess
          subscribing, disconnecting,  \* requests it has not answered
          seen,              \* the connection was up at some time in the call
          result,            \* of the thread's last iotclient_connect, or 0
          calls, lost        \* counters of the bounds

lib == <<link, connecting, notify, subscribing, disconnecting, lost>>
auth == <<sem_forConn, auth_response, authToken, authorize, authorized>>
ghost == <<result, calls>>
vars == <<running, thingManager, pc, authType, sem, auth, thread_conn_flag,
          heartbeat, lib, seen, ghost>>

Init ==
  /\ running = TRUE /\ thingManager = FALSE
  /\ pc = [t \in Thread |-> "idle"]
  /\ authType = [t \in Thread |-> NoAuthType]
  /\ sem = 0 /\ sem_forConn = 0 /\ auth_response = "empty"
  /\ authToken = FALSE /\ thread_conn_flag = 0
  /\ authorize = 0 /\ authorized = 0 /\ heartbeat = FALSE
  /\ link = FALSE /\ connecting = FALSE /\ notify = FALSE
  /\ subscribing = 0 /\ disconnecting = FALSE
  /\ seen = [t \in Thread |-> FALSE]
  /\ result = [t \in Thread |-> 0]
  /\ calls = 0 /\ lost = 0

At(t, step) == running /\ pc[t] = step
Goto(t, step) == pc' = [pc EXCEPT ![t] = step]

Return(t, rc) ==
  /\ Goto(t, "idle")
  /\ result' = [result EXCEPT ![t] = rc]
  /\ UNCHANGED calls

\* Mutant of Post: the value is not tested.
Post_unchecked == sem' = sem + 1

\* check_sem, then post_sem: a binary semaphore.
Post == sem' = IF sem > 0 THEN sem ELSE sem + 1

\* OCPThread_wait_sem, whose result no caller looks at: it takes the semaphore,
\* or finds it at 0 until the time is over.
WaitSem == sem' = IF sem > 0 THEN sem - 1 ELSE 0
-----------------------------------------------------------------------------
\* Mutant of Connect: the authorization type is read on every call.
Connect_reads_type ==
  /\ At(APP, "idle") /\ calls < MaxCalls
  /\ thingManager' = TRUE
  /\ authType' = [authType EXCEPT ![APP] = AuthType]
  /\ Goto(APP, "check")
  /\ seen' = [seen EXCEPT ![APP] = FALSE]
  /\ calls' = calls + 1
  /\ UNCHANGED <<running, sem, auth, thread_conn_flag, heartbeat, lib, result>>

\* The application calls iotclient_connect: the manager is created on the first
\* call, and only then is authType set.
Connect ==
  /\ At(APP, "idle") /\ calls < MaxCalls
  /\ thingManager' = TRUE
  /\ authType' = [authType EXCEPT ![APP] = IF thingManager THEN NoAuthType
                                                           ELSE AuthType]
  /\ Goto(APP, "check")
  /\ seen' = [seen EXCEPT ![APP] = FALSE]
  /\ calls' = calls + 1
  /\ UNCHANGED <<running, sem, auth, thread_conn_flag, heartbeat, lib, result>>

\* The MQTT client of the new manager cannot be made: OCPThingManager_create
\* destroys the manager again and the pointer is NULL as before.
CreateFails ==
  /\ At(APP, "idle") /\ calls < MaxCalls /\ ~thingManager
  /\ calls' = calls + 1
  /\ result' = [result EXCEPT ![APP] = ERR_CREATE_MQTT_FAIL]
  /\ UNCHANGED <<running, thingManager, pc, authType, sem, auth,
                 thread_conn_flag, heartbeat, lib, seen>>

\* preHandlerConnClosed: the flag, the application's callback, iotclient_connect.
ConnClosed ==
  /\ At(LIB, "closed")
  /\ thread_conn_flag' = 0
  /\ Goto(LIB, "check")
  /\ seen' = [seen EXCEPT ![LIB] = FALSE]
  /\ UNCHANGED <<running, thingManager, authType, sem, auth, heartbeat, lib,
                 ghost>>

\* if(OCPSDK_SUCCESS != OCPThingManager_isconnected(thingManager))
Check(t) ==
  /\ At(t, "check")
  /\ Goto(t, IF link THEN "flag" ELSE "connect")
  /\ seen' = [seen EXCEPT ![t] = link]
  /\ UNCHANGED <<running, thingManager, authType, sem, auth, thread_conn_flag,
                 heartbeat, lib, ghost>>

\* OCPThingManager_connect: it asks again whether the connection is up and skips
\* everything then; else OCPProtocolMqtt_connect hands in the request.
MqttConnect(t) ==
  /\ At(t, "connect")
  /\ \/ /\ link /\ Goto(t, "authorize")
        /\ seen' = [seen EXCEPT ![t] = TRUE]
        /\ UNCHANGED <<connecting, notify>>
     \/ /\ ~link /\ Goto(t, "wait_connect")
        /\ connecting' = TRUE /\ notify' = TRUE
        /\ UNCHANGED seen
  /\ UNCHANGED <<running, thingManager, authType, sem, auth, thread_conn_flag,
                 heartbeat, link, subscribing, disconnecting, lost, ghost>>

\* MQTTAsync_connect refuses the request.
MqttConnectFails(t) ==
  /\ At(t, "connect") /\ ~link
  /\ Return(t, ERR_MQTT_CONNECT_FAIL)
  /\ UNCHANGED <<running, thingManager, authType, sem, auth, thread_conn_flag,
                 heartbeat, lib, seen>>

\* Mutant of WaitConnect: no limit.
WaitConnect_forever(t) ==
  /\ At(t, "wait_connect") /\ sem > 0
  /\ WaitSem
  /\ Goto(t, "subscribe")
  /\ UNCHANGED <<running, thingManager, authType, auth, thread_conn_flag,
                 heartbeat, lib, seen, ghost>>

WaitConnect(t) ==
  /\ At(t, "wait_connect")
  /\ WaitSem
  /\ Goto(t, "subscribe")
  /\ UNCHANGED <<running, thingManager, authType, auth, thread_conn_flag,
                 heartbeat, lib, seen, ghost>>

\* Mutant of Subscribe: the connection is not tested.
Subscribe_untested(t) ==
  /\ At(t, "subscribe")
  /\ subscribing' = subscribing + 1
  /\ Goto(t, "wait_subscribe")
  /\ UNCHANGED <<running, thingManager, authType, sem, auth, thread_conn_flag,
                 heartbeat, link, connecting, notify, disconnecting, lost, seen,
                 ghost>>

\* OCPProtocolMqtt_subscribe, which fails when the connection is not up, that is,
\* was refused or is still being made although the wait is over, and when the
\* library refuses the request.
Subscribe(t) ==
  /\ At(t, "subscribe")
  /\ \/ /\ link /\ Goto(t, "wait_subscribe")
        /\ subscribing' = subscribing + 1
        /\ seen' = [seen EXCEPT ![t] = TRUE]
        /\ UNCHANGED ghost
     \/ /\ Return(t, ERR_MQTT_SUBSCRIBE_FAIL)
        /\ UNCHANGED <<subscribing, seen>>
  /\ UNCHANGED <<running, thingManager, authType, sem, auth, thread_conn_flag,
                 heartbeat, link, connecting, notify, disconnecting, lost>>

\* The wait for the subscription, then authToken[0] = '\0'.
WaitSubscribe(t) ==
  /\ At(t, "wait_subscribe")
  /\ WaitSem
  /\ authToken' = FALSE
  /\ Goto(t, "authorize")
  /\ UNCHANGED <<running, thingManager, authType, sem_forConn, auth_response,
                 authorize, authorized, thread_conn_flag, heartbeat, lib, seen,
                 ghost>>

\* The authorize message goes into the send queue.
Authorize(t) ==
  /\ At(t, "authorize") /\ authType[t] # NoAuthType
  /\ authorize' = authorize + 1 /\ authorized' = authorized + 1
  /\ Goto(t, "wait_auth")
  /\ UNCHANGED <<running, thingManager, authType, sem, sem_forConn,
                 auth_response, authToken, thread_conn_flag, heartbeat, lib,
                 seen, ghost>>

\* return ERR_WRONG_AUTHTYPE
WrongAuthType(t) ==
  /\ At(t, "authorize") /\ authType[t] = NoAuthType
  /\ Return(t, ERR_WRONG_AUTHTYPE)
  /\ UNCHANGED <<running, thingManager, authType, sem, auth, thread_conn_flag,
                 heartbeat, lib, seen>>
-----------------------------------------------------------------------------
\* thread_receiver: the answer is kept and the waiter woken.
AuthAnswer ==
  /\ running /\ authorize > 0
  /\ authorize' = authorize - 1
  /\ auth_response' \in {"granted", "refused"}
  /\ sem_forConn' = IF sem_forConn = 0 THEN 1 ELSE sem_forConn
  /\ UNCHANGED <<running, thingManager, pc, authType, sem, authToken, authorized,
                 thread_conn_flag, heartbeat, lib, seen, ghost>>

\* sem_timedwait(sem_forConn) returns 0; set_authToken takes the token out of
\* the answer.
SetToken(t) ==
  /\ At(t, "wait_auth") /\ sem_forConn > 0
  /\ auth_response = "granted"
  /\ sem_forConn' = sem_forConn - 1
  /\ authToken' = TRUE
  /\ Goto(t, "flag")
  /\ UNCHANGED <<running, thingManager, authType, sem, auth_response, authorize,
                 authorized, thread_conn_flag, heartbeat, lib, seen, ghost>>

\* Mutant of AuthFails: a connection without an answer is taken as it is.
AuthFails_goes_on(t) ==
  /\ At(t, "wait_auth")
  /\ (sem_forConn = 0 \/ auth_response = "refused")
  /\ Goto(t, "flag")
  /\ UNCHANGED <<running, thingManager, authType, sem, auth, thread_conn_flag,
                 heartbeat, lib, seen, ghost>>

\* No answer within the limit, or one without a token: exit(EXIT_FAILURE).
AuthFails(t) ==
  /\ At(t, "wait_auth")
  /\ (sem_forConn = 0 \/ auth_response = "refused")
  /\ running' = FALSE
  /\ UNCHANGED <<thingManager, pc, authType, sem, auth, thread_conn_flag,
                 heartbeat, lib, seen, ghost>>

\* thread_conn_flag = 1; return ERR_OK
SetFlag(t) ==
  /\ At(t, "flag")
  /\ thread_conn_flag' = 1
  /\ Return(t, ERR_OK)
  /\ UNCHANGED <<running, thingManager, authType, sem, auth, heartbeat, lib,
                 seen>>
-----------------------------------------------------------------------------
\* iotclient_disconnect, which asks whether the connection is up.
Disconnect ==
  /\ At(APP, "idle") /\ thingManager /\ calls < MaxCalls
  /\ thread_conn_flag' = 0
  /\ calls' = calls + 1
  /\ result' = [result EXCEPT ![APP] = 0]
  /\ Goto(APP, IF link THEN "disconnect" ELSE "idle")
  /\ UNCHANGED <<running, thingManager, authType, sem, auth, heartbeat, lib, seen>>

\* OCPThingManager_disconnect asks again, and so does OCPProtocolMqtt_disconnect: a
\* connection lost before the one ends the call, one lost before the other is waited
\* for without a request.  A request that is refused is not waited for.
MqttDisconnect ==
  /\ At(APP, "disconnect")
  /\ \/ link /\ disconnecting' = TRUE /\ Goto(APP, "wait_disconnect")
     \/ ~link /\ Goto(APP, "wait_disconnect") /\ UNCHANGED disconnecting
     \/ Goto(APP, "idle") /\ UNCHANGED disconnecting
  /\ UNCHANGED <<running, thingManager, authType, sem, auth, thread_conn_flag,
                 heartbeat, link, connecting, notify, subscribing, lost, seen, ghost>>

WaitDisconnect ==
  /\ At(APP, "wait_disconnect")
  /\ WaitSem
  /\ Goto(APP, "idle")
  /\ UNCHANGED <<running, thingManager, authType, auth, thread_conn_flag,
                 heartbeat, lib, seen, ghost>>

\* thread_keep_alive asks the flag only.
KeepAlive ==
  /\ running /\ thread_conn_flag = 1 /\ ~heartbeat
  /\ heartbeat' = TRUE
  /\ UNCHANGED <<running, thingManager, pc, authType, sem, auth,
                 thread_conn_flag, lib, seen, ghost>>
-----------------------------------------------------------------------------
\* The library.  LIB carries out requests only outside the callback.
Free == running /\ pc[LIB] = "idle"

\* onConnectSuccess is called for the request of the program and not for the
\* library's own reconnections.
Connected ==
  /\ Free /\ connecting /\ ~link /\ ~disconnecting
  /\ link' = TRUE /\ connecting' = FALSE /\ notify' = FALSE
  /\ heartbeat' = FALSE
  /\ IF notify THEN Post ELSE UNCHANGED sem
  /\ UNCHANGED <<running, thingManager, pc, authType, auth, thread_conn_flag,
                 subscribing, disconnecting, lost, seen, ghost>>

\* onConnectFailure, for every attempt; the library goes on trying.
ConnectFailed ==
  /\ Free /\ connecting /\ ~link
  /\ Post
  /\ UNCHANGED <<running, thingManager, pc, authType, auth, thread_conn_flag,
                 heartbeat, lib, seen, ghost>>

\* onSubscribeSuccess or onSubscribeFailure
Subscribed ==
  /\ running /\ subscribing > 0
  /\ subscribing' = subscribing - 1
  /\ Post
  /\ UNCHANGED <<running, thingManager, pc, authType, auth, thread_conn_flag,
                 heartbeat, link, connecting, notify, disconnecting, lost, seen,
                 ghost>>

\* onDisconnectSuccess; the library stops trying to reconnect.
Disconnected ==
  /\ Free /\ disconnecting
  /\ link' = FALSE /\ connecting' = FALSE /\ disconnecting' = FALSE
  /\ Post
  /\ UNCHANGED <<running, thingManager, pc, authType, auth, thread_conn_flag,
                 heartbeat, notify, subscribing, lost, seen, ghost>>

\* The connection is lost: MQTT_connectionLost, onConnectionClosedClient and
\* preHandlerConnClosed; the library will try to reconnect (automaticReconnect).
ConnectionLost ==
  /\ Free /\ link /\ lost < MaxLost
  /\ lost' = lost + 1
  /\ link' = FALSE /\ connecting' = ~disconnecting
  /\ Goto(LIB, "closed")
  /\ UNCHANGED <<running, thingManager, authType, sem, auth, thread_conn_flag,
                 heartbeat, notify, subscribing, disconnecting, seen, ghost>>
-----------------------------------------------------------------------------
ConnectSteps(t) ==
  \/ Check(t) \/ MqttConnect(t) \/ MqttConnectFails(t) \/ WaitConnect(t)
  \/ Subscribe(t) \/ WaitSubscribe(t) \/ Authorize(t) \/ WrongAuthType(t)
  \/ SetToken(t) \/ AuthFails(t) \/ SetFlag(t)

Next ==
  \/ Connect \/ CreateFails \/ Disconnect \/ MqttDisconnect \/ WaitDisconnect
  \/ ConnClosed
  \/ ConnectSteps(APP) \/ ConnectSteps(LIB)
  \/ AuthAnswer \/ KeepAlive
  \/ Connected \/ ConnectFailed \/ Subscribed \/ Disconnected \/ ConnectionLost

Spec == Init /\ [][Next]_vars

\* The threads run and the waits have limits; neither the network nor the server
\* is fair.
FairSpec ==
  /\ Spec
  /\ WF_vars(ConnectSteps(APP)) /\ WF_vars(MqttDisconnect \/ WaitDisconnect)
  /\ WF_vars(ConnClosed) /\ WF_vars(ConnectSteps(LIB))
  /\ WF_vars(KeepAlive)
-----------------------------------------------------------------------------
\* The type invariant.
TypeOK ==
  /\ running \in BOOLEAN /\ thingManager \in BOOLEAN
  /\ pc \in [Thread -> {"idle", "closed", "check", "connect", "wait_connect",
                        "subscribe", "wait_subscribe", "authorize", "wait_auth",
                        "flag", "disconnect", "wait_disconnect"}]
  /\ authType \in [Thread -> {NoAuthType, AuthType}]
  /\ sem \in 0 .. 1 /\ sem_forConn \in 0 .. 1
  /\ auth_response \in {"empty", "granted", "refused"}
  /\ authToken \in BOOLEAN /\ thread_conn_flag \in 0 .. 1
  /\ authorized \in 0 .. MaxCalls /\ authorize \in 0 .. authorized
  /\ heartbeat \in BOOLEAN /\ link \in BOOLEAN /\ connecting \in BOOLEAN
  /\ notify \in BOOLEAN /\ subscribing \in 0 .. MaxCalls
  /\ disconnecting \in BOOLEAN
  /\ seen \in [Thread -> BOOLEAN]
  /\ result \in [Thread -> {0, ERR_OK, ERR_CREATE_MQTT_FAIL,
                            ERR_MQTT_CONNECT_FAIL, ERR_MQTT_SUBSCRIBE_FAIL,
                            ERR_WRONG_AUTHTYPE}]
  /\ calls \in 0 .. MaxCalls /\ lost \in 0 .. MaxLost

\* sem_forConn and the global auth_response serve one authorization: however
\* often the program connects and reconnects, from two threads, the manager asks
\* for it once, and only one thread ever waits for the answer.
OneAuthorization ==
  authorized <= 1 /\ ~(pc[APP] = "wait_auth" /\ pc[LIB] = "wait_auth")

\* iotclient_connect returns ERR_OK only if the connection was up at some time
\* during the call, although no wait for the library is checked for success and
\* a late callback of an earlier request may end it.
OkMeansWasConnected == \A t \in Thread : result[t] = ERR_OK => seen[t]
                                          \/ pc[t] # "idle"

\* A connect that creates the manager, the first or one after a failed creation,
\* and returns ERR_OK has authorized the client; and the token stays, whatever the
\* connection does and whatever preHandlerConnClosed does about it, until the
\* application itself connects or disconnects again.
FirstOkAuthorizes ==
  result[APP] = ERR_OK /\ authType[APP] = AuthType => authToken

\* A call of iotclient_connect or iotclient_disconnect returns, or the process
\* exits, whatever the library and the server do or do not answer.
CallsReturn ==
  \A t \in Thread : (running /\ pc[t] # "idle") ~> (pc[t] = "idle" \/ ~running)

\* IotClient.c:341: "wrong case, will not come here ever."
NeverWrongAuthType == \A t \in Thread : result[t] # ERR_WRONG_AUTHTYPE

\* IotClient.c:1722: "about every 2 minutes a heart beat signal is sent" (in
\* Korean): after a connect that succeeded, on a connection that stays up, one is
\* sent.
HeartbeatsSent ==
  (running /\ link /\ result[APP] = ERR_OK /\ pc[APP] = "idle")
    ~> (heartbeat \/ ~link \/ ~running \/ pc[APP] # "idle" \/ result[APP] # ERR_OK)
=============================================================================
