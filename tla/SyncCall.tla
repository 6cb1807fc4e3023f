------------------------------ MODULE SyncCall ------------------------------
(***************************************************************************)
(* The synchronous calls of src/sdk/iotclient/IotClient.c.                 *)
(* iotclient_sendAttributesSync queues an attribute message and waits on   *)
(* the semaphore sem_forSync; thread_receiver stores the result code of    *)
(* every attribute response in the global sync_resCode and posts the       *)
(* semaphore unless its value is already above 0.  Nothing ties a response *)
(* to the call that waits: any attribute response, of an asynchronous call *)
(* too, wakes any waiter.  The listener of the application runs on         *)
(* thread_receiver and may itself make a synchronous call.                 *)
(*                                                                         *)
(* A message is a number, given when the message is made; a response       *)
(* carries the number of its request, which stands for its resCode.  The   *)
(* way out (the send queue, Sender) and the server are one step: a message *)
(* is under way until it is answered, which may be late or never.          *)
(*                                                                         *)
(* The calls compute how long they wait in the global timespec ts, which   *)
(* the first iotclient_connect uses too, for the authorization it awaits   *)
(* on the semaphore sem_forConn: that connect is the thread CONNECTOR.     *)
(***************************************************************************)
EXTENDS Naturals, Sequences, FiniteSets

CONSTANTS Caller,     \* the application's threads
          RECEIVER,   \* thread_receiver
          CONNECTOR,  \* the thread in the connect that awaits the authorization
          MaxMessage  \* bound of the model: attribute messages made

ASSUME SyncAssumption ==
  /\ RECEIVER \notin Caller /\ CONNECTOR \notin Caller \cup {RECEIVER}
  /\ IsFiniteSet(Caller) /\ MaxMessage \in Nat

Thread == Caller \cup {RECEIVER}
Waiter == Thread \cup {CONNECTOR}
Message == 1 .. MaxMessage
NoCode == 0           \* the global sync_resCode before the first response

VARIABLES sem,           \* the value of sem_forSync
          sync_resCode,  \* the global: the message whose response wrote it last
          made,          \* attribute messages made so far
          underway,      \* those the server may still answer
          receive_queue, \* responses, oldest first
          rpc,           \* where thread_receiver is in its round
          pc,            \* where each thread is in its synchronous call
          own,           \* the message of that call
          since,         \* how many responses were handled when the post that
                         \* woke it was made
          handled,       \* responses whose code was stored, in order
          token,         \* how many of them there were at the last post
          returned,      \* what the calls returned, successful and timed out
          ts,            \* the global timespec: how often sem_timeout was added
                         \* to it since a clock was read into it last
          loaded,        \* ts as each thread that adds to it has read it
          limit,         \* ts as it was when each sleeping thread went to sleep
          crossed        \* history: another thread wrote ts between the thread's
                         \* clock_gettime and its sem_timedwait

time == <<ts, loaded, limit, crossed>>
server == <<made, underway>>
receiver == <<receive_queue, rpc, sync_resCode, handled, token>>
vars == <<sem, sync_resCode, made, underway, receive_queue, rpc, pc, own, since,
          handled, token, returned, time>>

Init ==
  /\ sem = 0 /\ sync_resCode = NoCode
  /\ made = 0 /\ underway = {}
  /\ receive_queue = <<>> /\ rpc = "loop"
  /\ pc = [t \in Waiter |-> IF t = CONNECTOR THEN "connect" ELSE "app"]
  /\ own = [t \in Thread |-> NoCode]
  /\ since = [t \in Thread |-> 0]
  /\ handled = <<>> /\ token = 0
  /\ returned = {}
  /\ ts = 0 /\ loaded = [t \in Waiter |-> 0] /\ limit = [t \in Waiter |-> 0]
  /\ crossed = [t \in Waiter |-> FALSE]
-----------------------------------------------------------------------------
\* A thread is in the application's code: the receiver when it is in the
\* listener.
InApplication(t) == pc[t] = "app" /\ (t = RECEIVER => rpc = "listener")

Make == /\ made < MaxMessage
        /\ made' = made + 1
        /\ underway' = underway \cup {made + 1}

\* iotclient_sendAttributes and its variants, the calls that do not wait.
sendAttributes(t) ==
  /\ InApplication(t) /\ Make
  /\ UNCHANGED <<sem, receiver, pc, own, since, returned, time>>

\* t writes ts while other threads are about to use it.
WriteLimit(t, value) ==
  /\ ts' = value
  /\ crossed' = [u \in Waiter |->
                  crossed[u] \/ (u # t /\ pc[u] \in {"add", "store", "wait"})]

\* Mutant of sendAttributesSync: a new call first clears the result code.
sendAttributesSync_clears_code(t) ==
  /\ InApplication(t) /\ Make /\ WriteLimit(t, 0)
  /\ own' = [own EXCEPT ![t] = made + 1]
  /\ pc' = [pc EXCEPT ![t] = "add"]
  /\ sync_resCode' = NoCode
  /\ UNCHANGED <<sem, receive_queue, rpc, handled, token, since, returned, loaded,
                 limit>>

\* Mutant of sendAttributesSync: the clock is read by the first call only.
sendAttributesSync_old_clock(t) ==
  /\ InApplication(t) /\ Make
  /\ own' = [own EXCEPT ![t] = made + 1]
  /\ pc' = [pc EXCEPT ![t] = "add"]
  /\ UNCHANGED <<sem, receiver, since, returned, time>>

\* iotclient_sendAttributesSync: makeMessage, add_queue, clock_gettime(&ts).
sendAttributesSync(t) ==
  /\ InApplication(t) /\ Make /\ WriteLimit(t, 0)
  /\ own' = [own EXCEPT ![t] = made + 1]
  /\ pc' = [pc EXCEPT ![t] = "add"]
  /\ UNCHANGED <<sem, receiver, since, returned, loaded, limit>>

\* iotclient_connect has queued the authorization message: clock_gettime(&ts).
AwaitAuthorization ==
  /\ pc[CONNECTOR] = "connect" /\ WriteLimit(CONNECTOR, 0)
  /\ pc' = [pc EXCEPT ![CONNECTOR] = "add"]
  /\ UNCHANGED <<sem, server, receiver, own, since, returned, loaded, limit>>

\* ts.tv_sec += sem_timeout reads the global ...
LoadLimit(t) ==
  /\ pc[t] = "add"
  /\ loaded' = [loaded EXCEPT ![t] = ts]
  /\ pc' = [pc EXCEPT ![t] = "store"]
  /\ UNCHANGED <<sem, server, receiver, own, since, returned, ts, limit, crossed>>

\* ... and writes it, one sem_timeout larger, whatever it is by then.
StoreLimit(t) ==
  /\ pc[t] = "store" /\ WriteLimit(t, loaded[t] + 1)
  /\ loaded' = [loaded EXCEPT ![t] = 0]
  /\ pc' = [pc EXCEPT ![t] = "wait"]
  /\ UNCHANGED <<sem, server, receiver, own, since, returned, limit>>

\* A sem_timedwait that finds its semaphore at 0 sleeps until ts.
SleepUntilLimit(t) ==
  /\ pc[t] = "wait"
  /\ pc' = [pc EXCEPT ![t] = "asleep"]
  /\ limit' = [limit EXCEPT ![t] = ts]
  /\ UNCHANGED <<sem, server, receiver, own, since, returned, ts, loaded, crossed>>

Block(t) == sem = 0 /\ SleepUntilLimit(t)

\* t no longer waits.
WaitEnds(t) == /\ limit' = [limit EXCEPT ![t] = 0]
               /\ crossed' = [crossed EXCEPT ![t] = FALSE]
               /\ UNCHANGED <<ts, loaded>>

\* The same on sem_forConn, and its end when the authorization has come.  When it
\* has not by then, the process exits: Connect follows that wait.
AuthorizationSleeps == SleepUntilLimit(CONNECTOR)

Authorized ==
  /\ pc[CONNECTOR] \in {"wait", "asleep"}
  /\ pc' = [pc EXCEPT ![CONNECTOR] = "app"]
  /\ WaitEnds(CONNECTOR)
  /\ UNCHANGED <<sem, server, receiver, own, since, returned>>

\* Mutant of Wake: the semaphore is not taken.
Wake_keeps_sem(t) ==
  /\ pc[t] \in {"wait", "asleep"} /\ sem > 0
  /\ since' = [since EXCEPT ![t] = token]
  /\ pc' = [pc EXCEPT ![t] = "read"]
  /\ WaitEnds(t)
  /\ UNCHANGED <<sem, server, receiver, own, returned>>

\* sem_timedwait takes the semaphore and returns 0.
Wake(t) ==
  /\ pc[t] \in {"wait", "asleep"} /\ sem > 0
  /\ sem' = sem - 1
  /\ since' = [since EXCEPT ![t] = token]
  /\ pc' = [pc EXCEPT ![t] = "read"]
  /\ WaitEnds(t)
  /\ UNCHANGED <<server, receiver, own, returned>>

Return(t, result, code) ==
  /\ pc' = [pc EXCEPT ![t] = "app"]
  /\ own' = [own EXCEPT ![t] = NoCode]
  /\ returned' = returned \cup {[by |-> t, call |-> own[t], result |-> result,
                                 code |-> code, since |-> since[t]]}
  /\ since' = [since EXCEPT ![t] = 0]
  /\ WaitEnds(t)

\* return (iot_status_code)sync_resCode
ReturnCode(t) ==
  /\ pc[t] = "read"
  /\ Return(t, "code", sync_resCode)
  /\ UNCHANGED <<sem, server, receiver>>

\* Mutant of TimeOut: a call of the listener waits without a limit.
TimeOut_not_in_listener(t) ==
  /\ pc[t] = "asleep" /\ t # RECEIVER
  /\ Return(t, "timeout", NoCode)
  /\ UNCHANGED <<sem, server, receiver>>

\* Mutant of TimeOut: only a call that nobody answers gives up.
TimeOut_unanswered(t) ==
  /\ pc[t] = "asleep" /\ own[t] \in underway
  /\ Return(t, "timeout", NoCode)
  /\ UNCHANGED <<sem, server, receiver>>

\* sem_timedwait sleeps for 5 seconds and fails: ERR_TIMEOUT_RESPONSE.  A post
\* may come between the timer and the return.
TimeOut(t) ==
  /\ pc[t] = "asleep"
  /\ Return(t, "timeout", NoCode)
  /\ UNCHANGED <<sem, server, receiver>>
-----------------------------------------------------------------------------
\* The server answers a message, at any time and in any order: preListener puts
\* the response into the receive queue.
Answer(m) ==
  /\ m \in underway
  /\ underway' = underway \ {m}
  /\ receive_queue' = Append(receive_queue, m)
  /\ UNCHANGED <<sem, made, rpc, sync_resCode, handled, token, pc, own, since,
                 returned, time>>

\* Mutant of Store: the next response is handled while the listener still runs.
Store_any_time ==
  /\ \/ /\ rpc = "loop" /\ receive_queue # <<>>
        /\ sync_resCode' = Head(receive_queue)
        /\ UNCHANGED receive_queue
     \/ /\ rpc = "listener" /\ Len(receive_queue) > 1
        /\ sync_resCode' = receive_queue[2]
        /\ receive_queue' = Tail(receive_queue)
  /\ handled' = Append(handled, sync_resCode')
  /\ rpc' = "test"
  /\ UNCHANGED <<sem, server, token, pc, own, since, returned, time>>

\* sync_resCode = atoi(message->resCode)
Store ==
  /\ rpc = "loop" /\ receive_queue # <<>>
  /\ sync_resCode' = Head(receive_queue)
  /\ handled' = Append(handled, Head(receive_queue))
  /\ rpc' = "test"
  /\ UNCHANGED <<sem, server, receive_queue, token, pc, own, since, returned, time>>

\* Mutant of Test: the value of the semaphore is not looked at.
Test_ignored ==
  /\ rpc = "test"
  /\ rpc' = "post"
  /\ UNCHANGED <<sem, server, receive_queue, sync_resCode, handled, token, pc,
                 own, since, returned, time>>

\* sem_getvalue(sem_forSync, &semval); if(semval == 0)
Test ==
  /\ rpc = "test"
  /\ rpc' = IF sem = 0 THEN "post" ELSE "listener"
  /\ UNCHANGED <<sem, server, receive_queue, sync_resCode, handled, token, pc,
                 own, since, returned, time>>

\* sem_post(sem_forSync)
Post ==
  /\ rpc = "post"
  /\ sem' = sem + 1 /\ token' = Len(handled)
  /\ rpc' = "listener"
  /\ UNCHANGED <<server, receive_queue, sync_resCode, handled, pc, own, since,
                 returned, time>>

\* listenerOfApplication returns; delete_queue(receive_queue).
ListenerReturns ==
  /\ rpc = "listener" /\ pc[RECEIVER] = "app"
  /\ receive_queue' = Tail(receive_queue)
  /\ rpc' = "loop"
  /\ UNCHANGED <<sem, server, sync_resCode, handled, token, pc, own, since,
                 returned, time>>
-----------------------------------------------------------------------------
WaitSteps(t) == \/ LoadLimit(t) \/ StoreLimit(t) \/ Block(t) \/ Wake(t)
                \/ ReturnCode(t) \/ TimeOut(t)
ReceiverSteps == Store \/ Test \/ Post \/ ListenerReturns

Next ==
  \/ \E t \in Thread : \/ sendAttributes(t) \/ sendAttributesSync(t)
                       \/ Block(t) \/ Wake(t) \/ ReturnCode(t) \/ TimeOut(t)
  \/ \E t \in Waiter : LoadLimit(t) \/ StoreLimit(t)
  \/ AwaitAuthorization \/ AuthorizationSleeps \/ Authorized
  \/ \E m \in Message : Answer(m)
  \/ Store \/ Test \/ Post \/ ListenerReturns

Spec == Init /\ [][Next]_vars

\* The two threads of a call run, and its timer expires: sem_timedwait has a
\* limit.  The application need not call and the server need not answer.
FairSpec == Spec /\ WF_vars(ReceiverSteps)
                 /\ \A t \in Thread : WF_vars(WaitSteps(t))
-----------------------------------------------------------------------------
LimitsTyped ==
  /\ ts \in Nat /\ loaded \in [Waiter -> Nat]
  /\ limit \in [Waiter -> Nat] /\ crossed \in [Waiter -> BOOLEAN]

\* The type invariant: sem_forSync is the "binary" semaphore the test before
\* the post makes of it, although callers take it between the test and the post.
TypeOK ==
  /\ sem \in 0 .. 1 /\ sync_resCode \in 0 .. MaxMessage
  /\ made \in 0 .. MaxMessage /\ underway \in SUBSET (1 .. made)
  /\ receive_queue \in Seq(1 .. made)
  /\ rpc \in {"loop", "test", "post", "listener"}
  /\ pc \in [Waiter -> {"app", "connect", "add", "store", "wait", "asleep", "read"}]
  /\ own \in [Thread -> 0 .. made]
  /\ handled \in Seq(1 .. made) /\ token \in 0 .. Len(handled)
  /\ since \in [Thread -> 0 .. Len(handled)]
  /\ LimitsTyped

Successes == {r \in returned : r.result = "code"}

\* However many threads wait and however the posts are held back by the test,
\* calls never succeed more often than responses were handled.
NoMoreSuccessesThanResponses ==
  Cardinality(Successes) + Cardinality({t \in Thread : pc[t] = "read"}) + sem
    <= Len(handled)

\* The code a call returns is that of the response whose post woke it, or of a
\* later one, never an older code or the initial 0: the receiver stores
\* sync_resCode before it posts, although the caller reads it some time after it
\* was woken.
CodeNoOlderThanWake ==
  \A r \in Successes :
    r.since > 0 /\ \E i \in r.since .. Len(handled) : handled[i] = r.code

\* A synchronous call made by the listener never returns the code of its own
\* response: the thread that would handle that response is the one that waits.
ListenerCallNeverOwn ==
  \A r \in Successes : r.by = RECEIVER => r.code # r.call

\* ts is one global for all the calls and for the authorization, read into,
\* loaded and stored without a lock (IotClient.c:350-353, 471-474, 553-556).  A
\* wait lasts exactly one sem_timeout unless another thread writes ts between its
\* clock_gettime and its sem_timedwait.  When one does, the wait may end at once,
\* or last longer than there are threads: a store may put back what was loaded
\* before a clock was read, and each may add to the last.  But no addition counts
\* twice, so no wait outlasts one sem_timeout for each message made and one for
\* the authorization.
LimitOfOneCall ==
  \A t \in Waiter : pc[t] = "asleep" =>
    /\ ~crossed[t] => limit[t] = 1
    /\ limit[t] <= made + 1

\* Only c has made messages so far, all of them in synchronous calls of which
\* none timed out.
Alone(c) ==
  /\ \A r \in returned : r.by = c /\ r.result = "code"
  /\ made = Cardinality(returned) + (IF pc[c] = "app" THEN 0 ELSE 1)

\* What synchronous calls can be relied on for: as long as one thread of the
\* application is alone, each call returns the code of its own response.
OwnResponseWhenAlone ==
  \A c \in Caller : Alone(c) => \A r \in returned : r.code = r.call

\* Every synchronous call returns, answered or not, from the listener too.
CallsReturn == \A t \in Thread : (pc[t] # "app") ~> (pc[t] = "app")

\* A response that is in the receive queue is handled, although the listener may
\* wait for answers that only its own thread could handle.
ResponsesHandled ==
  \A m \in Message :
    (\E i \in 1 .. Len(receive_queue) : receive_queue[i] = m)
      ~> (\E i \in 1 .. Len(handled) : handled[i] = m)
=============================================================================
