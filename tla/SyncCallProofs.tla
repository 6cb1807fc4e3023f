--------------------------- MODULE SyncCallProofs ---------------------------
(***************************************************************************)
(* Proofs about SyncCall for any finite set of application threads and any *)
(* number of messages.  Each section adds a layer to the inductive         *)
(* invariant: types; what sync_resCode holds; how often calls succeed; the *)
(* shared ts; and what one thread alone can rely on.                       *)
(***************************************************************************)
EXTENDS SyncCall, FiniteSetTheorems, TLAPS

LEMMA Waiters ==
  /\ RECEIVER \in Thread /\ RECEIVER \notin Caller /\ Caller \subseteq Thread
  /\ CONNECTOR \in Waiter /\ CONNECTOR \notin Thread /\ Thread \subseteq Waiter
  /\ MaxMessage \in Nat
BY SyncAssumption DEF Thread, Waiter

USE Waiters DEF NoCode, Message
-----------------------------------------------------------------------------
(* Types.                                                                  *)

\* What thread_receiver holds in its round: the response it took stays the
\* first of the queue until the listener returns, its code was stored, and
\* sem_post runs only on a semaphore that sem_getvalue found at 0.
Round ==
  /\ rpc # "loop" => receive_queue # <<>> /\ handled # <<>>
  /\ rpc = "post" => sem = 0
  /\ pc[RECEIVER] # "app" => rpc = "listener"

Calls == \A t \in Thread : pc[t] # "app" => own[t] \in 1 .. made

ReturnedOK ==
  \A r \in returned : /\ r.by \in Thread /\ r.call \in 1 .. made
                      /\ r.result \in {"code", "timeout"} /\ r.since \in Nat

TInv == TypeOK /\ Round /\ Calls /\ ReturnedOK

\* A sequence of messages stays one when a message is made.
LEMMA SeqGrows ==
  ASSUME NEW n \in Nat, NEW s \in Seq(1 .. n)
  PROVE  s \in Seq(1 .. n + 1)
<1>1. Len(s) \in Nat /\ DOMAIN s = 1 .. Len(s) /\ \A i \in 1 .. Len(s) : s[i] \in 1 .. n + 1
  OBVIOUS
<1>2. s = [i \in 1 .. Len(s) |-> s[i]]
  OBVIOUS
<1> QED BY <1>1, <1>2

\* WriteLimit keeps the types.
LEMMA WriteLimitType ==
  ASSUME LimitsTyped, NEW t \in Waiter, NEW value \in Nat, WriteLimit(t, value)
  PROVE  ts' \in Nat /\ crossed' \in [Waiter -> BOOLEAN]
<1>1. ts' \in Nat
  BY DEF WriteLimit
<1>2. \A u \in Waiter :
        (crossed[u] \/ (u # t /\ pc[u] \in {"add", "store", "wait"})) \in BOOLEAN
  BY Zenon
<1>3. crossed' \in [Waiter -> BOOLEAN]
  BY <1>2, Zenon DEF WriteLimit
<1> QED BY <1>1, <1>3

LEMMA InitTInv == Init => TInv
BY DEF Init, TInv, TypeOK, LimitsTyped, Round, Calls, ReturnedOK

\* The steps on ts alone, those of the connect that awaits the authorization among
\* them: they touch no semaphore and take no thread into or out of a call.
LimitSteps == \/ \E t \in Waiter : LoadLimit(t) \/ StoreLimit(t)
              \/ AwaitAuthorization \/ AuthorizationSleeps \/ Authorized

LEMMA LimitStepsKeep ==
  ASSUME TypeOK, LimitSteps
  PROVE  /\ UNCHANGED <<sem, server, receiver, own, since, returned>>
         /\ \A u \in Thread : \/ pc'[u] = pc[u]
                              \/ pc[u] \in {"add", "store"} /\ pc'[u] \in {"store", "wait"}
<1>1. UNCHANGED <<sem, server, receiver, own, since, returned>>
  BY DEF LimitSteps, LoadLimit, StoreLimit, AwaitAuthorization, AuthorizationSleeps,
         SleepUntilLimit, Authorized
<1>2. \E t \in Waiter, there \in {"add", "store", "wait", "asleep", "app"} :
        /\ pc' = [pc EXCEPT ![t] = there]
        /\ t = CONNECTOR \/ (pc[t] \in {"add", "store"} /\ there \in {"store", "wait"})
  BY DEF LimitSteps, LoadLimit, StoreLimit, AwaitAuthorization, AuthorizationSleeps,
         SleepUntilLimit, Authorized
<1> QED BY <1>1, <1>2 DEF TypeOK

LEMMA LimitTInv == ASSUME TInv, LimitSteps PROVE TInv'
<1> USE DEF TInv, TypeOK
<1>1. UNCHANGED <<sem, server, receiver, own, since, returned>>
  BY LimitStepsKeep
<1>2. \A u \in Thread : pc'[u] = "app" <=> pc[u] = "app"
  BY LimitStepsKeep
<1>3. pc' \in [Waiter -> {"app", "connect", "add", "store", "wait", "asleep", "read"}]
  BY DEF LimitSteps, LoadLimit, StoreLimit, AwaitAuthorization, AuthorizationSleeps,
         SleepUntilLimit, Authorized
<1>4. LimitsTyped'
  <2> USE DEF LimitsTyped
  <2>1. CASE \E t \in Waiter : StoreLimit(t)
    <3>1. PICK t \in Waiter : /\ WriteLimit(t, loaded[t] + 1) /\ UNCHANGED limit
                              /\ loaded' = [loaded EXCEPT ![t] = 0]
      BY <2>1 DEF StoreLimit
    <3>2. ts' \in Nat /\ crossed' \in [Waiter -> BOOLEAN]
      BY <3>1, WriteLimitType
    <3> QED BY <3>1, <3>2
  <2>2. CASE AwaitAuthorization
    <3>1. WriteLimit(CONNECTOR, 0) /\ UNCHANGED <<loaded, limit>>
      BY <2>2 DEF AwaitAuthorization
    <3> QED BY <3>1, WriteLimitType
  <2>3. CASE \E t \in Waiter : LoadLimit(t)
    BY <2>3 DEF LoadLimit
  <2>4. CASE AuthorizationSleeps \/ Authorized
    <3> HIDE DEF TInv, TypeOK
    <3>1. LimitsTyped
      BY DEF TInv, TypeOK
    <3>2. CASE AuthorizationSleeps
      BY <3>1, <3>2 DEF AuthorizationSleeps, SleepUntilLimit
    <3>3. CASE Authorized
      BY <3>1, <3>3 DEF Authorized, WaitEnds
    <3> QED BY <2>4, <3>2, <3>3
  <2> QED BY <2>1, <2>2, <2>3, <2>4 DEF LimitSteps
<1>5. TypeOK'
  BY <1>1, <1>3, <1>4 DEF server, receiver
<1>6. Round' /\ Calls' /\ ReturnedOK'
  BY <1>1, <1>2 DEF Round, Calls, ReturnedOK, server, receiver
<1> QED BY <1>5, <1>6

\* A message is made, with or without a call that waits for it.
LEMMA SendTInv ==
  ASSUME TInv, NEW t \in Thread, sendAttributes(t) \/ sendAttributesSync(t)
  PROVE  TInv'
<1> USE DEF TInv, TypeOK
<1>1. made' = made + 1 /\ made' \in 0 .. MaxMessage /\ underway' = underway \cup {made + 1}
  BY DEF sendAttributes, sendAttributesSync, Make
<1>2. UNCHANGED <<sem, receiver, since, returned, loaded, limit>>
  BY DEF sendAttributes, sendAttributesSync, time
<1>3. underway' \in SUBSET (1 .. made')
  BY <1>1
<1>4. receive_queue' \in Seq(1 .. made') /\ handled' \in Seq(1 .. made')
  BY <1>1, <1>2, SeqGrows DEF receiver
<1>5. /\ pc' = pc /\ own' = own /\ UNCHANGED <<ts, crossed>>
      \/ /\ pc' = [pc EXCEPT ![t] = "add"] /\ own' = [own EXCEPT ![t] = made + 1]
         /\ WriteLimit(t, 0)
  BY DEF sendAttributes, sendAttributesSync, time
<1>6. /\ pc' \in [Waiter -> {"app", "connect", "add", "store", "wait", "asleep", "read"}]
      /\ own' \in [Thread -> 0 .. made']
  <2>1. own \in [Thread -> 0 .. made']
    BY <1>1
  <2>2. made + 1 \in 0 .. made'
    BY <1>1
  <2>3. own' \in [Thread -> 0 .. made']
    BY <1>5, <2>1, <2>2
  <2> QED BY <1>5, <2>3
<1>7. LimitsTyped'
  BY <1>2, <1>5, WriteLimitType DEF LimitsTyped
<1>8. TypeOK'
  BY <1>1, <1>2, <1>3, <1>4, <1>6, <1>7 DEF receiver
<1>9. Round'
  BY <1>2, <1>5 DEF Round, receiver, sendAttributes, sendAttributesSync, InApplication
<1>10. Calls'
  <2> SUFFICES ASSUME NEW u \in Thread, pc'[u] # "app"
               PROVE  own'[u] \in 1 .. made'
    BY DEF Calls
  <2>1. CASE u = t /\ own' = [own EXCEPT ![t] = made + 1]
    BY <1>1, <2>1
  <2>2. CASE pc'[u] = pc[u] /\ own'[u] = own[u]
    BY <1>1, <2>2 DEF Calls
  <2> QED BY <1>5, <2>1, <2>2
<1>11. ReturnedOK'
  BY <1>1, <1>2 DEF ReturnedOK
<1> QED BY <1>8, <1>9, <1>10, <1>11

\* Block and Wake: the call goes on.
LEMMA WaitTInv ==
  ASSUME TInv, NEW t \in Thread, Block(t) \/ Wake(t)
  PROVE  TInv'
<1> USE DEF TInv, TypeOK
<1>1. /\ UNCHANGED <<server, receiver, own, returned>>
      /\ pc[t] \in {"wait", "asleep"}
      /\ \E there \in {"asleep", "read"} : pc' = [pc EXCEPT ![t] = there]
  BY DEF Block, SleepUntilLimit, Wake
<1>2. sem' \in 0 .. 1 /\ (sem' = sem \/ sem' = sem - 1)
  BY DEF Block, SleepUntilLimit, Wake
<1>3. since' \in [Thread -> 0 .. Len(handled)]
  BY DEF Block, SleepUntilLimit, Wake
<1>4. LimitsTyped'
  <2> HIDE DEF TInv, TypeOK
  <2>1. LimitsTyped
    BY DEF TInv, TypeOK
  <2>2. CASE Block(t)
    BY <2>1, <2>2 DEF Block, SleepUntilLimit, LimitsTyped
  <2>3. CASE Wake(t)
    BY <2>1, <2>3 DEF Wake, WaitEnds, LimitsTyped
  <2> QED BY <2>2, <2>3
<1>5. TypeOK'
  BY <1>1, <1>2, <1>3, <1>4 DEF receiver, server
<1>6. Round'
  BY <1>1, <1>2 DEF Round, receiver
<1>7. Calls' /\ ReturnedOK'
  BY <1>1 DEF Calls, ReturnedOK, server
<1> QED BY <1>5, <1>6, <1>7

LEMMA ReturnTInv ==
  ASSUME TInv, NEW t \in Thread, ReturnCode(t) \/ TimeOut(t)
  PROVE  TInv'
<1> USE DEF TInv, TypeOK
<1>1. /\ UNCHANGED <<sem, server, receiver>> /\ pc[t] # "app"
      /\ \E result \in {"code", "timeout"}, code \in 0 .. MaxMessage : Return(t, result, code)
  BY DEF ReturnCode, TimeOut
<1>2. PICK result \in {"code", "timeout"}, code \in 0 .. MaxMessage : Return(t, result, code)
  BY <1>1
<1>3. /\ pc' = [pc EXCEPT ![t] = "app"] /\ own' = [own EXCEPT ![t] = NoCode]
      /\ since' = [since EXCEPT ![t] = 0]
      /\ LimitsTyped'
  BY <1>2 DEF Return, WaitEnds, LimitsTyped
<1>4. TypeOK'
  BY <1>1, <1>3 DEF receiver, server
<1>5. Round' /\ Calls'
  BY <1>1, <1>3 DEF Round, Calls, receiver, server
<1>6. ReturnedOK'
  <2> DEFINE new == [by |-> t, call |-> own[t], result |-> result,
                     code |-> code, since |-> since[t]]
  <2>1. returned' = returned \cup {new}
    BY <1>2 DEF Return
  <2>2. /\ new.by \in Thread /\ new.call \in 1 .. made
        /\ new.result \in {"code", "timeout"} /\ new.since \in Nat
    BY <1>1 DEF Calls
  <2> QED BY <1>1, <2>1, <2>2 DEF ReturnedOK, server
<1> QED BY <1>4, <1>5, <1>6

\* Answer and the steps of thread_receiver: they touch no call.
LEMMA ReceiverTInv ==
  ASSUME TInv, (\E m \in Message : Answer(m)) \/ ReceiverSteps \/ UNCHANGED vars
  PROVE  TInv'
<1> USE DEF TInv, TypeOK
<1>1. UNCHANGED <<made, pc, own, since, returned, time>>
  BY DEF Answer, ReceiverSteps, Store, Test, Post, ListenerReturns, vars, server
<1>2. underway' \in SUBSET underway
  BY DEF Answer, ReceiverSteps, Store, Test, Post, ListenerReturns, vars, server
<1>3. /\ receive_queue' \in Seq(1 .. made) /\ handled' \in Seq(1 .. made)
      /\ sync_resCode' \in 0 .. MaxMessage /\ sem' \in 0 .. 1
      /\ Len(handled) <= Len(handled') /\ token' \in 0 .. Len(handled')
      /\ rpc' \in {"loop", "test", "post", "listener"}
      /\ Round'
  <2>1. CASE \E m \in Message : Answer(m)
    <3>1. PICK m \in Message : Answer(m)
      BY <2>1
    <3>2. receive_queue' = Append(receive_queue, m) /\ m \in 1 .. made
      BY <3>1 DEF Answer
    <3>3. receive_queue' \in Seq(1 .. made) /\ receive_queue' # <<>>
      <4> HIDE DEF TInv, TypeOK
      <4>1. receive_queue \in Seq(1 .. made)
        BY DEF TInv, TypeOK
      <4> QED BY <3>2, <4>1
    <3>4. UNCHANGED <<sem, rpc, sync_resCode, handled, token>>
      BY <3>1 DEF Answer
    <3> QED BY <1>1, <3>3, <3>4 DEF Round
  <2>2. CASE Store
    <3>1. Head(receive_queue) \in 1 .. made
      BY <2>2 DEF Store
    <3>2. handled' = Append(handled, Head(receive_queue)) /\ handled' # <<>>
          /\ handled' \in Seq(1 .. made) /\ Len(handled') = Len(handled) + 1
      <4>1. handled' = Append(handled, Head(receive_queue))
        BY <2>2 DEF Store
      <4>2. handled \in Seq(1 .. made)
        OBVIOUS
      <4> HIDE DEF TInv, TypeOK
      <4>3. handled' \in Seq(1 .. made) /\ Len(handled') = Len(handled) + 1
        BY <3>1, <4>1, <4>2
      <4>4. Len(handled) \in Nat /\ Len(<<>>) = 0
        BY <4>2
      <4> QED BY <4>1, <4>3, <4>4
    <3>3. /\ UNCHANGED <<sem, receive_queue, token>> /\ rpc = "loop" /\ rpc' = "test"
          /\ receive_queue # <<>> /\ sync_resCode' = Head(receive_queue)
      BY <2>2 DEF Store
    <3>4. token' \in 0 .. Len(handled')
      BY <3>2, <3>3
    <3>5. sync_resCode' \in 0 .. MaxMessage
      BY <3>1, <3>3
    <3>6. Round'
      BY <1>1, <3>2, <3>3 DEF Round
    <3> QED BY <3>2, <3>3, <3>4, <3>5, <3>6
  <2>3. CASE Test
    BY <2>3 DEF Test, Round
  <2>4. CASE Post
    BY <2>4 DEF Post, Round
  <2>5. CASE ListenerReturns
    BY <2>5 DEF ListenerReturns, Round
  <2>6. CASE UNCHANGED vars
    BY <2>6 DEF vars, Round, receiver
  <2> QED BY <2>1, <2>2, <2>3, <2>4, <2>5, <2>6 DEF ReceiverSteps
<1>4. since' \in [Thread -> 0 .. Len(handled')]
  BY <1>1, <1>3
<1> QED BY <1>1, <1>2, <1>3, <1>4 DEF time, LimitsTyped, Calls, ReturnedOK

LEMMA StepTInv == TInv /\ [Next]_vars => TInv'
BY LimitTInv, SendTInv, WaitTInv, ReturnTInv, ReceiverTInv DEF Next, LimitSteps, ReceiverSteps

\* Every value of the state of a call, whatever the bounds: in particular the
\* value of sem_forSync never exceeds 1, although the receiver tests it and posts
\* it in two calls (IotClient.c:1540-1543).
THEOREM SyncTypeCorrect == Spec => []TypeOK
<1>1. TInv => TypeOK
  BY DEF TInv
<1> QED BY <1>1, InitTInv, StepTInv, PTL DEF Spec
-----------------------------------------------------------------------------
(* What sync_resCode holds: the code of the last response handled, of which  *)
(* there is one before the first post.                                       *)

Codes ==
  /\ sync_resCode = IF handled = <<>> THEN NoCode ELSE handled[Len(handled)]
  /\ sem > 0 => token > 0
  /\ \A t \in Thread : pc[t] = "read" => since[t] > 0

\* While the listener waits, its thread cannot store the response to its call.
ListenerWaits == pc[RECEIVER] # "app" => own[RECEIVER] # sync_resCode

CInv == TInv /\ Codes /\ CodeNoOlderThanWake /\ ListenerWaits /\ ListenerCallNeverOwn

\* The code in sync_resCode is that of a message made before.
LEMMA CodeWasMade == ASSUME TypeOK, Codes PROVE sync_resCode \in 0 .. made
BY DEF TypeOK, Codes

LEMMA SendCInv ==
  ASSUME CInv, NEW t \in Thread, sendAttributes(t) \/ sendAttributesSync(t)
  PROVE  Codes' /\ CodeNoOlderThanWake' /\ ListenerWaits' /\ ListenerCallNeverOwn'
<1> USE DEF CInv, TInv, TypeOK
<1>1. UNCHANGED <<sem, sync_resCode, handled, token, since, returned>>
  BY DEF sendAttributes, sendAttributesSync, receiver, time
<1>2. \/ pc' = pc /\ own' = own
      \/ pc' = [pc EXCEPT ![t] = "add"] /\ own' = [own EXCEPT ![t] = made + 1]
  BY DEF sendAttributes, sendAttributesSync
<1>3. Codes'
  BY <1>1, <1>2 DEF Codes
<1>4. CodeNoOlderThanWake' /\ ListenerCallNeverOwn'
  BY <1>1 DEF CodeNoOlderThanWake, ListenerCallNeverOwn, Successes
<1>5. ListenerWaits'
  <2>1. sync_resCode # made + 1
    BY CodeWasMade
  <2> QED BY <1>1, <1>2, <2>1 DEF ListenerWaits
<1> QED BY <1>3, <1>4, <1>5

LEMMA LimitCInv ==
  ASSUME CInv, LimitSteps
  PROVE  Codes' /\ CodeNoOlderThanWake' /\ ListenerWaits' /\ ListenerCallNeverOwn'
<1> USE DEF CInv, TInv
<1>1. UNCHANGED <<sem, receiver, own, since, returned>>
  BY LimitStepsKeep
<1>2. \A u \in Thread : /\ pc'[u] = "app" <=> pc[u] = "app"
                        /\ pc'[u] = "read" <=> pc[u] = "read"
  BY LimitStepsKeep
<1> QED BY <1>1, <1>2 DEF Codes, CodeNoOlderThanWake, ListenerWaits, ListenerCallNeverOwn,
                          Successes, receiver

LEMMA WaitCInv ==
  ASSUME CInv, NEW t \in Thread, Block(t) \/ Wake(t)
  PROVE  Codes' /\ CodeNoOlderThanWake' /\ ListenerWaits' /\ ListenerCallNeverOwn'
<1> USE DEF CInv, TInv, TypeOK
<1>1. UNCHANGED <<receiver, own, returned>> /\ pc[t] # "app"
  BY DEF Block, SleepUntilLimit, Wake
<1>2. Codes'
  <2>1. CASE Wake(t)
    <3>1. /\ sem > 0 /\ sem' = sem - 1 /\ since' = [since EXCEPT ![t] = token]
          /\ pc' = [pc EXCEPT ![t] = "read"]
      BY <2>1 DEF Wake
    <3> QED BY <1>1, <3>1 DEF Codes, receiver
  <2>2. CASE Block(t)
    <3>1. UNCHANGED <<sem, since>> /\ pc' = [pc EXCEPT ![t] = "asleep"]
      BY <2>2 DEF Block, SleepUntilLimit
    <3> QED BY <1>1, <3>1 DEF Codes, receiver
  <2> QED BY <2>1, <2>2
<1>3. CodeNoOlderThanWake' /\ ListenerCallNeverOwn'
  BY <1>1 DEF CodeNoOlderThanWake, ListenerCallNeverOwn, Successes, receiver
<1>4. ListenerWaits'
  <2>1. pc'[RECEIVER] # "app" => pc[RECEIVER] # "app"
    BY <1>1 DEF Block, SleepUntilLimit, Wake
  <2> QED BY <1>1, <2>1 DEF ListenerWaits, receiver
<1> QED BY <1>2, <1>3, <1>4

LEMMA ReturnCInv ==
  ASSUME CInv, NEW t \in Thread, ReturnCode(t) \/ TimeOut(t)
  PROVE  Codes' /\ CodeNoOlderThanWake' /\ ListenerWaits' /\ ListenerCallNeverOwn'
<1> USE DEF CInv, TInv, TypeOK
<1>1. /\ UNCHANGED <<sem, receiver>> /\ pc' = [pc EXCEPT ![t] = "app"]
      /\ own' = [own EXCEPT ![t] = NoCode] /\ since' = [since EXCEPT ![t] = 0]
  BY DEF ReturnCode, TimeOut, Return
<1>2. Codes' /\ ListenerWaits'
  BY <1>1 DEF Codes, ListenerWaits, receiver
<1>3. CASE TimeOut(t)
  <2>1. Successes' = Successes
    BY <1>3 DEF TimeOut, Return, Successes
  <2> QED BY <1>1, <1>2, <2>1 DEF CodeNoOlderThanWake, ListenerCallNeverOwn, receiver
<1>4. CASE ReturnCode(t)
  <2> DEFINE new == [by |-> t, call |-> own[t], result |-> "code",
                     code |-> sync_resCode, since |-> since[t]]
  <2>1. Successes' = Successes \cup {new}
    BY <1>4 DEF ReturnCode, Return, Successes
  <2>2. /\ new.by = t /\ new.call = own[t] /\ new.code = sync_resCode
        /\ new.since = since[t]
    OBVIOUS
  <2>3. new.since > 0 /\ \E i \in new.since .. Len(handled) : handled[i] = new.code
    <3>1. since[t] \in 1 .. Len(handled)
      BY <1>4 DEF ReturnCode, Codes
    <3>2. sync_resCode = handled[Len(handled)]
      BY <3>1 DEF Codes
    <3> QED BY <2>2, <3>1, <3>2
  <2>4. new.by = RECEIVER => new.code # new.call
    BY <1>4, <2>2 DEF ReturnCode, ListenerWaits
  <2> HIDE DEF new
  <2>5. CodeNoOlderThanWake'
    BY <1>1, <2>1, <2>3 DEF CodeNoOlderThanWake, receiver
  <2>6. ListenerCallNeverOwn'
    BY <2>1, <2>4 DEF ListenerCallNeverOwn
  <2> QED BY <1>2, <2>5, <2>6
<1> QED BY <1>3, <1>4

LEMMA ReceiverCInv ==
  ASSUME CInv, (\E m \in Message : Answer(m)) \/ ReceiverSteps \/ UNCHANGED vars
  PROVE  Codes' /\ CodeNoOlderThanWake' /\ ListenerWaits' /\ ListenerCallNeverOwn'
<1> USE DEF CInv, TInv, TypeOK
<1>1. UNCHANGED <<pc, own, since, returned>>
  BY DEF Answer, ReceiverSteps, Store, Test, Post, ListenerReturns, vars
<1>2. CASE Store
  <2>1. /\ sync_resCode' = Head(receive_queue) /\ Head(receive_queue) \in 1 .. made
        /\ handled' = Append(handled, Head(receive_queue))
        /\ UNCHANGED <<sem, token>> /\ rpc = "loop"
    BY <1>2 DEF Store
  <2>2. /\ Len(handled') = Len(handled) + 1 /\ handled'[Len(handled) + 1] = sync_resCode'
        /\ \A i \in 1 .. Len(handled) : handled'[i] = handled[i]
    BY <2>1
  <2>3. Codes'
    <3>1. handled' # <<>> /\ sync_resCode' = handled'[Len(handled')]
      <4>1. handled' \in Seq(1 .. made)
        BY <2>1
      <4>2. handled' # <<>>
        BY <2>2, <4>1
      <4> QED BY <2>2, <4>2
    <3>2. (sem' > 0 => token' > 0) /\ \A t \in Thread : pc'[t] = "read" => since'[t] > 0
      BY <1>1, <2>1 DEF Codes
    <3> QED BY <3>1, <3>2 DEF Codes
  <2>4. ListenerWaits'
    BY <1>1, <2>1 DEF ListenerWaits, Round
  <2>5. CodeNoOlderThanWake'
    <3> SUFFICES ASSUME NEW r \in Successes
                 PROVE  r.since > 0 /\ \E i \in r.since .. Len(handled') : handled'[i] = r.code
      BY <1>1 DEF CodeNoOlderThanWake, Successes
    <3>1. r.since \in Nat /\ r.since > 0
      BY DEF CodeNoOlderThanWake, ReturnedOK, Successes
    <3>2. PICK i \in r.since .. Len(handled) : handled[i] = r.code
      BY DEF CodeNoOlderThanWake
    <3> QED BY <2>2, <3>1, <3>2
  <2>6. ListenerCallNeverOwn'
    BY <1>1 DEF ListenerCallNeverOwn, Successes
  <2> QED BY <2>3, <2>4, <2>5, <2>6
<1>3. CASE (\E m \in Message : Answer(m)) \/ Test \/ Post \/ ListenerReturns \/ UNCHANGED vars
  <2>1. UNCHANGED <<sync_resCode, handled>>
    BY <1>3 DEF Answer, Test, Post, ListenerReturns, vars, receiver
  <2>2. UNCHANGED <<sem, token>> \/ (rpc = "post" /\ token' = Len(handled))
    BY <1>3 DEF Answer, Test, Post, ListenerReturns, vars, receiver
  <2>3. Codes'
    BY <1>1, <2>1, <2>2 DEF Codes, Round
  <2>4. ListenerWaits' /\ CodeNoOlderThanWake' /\ ListenerCallNeverOwn'
    BY <1>1, <2>1
    DEF ListenerWaits, CodeNoOlderThanWake, ListenerCallNeverOwn, Successes
  <2> QED BY <2>3, <2>4
<1> QED BY <1>2, <1>3 DEF ReceiverSteps

LEMMA SpecCInv == Spec => []CInv
<1>1. Init => CInv
  BY InitTInv
  DEF CInv, Init, Codes, CodeNoOlderThanWake, ListenerWaits, ListenerCallNeverOwn, Successes
<1>2. CInv /\ [Next]_vars => CInv'
  BY StepTInv, LimitCInv, SendCInv, WaitCInv, ReturnCInv, ReceiverCInv
  DEF CInv, Next, LimitSteps, ReceiverSteps
<1> QED BY <1>1, <1>2, PTL DEF Spec

\* The code a call returns is no older than the response whose post woke it,
\* although the caller reads it some time after (IotClient.c:474-480).
THEOREM SyncCodeNoOlderThanWake == Spec => []CodeNoOlderThanWake
<1>1. CInv => CodeNoOlderThanWake
  BY DEF CInv
<1> QED BY <1>1, SpecCInv, PTL

\* A synchronous call made by the listener never returns its own code: the thread
\* that would store it (IotClient.c:1538) is the one that waits.
THEOREM SyncListenerNeverOwn == Spec => []ListenerCallNeverOwn
<1>1. CInv => ListenerCallNeverOwn
  BY DEF CInv
<1> QED BY <1>1, SpecCInv, PTL
-----------------------------------------------------------------------------
(* How often calls succeed: a response that was stored pays for at most one  *)
(* success, first while thread_receiver has it in hand, then in the          *)
(* semaphore, then with the thread that took it.                             *)

Readers == {t \in Thread : pc[t] = "read"}
InHand == IF rpc \in {"test", "post"} THEN 1 ELSE 0

Paid ==
  /\ IsFiniteSet(returned)
  /\ Cardinality(Successes) + Cardinality(Readers) + sem + InHand <= Len(handled)

NInv == CInv /\ Paid

LEMMA ThreadsFinite ==
  /\ IsFiniteSet(Thread)
  /\ \A S \in SUBSET Thread : IsFiniteSet(S) /\ Cardinality(S) \in Nat
                              /\ Cardinality(S) <= Cardinality(Thread)
BY SyncAssumption, FS_AddElement, FS_Subset, FS_CardinalityType DEF Thread

LEMMA PaidNumbers ==
  ASSUME IsFiniteSet(returned)
  PROVE  /\ IsFiniteSet(Successes) /\ Cardinality(Successes) \in Nat
         /\ IsFiniteSet(Readers) /\ Cardinality(Readers) \in Nat
<1>1. Successes \in SUBSET returned /\ Readers \in SUBSET Thread
  BY DEF Successes, Readers
<1> QED BY <1>1, ThreadsFinite, FS_Subset, FS_CardinalityType

LEMMA PaidStep == ASSUME NInv, [Next]_vars PROVE Paid'
<1> USE DEF NInv, CInv, TInv, TypeOK
<1>1. /\ IsFiniteSet(Successes) /\ Cardinality(Successes) \in Nat
      /\ IsFiniteSet(Readers) /\ Cardinality(Readers) \in Nat
      /\ Len(handled) \in Nat /\ InHand \in 0 .. 1 /\ sem \in 0 .. 1
      /\ Cardinality(Successes) + Cardinality(Readers) + sem + InHand <= Len(handled)
  BY PaidNumbers DEF Paid, InHand
<1>2. ASSUME NEW t \in Thread,
             sendAttributes(t) \/ sendAttributesSync(t) \/ Block(t)
      PROVE  Paid'
  <2>1. UNCHANGED <<sem, receiver, returned>>
    BY <1>2 DEF sendAttributes, sendAttributesSync, Block, SleepUntilLimit
  <2>2. pc' = pc \/ \E there \in {"add", "asleep"} :
                      pc[t] # "read" /\ pc' = [pc EXCEPT ![t] = there]
    BY <1>2 DEF sendAttributes, sendAttributesSync, Block, SleepUntilLimit, InApplication
  <2>3. Readers' = Readers
    BY <2>2 DEF Readers
  <2> QED BY <2>1, <2>3 DEF Paid, InHand, Successes, receiver
<1>3. ASSUME NEW t \in Thread, Wake(t) PROVE Paid'
  <2>1. /\ sem > 0 /\ sem' = sem - 1 /\ pc' = [pc EXCEPT ![t] = "read"]
        /\ pc[t] # "read" /\ UNCHANGED <<receiver, returned>>
    BY <1>3 DEF Wake
  <2>2. t \notin Readers /\ Readers' = Readers \cup {t}
    BY <2>1 DEF Readers
  <2>3. Cardinality(Readers') = Cardinality(Readers) + 1
    BY <1>1, <2>2, FS_AddElement
  <2>4. Successes' = Successes /\ InHand' = InHand
    BY <2>1 DEF Successes, InHand, receiver
  <2> QED BY <1>1, <2>1, <2>3, <2>4 DEF Paid, receiver
<1>4. ASSUME NEW t \in Thread, ReturnCode(t) \/ TimeOut(t) PROVE Paid'
  <2>1. /\ UNCHANGED <<sem, receiver>> /\ pc' = [pc EXCEPT ![t] = "app"]
        /\ \E r : returned' = returned \cup {r}
    BY <1>4 DEF ReturnCode, TimeOut, Return
  <2>2. Readers' = Readers \ {t}
    BY <2>1 DEF Readers
  <2>3. IsFiniteSet(returned')
    <3>1. PICK r : returned' = returned \cup {r}
      BY <2>1
    <3> QED BY <3>1, FS_AddElement DEF Paid
  <2>6. InHand' = InHand /\ Len(handled') = Len(handled)
    BY <2>1 DEF InHand, receiver
  <2>4. CASE TimeOut(t)
    <3>1. Successes' = Successes
      BY <2>4 DEF TimeOut, Return, Successes
    <3>2. Readers' = Readers
      BY <2>2, <2>4 DEF TimeOut, Readers
    <3> QED BY <2>1, <2>3, <2>6, <3>1, <3>2 DEF Paid
  <2>5. CASE ReturnCode(t)
    <3> DEFINE r == [by |-> t, call |-> own[t], result |-> "code",
                     code |-> sync_resCode, since |-> since[t]]
    <3>1. Successes' = Successes \cup {r}
      BY <2>5 DEF ReturnCode, Return, Successes
    <3> HIDE DEF r
    <3>2. Cardinality(Successes') \in Nat
          /\ Cardinality(Successes') <= Cardinality(Successes) + 1
      <4>1. Cardinality(Successes \cup {r}) =
              IF r \in Successes THEN Cardinality(Successes) ELSE Cardinality(Successes) + 1
        BY <1>1, FS_AddElement
      <4> QED BY <1>1, <3>1, <4>1
    <3>3. t \in Readers
      BY <2>5 DEF ReturnCode, Readers
    <3>4. Cardinality(Readers') = Cardinality(Readers) - 1
      BY <1>1, <2>2, <3>3, FS_RemoveElement
    <3>5. sem' = sem
      BY <2>1
    <3> HIDE DEF NInv
    <3> QED BY <1>1, <2>3, <2>6, <3>2, <3>4, <3>5 DEF Paid
  <2> QED BY <1>4, <2>4, <2>5
<1>5. CASE (\E m \in Message : Answer(m)) \/ ReceiverSteps \/ UNCHANGED vars
  <2>1. Successes' = Successes /\ Readers' = Readers /\ returned' = returned
    BY <1>5 DEF Answer, ReceiverSteps, Store, Test, Post, ListenerReturns, vars,
                Successes, Readers
  <2>2. sem' + InHand' - (sem + InHand) <= Len(handled') - Len(handled)
    <3>1. CASE Store
      <4>1. handled' = Append(handled, Head(receive_queue)) /\ rpc = "loop" /\ sem' = sem
        BY <3>1 DEF Store
      <4>2. Len(handled') = Len(handled) + 1
        BY <4>1
      <4> QED BY <3>1, <4>1, <4>2 DEF Store, InHand
    <3>2. CASE Test
      BY <3>2 DEF Test, InHand
    <3>3. CASE Post
      BY <3>3 DEF Post, InHand
    <3>4. CASE ListenerReturns
      BY <3>4 DEF ListenerReturns, InHand
    <3>5. CASE (\E m \in Message : Answer(m)) \/ UNCHANGED vars
      BY <3>5 DEF Answer, vars, receiver, InHand
    <3> QED BY <1>5, <3>1, <3>2, <3>3, <3>4, <3>5 DEF ReceiverSteps
  <2>3. /\ sem \in 0 .. 1 /\ sem' \in 0 .. 1
        /\ Len(handled') \in Nat /\ InHand' \in 0 .. 1
    BY <1>5, ReceiverTInv DEF InHand
  <2>4. IsFiniteSet(returned')
    BY <2>1 DEF Paid
  <2>5. /\ Cardinality(Successes') = Cardinality(Successes)
        /\ Cardinality(Readers') = Cardinality(Readers)
    BY <2>1
  <2> HIDE DEF NInv
  <2> QED BY <1>1, <2>2, <2>3, <2>4, <2>5 DEF Paid
<1>6. CASE LimitSteps
  <2>1. UNCHANGED <<sem, receiver, returned>>
    BY <1>6, LimitStepsKeep
  <2>2. \A u \in Thread : pc'[u] = "read" <=> pc[u] = "read"
    BY <1>6, LimitStepsKeep
  <2>3. Readers' = Readers
    BY <2>2 DEF Readers
  <2> QED BY <2>1, <2>3 DEF Paid, InHand, Successes, receiver
<1> QED BY <1>2, <1>3, <1>4, <1>5, <1>6 DEF Next, LimitSteps, ReceiverSteps

LEMMA SpecNInv == Spec => []NInv
<1>1. Init => Paid
  <2> SUFFICES ASSUME Init PROVE Paid
    OBVIOUS
  <2>1. returned = {} /\ Successes = {} /\ Readers = {} /\ sem = 0 /\ InHand = 0
        /\ Len(handled) = 0
    BY DEF Init, Successes, Readers, InHand
  <2> QED BY <2>1, FS_EmptySet DEF Paid
<1>2. NInv /\ [Next]_vars => Paid'
  BY PaidStep
<1> QED BY <1>1, <1>2, SpecCInv, PTL DEF Spec, NInv

\* Calls never succeed more often than responses were handled, however many
\* threads wait and whenever they take the semaphore between the receiver's
\* sem_getvalue and its sem_post (IotClient.c:1538-1543).
THEOREM SyncNoMoreSuccesses == Spec => []NoMoreSuccessesThanResponses
<1>1. NInv => NoMoreSuccessesThanResponses
  <2> SUFFICES ASSUME NInv PROVE NoMoreSuccessesThanResponses
    OBVIOUS
  <2>1. /\ Cardinality(Successes) \in Nat /\ Cardinality(Readers) \in Nat
        /\ InHand \in 0 .. 1 /\ sem \in 0 .. 1 /\ Len(handled) \in Nat
    BY PaidNumbers DEF NInv, CInv, TInv, TypeOK, Paid, InHand
  <2> QED BY <2>1 DEF NInv, Paid, Readers, NoMoreSuccessesThanResponses
<1> QED BY <1>1, SpecNInv, PTL
-----------------------------------------------------------------------------
(* How long a wait lasts.  ts counts the timeouts added since the clock was  *)
(* read into it last.  Every message, and the authorization, is paid for one *)
(* addition; those that are still to come are not yet in ts, nor in what was *)
(* loaded from it.                                                           *)

Adders == {t \in Waiter : pc[t] \in {"add", "store"}}
Additions == made + (IF pc[CONNECTOR] = "connect" THEN 0 ELSE 1)

\* A thread whose ts nobody else wrote finds it as it left it.
OwnLimit ==
  \A t \in Waiter : ~crossed[t] => /\ pc[t] = "add" => ts = 0
                                   /\ pc[t] = "store" => loaded[t] = 0
                                   /\ pc[t] = "wait" => ts = 1

Added == /\ ts + Cardinality(Adders) <= Additions
         /\ \A t \in Waiter : loaded[t] + Cardinality(Adders) <= Additions

\* thread_receiver and the application's threads are not in the connect.
NoConnect == \A t \in Thread : pc[t] # "connect"

BInv == TInv /\ NoConnect /\ OwnLimit /\ Added /\ LimitOfOneCall

LEMMA WriteLimitMarks ==
  ASSUME TypeOK, NEW t \in Waiter, NEW value \in Nat, WriteLimit(t, value)
  PROVE  /\ ts' = value
         /\ \A u \in Waiter :
              ~crossed'[u] => /\ ~crossed[u]
                              /\ u # t => pc[u] \notin {"add", "store", "wait"}
<1>1. \A u \in Waiter :
        crossed'[u] = (crossed[u] \/ (u # t /\ pc[u] \in {"add", "store", "wait"}))
  BY Zenon DEF WriteLimit
<1>2. \A u \in Waiter : ~crossed'[u] => /\ ~crossed[u]
                                        /\ u # t => pc[u] \notin {"add", "store", "wait"}
  BY <1>1, Zenon
<1> QED BY <1>2 DEF WriteLimit

LEMMA AddersNumbers == IsFiniteSet(Adders) /\ Cardinality(Adders) \in Nat
<1>1. Adders \in SUBSET Waiter
  BY DEF Adders
<1>2. IsFiniteSet(Waiter)
  BY ThreadsFinite, FS_AddElement DEF Waiter
<1> QED BY <1>1, <1>2, FS_Subset, FS_CardinalityType

\* A clock is read into ts: by a call that has made its message, or by the connect.
LEMMA ClockLimit ==
  ASSUME BInv, AwaitAuthorization \/ \E t \in Thread : sendAttributesSync(t)
  PROVE  NoConnect' /\ OwnLimit' /\ Added' /\ LimitOfOneCall'
<1> USE DEF BInv, TInv, TypeOK, LimitsTyped
<1>1. PICK t \in Waiter : /\ pc' = [pc EXCEPT ![t] = "add"] /\ WriteLimit(t, 0)
                          /\ UNCHANGED <<loaded, limit>> /\ t \notin Adders
                          /\ \/ t = CONNECTOR /\ pc[t] = "connect" /\ made' = made
                             \/ t \in Thread /\ made' = made + 1
  BY DEF AwaitAuthorization, sendAttributesSync, InApplication, Make, Adders, server
<1>2. ts' = 0 /\ \A u \in Waiter :
                   ~crossed'[u] => /\ ~crossed[u]
                                   /\ u # t => pc[u] \notin {"add", "store", "wait"}
  BY <1>1, WriteLimitMarks
<1>3. NoConnect' /\ OwnLimit'
  BY <1>1, <1>2 DEF NoConnect, OwnLimit
<1>4. Added'
  <2>1. Adders' = Adders \cup {t}
    BY <1>1 DEF Adders
  <2>2. Cardinality(Adders') = Cardinality(Adders) + 1
    BY <1>1, <2>1, AddersNumbers, FS_AddElement
  <2>3. Additions' = Additions + 1 /\ Additions \in Nat
    BY <1>1 DEF Additions
  <2>4. /\ Additions \in Nat /\ Cardinality(Adders) \in Nat /\ loaded' = loaded
        /\ ts \in Nat /\ ts + Cardinality(Adders) <= Additions
        /\ \A u \in Waiter : loaded[u] \in Nat /\ loaded[u] + Cardinality(Adders) <= Additions
    BY <1>1, <2>3, AddersNumbers DEF Added
  <2> HIDE DEF BInv
  <2> QED BY <1>2, <2>2, <2>3, <2>4 DEF Added
<1>5. LimitOfOneCall'
  BY <1>1, <1>2 DEF LimitOfOneCall
<1> QED BY <1>3, <1>4, <1>5

LEMMA LoadLimitLimit ==
  ASSUME BInv, NEW t \in Waiter, LoadLimit(t)
  PROVE  NoConnect' /\ OwnLimit' /\ Added' /\ LimitOfOneCall'
<1> USE DEF BInv, TInv, TypeOK, LimitsTyped
<1>1. /\ pc[t] = "add" /\ pc' = [pc EXCEPT ![t] = "store"]
      /\ loaded' = [loaded EXCEPT ![t] = ts]
      /\ UNCHANGED <<ts, limit, crossed, made>>
  BY DEF LoadLimit, server
<1>2. Adders' = Adders /\ Additions' = Additions
  BY <1>1 DEF Adders, Additions
<1>3. NoConnect' /\ OwnLimit' /\ LimitOfOneCall'
  BY <1>1 DEF NoConnect, OwnLimit, LimitOfOneCall
<1>4. Added'
  BY <1>1, <1>2 DEF Added
<1> QED BY <1>3, <1>4

LEMMA StoreLimitLimit ==
  ASSUME BInv, NEW t \in Waiter, StoreLimit(t)
  PROVE  NoConnect' /\ OwnLimit' /\ Added' /\ LimitOfOneCall'
<1> USE DEF BInv, TInv, TypeOK, LimitsTyped
<1>1. /\ pc[t] = "store" /\ pc' = [pc EXCEPT ![t] = "wait"]
      /\ WriteLimit(t, loaded[t] + 1) /\ loaded' = [loaded EXCEPT ![t] = 0]
      /\ UNCHANGED <<limit, made>>
  BY DEF StoreLimit, server
<1>2. ts' = loaded[t] + 1
      /\ \A u \in Waiter : ~crossed'[u] => /\ ~crossed[u]
                                           /\ u # t => pc[u] \notin {"add", "store", "wait"}
  BY <1>1, WriteLimitMarks
<1>3. NoConnect' /\ OwnLimit'
  BY <1>1, <1>2 DEF NoConnect, OwnLimit
<1>4. Added'
  <2>1. Adders' = Adders \ {t} /\ t \in Adders
    BY <1>1 DEF Adders
  <2>2. Cardinality(Adders') = Cardinality(Adders) - 1
    BY <2>1, AddersNumbers, FS_RemoveElement
  <2>3. Additions' = Additions /\ Additions \in Nat
    BY <1>1 DEF Additions
  <2>4. \A u \in Waiter : loaded'[u] <= loaded[u] /\ loaded'[u] \in Nat
    BY <1>1
  <2>5. /\ Additions \in Nat /\ Cardinality(Adders) \in Nat
        /\ \A u \in Waiter : loaded[u] \in Nat /\ loaded[u] + Cardinality(Adders) <= Additions
    BY <2>3, AddersNumbers DEF Added
  <2> HIDE DEF BInv
  <2> QED BY <1>2, <2>2, <2>3, <2>4, <2>5 DEF Added
<1>5. LimitOfOneCall'
  BY <1>1, <1>2 DEF LimitOfOneCall
<1> QED BY <1>3, <1>4, <1>5

LEMMA SleepLimit ==
  ASSUME BInv, NEW t \in Waiter, SleepUntilLimit(t)
  PROVE  NoConnect' /\ OwnLimit' /\ Added' /\ LimitOfOneCall'
<1> USE DEF BInv, TInv, TypeOK, LimitsTyped
<1>1. /\ pc[t] = "wait" /\ pc' = [pc EXCEPT ![t] = "asleep"]
      /\ limit' = [limit EXCEPT ![t] = ts] /\ UNCHANGED <<ts, loaded, crossed, made>>
  BY DEF SleepUntilLimit, server
<1>2. Adders' = Adders /\ Additions' = Additions
  BY <1>1 DEF Adders, Additions
<1>3. ts <= made + 1
  BY AddersNumbers DEF Added, Additions
<1>4. NoConnect' /\ OwnLimit' /\ Added'
  BY <1>1, <1>2 DEF NoConnect, OwnLimit, Added
<1>5. LimitOfOneCall'
  BY <1>1, <1>3 DEF OwnLimit, LimitOfOneCall
<1> QED BY <1>4, <1>5

\* Wake, ReturnCode, TimeOut and Authorized: t no longer waits.
LEMMA EndLimit ==
  ASSUME BInv, \/ \E t \in Thread : Wake(t) \/ ReturnCode(t) \/ TimeOut(t)
               \/ Authorized
  PROVE  NoConnect' /\ OwnLimit' /\ Added' /\ LimitOfOneCall'
<1> USE DEF BInv, TInv, TypeOK, LimitsTyped
<1>1. PICK t \in Waiter :
        /\ pc' = [pc EXCEPT ![t] = "read"] \/ pc' = [pc EXCEPT ![t] = "app"]
        /\ pc[t] \notin {"add", "store", "connect"} /\ UNCHANGED <<ts, loaded, made>>
        /\ limit' = [limit EXCEPT ![t] = 0] /\ crossed' = [crossed EXCEPT ![t] = FALSE]
  BY DEF Wake, ReturnCode, TimeOut, Authorized, Return, WaitEnds, server
<1>2. Adders' = Adders /\ Additions' = Additions
  BY <1>1 DEF Adders, Additions
<1>3. \A u \in Waiter : \/ pc'[u] \in {"read", "app"}
                        \/ u # t /\ pc'[u] = pc[u] /\ limit'[u] = limit[u]
                           /\ crossed'[u] = crossed[u]
  BY <1>1
<1> QED BY <1>1, <1>2, <1>3 DEF NoConnect, OwnLimit, Added, LimitOfOneCall

\* A wait for a response or for the authorization lasts exactly one sem_timeout
\* unless another thread wrote ts meanwhile, and never longer than one for each
\* message made and one for the authorization (IotClient.c:350-353, 471-474,
\* 553-556), for any number of threads.
THEOREM SyncLimitOfOneCall == Spec => []LimitOfOneCall
<1>1. Init => BInv
  <2> SUFFICES ASSUME Init PROVE NoConnect /\ OwnLimit /\ Added /\ LimitOfOneCall
    BY InitTInv DEF BInv
  <2>1. Adders = {}
    BY DEF Init, Adders
  <2>2. Cardinality(Adders) = 0
    BY <2>1, FS_EmptySet
  <2>3. Added
    BY <2>2 DEF Init, Added, Additions
  <2> QED BY <2>3 DEF Init, NoConnect, OwnLimit, LimitOfOneCall
<1>2. ASSUME BInv, [Next]_vars
      PROVE  NoConnect' /\ OwnLimit' /\ Added' /\ LimitOfOneCall'
  <2>1. CASE \/ \E t \in Thread : sendAttributes(t)
             \/ \E m \in Message : Answer(m)
             \/ ReceiverSteps \/ UNCHANGED vars
    <3>1. UNCHANGED <<pc, time>> /\ (made' = made \/ made' = made + 1)
      BY <2>1 DEF sendAttributes, Make, Answer, ReceiverSteps, Store, Test, Post,
                  ListenerReturns, vars, server
    <3>2. Additions \in Nat /\ (Additions' = Additions \/ Additions' = Additions + 1)
      <4>1. made \in Nat
        BY <1>2 DEF BInv, TInv, TypeOK
      <4>2. Additions \in {made, made + 1}
        BY <4>1 DEF Additions
      <4>3. pc' = pc
        BY <3>1
      <4>4. Additions' = Additions + (made' - made)
        BY <3>1, <4>1, <4>3 DEF Additions
      <4> QED BY <3>1, <4>1, <4>2, <4>4
    <3>3. Added'
      <4>1. Adders' = Adders /\ ts' = ts /\ loaded' = loaded
        BY <3>1 DEF Adders, time
      <4>2. ts \in Nat /\ (\A u \in Waiter : loaded[u] \in Nat) /\ Added
        BY <1>2 DEF BInv, TInv, TypeOK, LimitsTyped
      <4> QED BY <3>2, <4>1, <4>2, AddersNumbers DEF Added
    <3>4. LimitOfOneCall'
      BY <1>2, <3>1 DEF BInv, TInv, TypeOK, LimitsTyped, LimitOfOneCall, time
    <3> QED BY <1>2, <3>1, <3>3, <3>4 DEF BInv, NoConnect, OwnLimit, time
  <2> QED BY <1>2, <2>1, ClockLimit, LoadLimitLimit, StoreLimitLimit, SleepLimit, EndLimit
          DEF Next, ReceiverSteps, Block, AuthorizationSleeps
<1>3. BInv /\ [Next]_vars => BInv'
  BY <1>2, StepTInv DEF BInv
<1>4. BInv => LimitOfOneCall
  BY DEF BInv
<1> QED BY <1>1, <1>3, <1>4, PTL DEF Spec
-----------------------------------------------------------------------------
(* One thread alone.  Every call makes a message of its own, so Alone(c) says *)
(* that no message was made but those of c's calls; each step that leads to   *)
(* such a state started in one.  The responses then come one at a time, each  *)
(* within the call that waits for it.                                         *)

InCall == {t \in Thread : pc[t] # "app"}

MessagePerCall == Cardinality(returned) + Cardinality(InCall) <= made

Held == IF rpc = "loop" THEN 0 ELSE 1

\* The response to the message made last was stored; no other is on its way.
Answered == /\ Len(handled) = made /\ underway = {}
            /\ Len(receive_queue) = Held

\* It is still on its way, and all before it were stored.
Awaited ==
  /\ Len(handled) = made - 1
  /\ \/ underway = {made} /\ Len(receive_queue) = Held
     \/ underway = {} /\ Len(receive_queue) = Held + 1 /\ receive_queue[Held + 1] = made

OneAtATime(c) ==
  /\ \A r \in returned : r.code = r.call
  /\ pc[c] = "app" => Answered
  /\ pc[c] # "app" => own[c] = made /\ (Awaited \/ (Answered /\ sync_resCode = made))

AInv == NInv /\ MessagePerCall /\ \A c \in Caller : Alone(c) => OneAtATime(c)

LEMMA CallNumbers ==
  ASSUME IsFiniteSet(returned)
  PROVE  /\ Cardinality(returned) \in Nat
         /\ IsFiniteSet(InCall) /\ Cardinality(InCall) \in Nat
         /\ \A t \in InCall : Cardinality(InCall) > 0
<1>1. InCall \in SUBSET Thread
  BY DEF InCall
<1>2. \A t \in InCall : Cardinality(InCall) > 0
  BY <1>1, ThreadsFinite, FS_EmptySet
<1> QED BY <1>1, <1>2, ThreadsFinite, FS_CardinalityType

LEMMA MessagePerCallStep ==
  ASSUME NInv, MessagePerCall, [Next]_vars
  PROVE  MessagePerCall'
<1> USE DEF NInv, CInv, TInv, TypeOK
<1>1. /\ Cardinality(returned) \in Nat /\ IsFiniteSet(returned)
      /\ IsFiniteSet(InCall) /\ Cardinality(InCall) \in Nat
      /\ Cardinality(returned) + Cardinality(InCall) <= made
  BY CallNumbers DEF Paid, MessagePerCall
<1>2. ASSUME NEW t \in Thread, sendAttributesSync(t) PROVE MessagePerCall'
  <2>1. /\ pc[t] = "app" /\ pc' = [pc EXCEPT ![t] = "add"]
        /\ made' = made + 1 /\ returned' = returned
    BY <1>2 DEF sendAttributesSync, InApplication, Make
  <2>2. InCall' = InCall \cup {t} /\ t \notin InCall
    BY <2>1 DEF InCall
  <2>3. Cardinality(InCall') = Cardinality(InCall) + 1
    BY <1>1, <2>2, FS_AddElement
  <2> QED BY <1>1, <2>1, <2>3 DEF MessagePerCall
<1>3. ASSUME NEW t \in Thread, ReturnCode(t) \/ TimeOut(t) PROVE MessagePerCall'
  <2>1. /\ pc[t] # "app" /\ pc' = [pc EXCEPT ![t] = "app"] /\ made' = made
        /\ \E r : returned' = returned \cup {r}
    BY <1>3 DEF ReturnCode, TimeOut, Return, server
  <2>2. InCall' = InCall \ {t} /\ t \in InCall
    BY <2>1 DEF InCall
  <2>3. Cardinality(InCall') = Cardinality(InCall) - 1
    BY <1>1, <2>2, FS_RemoveElement
  <2>4. PICK r : returned' = returned \cup {r}
    BY <2>1
  <2>5. Cardinality(returned') \in Nat
        /\ Cardinality(returned') <= Cardinality(returned) + 1
    <3>1. Cardinality(returned \cup {r}) =
            IF r \in returned THEN Cardinality(returned) ELSE Cardinality(returned) + 1
      BY <1>1, FS_AddElement
    <3> QED BY <1>1, <2>4, <3>1
  <2> QED BY <1>1, <2>1, <2>3, <2>5 DEF MessagePerCall
<1>4. CASE \/ \E t \in Thread : Block(t) \/ Wake(t)
           \/ \E t \in Thread : sendAttributes(t)
           \/ \E m \in Message : Answer(m)
           \/ ReceiverSteps \/ UNCHANGED vars
  <2>1. returned' = returned /\ (made' = made \/ made' = made + 1)
    BY <1>4 DEF Block, SleepUntilLimit, Wake, sendAttributes, Make, Answer, ReceiverSteps,
                Store, Test, Post, ListenerReturns, vars, server
  <2>2. \/ pc' = pc
        \/ \E t \in Thread, there \in {"asleep", "read"} :
              pc[t] # "app" /\ pc' = [pc EXCEPT ![t] = there]
    BY <1>4 DEF Block, SleepUntilLimit, Wake, sendAttributes, Answer, ReceiverSteps,
                Store, Test, Post, ListenerReturns, vars
  <2>3. InCall' = InCall
    BY <2>2 DEF InCall
  <2> QED BY <1>1, <2>1, <2>3 DEF MessagePerCall
<1>5. CASE LimitSteps
  <2>1. UNCHANGED <<server, returned>>
    BY <1>5, LimitStepsKeep
  <2>2. \A u \in Thread : pc'[u] = "app" <=> pc[u] = "app"
    BY <1>5, LimitStepsKeep
  <2>3. InCall' = InCall
    BY <2>2 DEF InCall
  <2> QED BY <2>1, <2>3 DEF MessagePerCall, server
<1> QED BY <1>2, <1>3, <1>4, <1>5 DEF Next, LimitSteps, ReceiverSteps

\* What is known of c alone in numbers.
LEMMA AloneNumbers ==
  ASSUME AInv, NEW c \in Caller
  PROVE  /\ IsFiniteSet(returned)
         /\ Cardinality(returned) \in Nat /\ Cardinality(InCall) \in Nat
         /\ Cardinality(returned) + Cardinality(InCall) <= made
         /\ pc[c] # "app" => Cardinality(InCall) > 0
         /\ c \in Thread /\ c # RECEIVER
<1>1. pc[c] # "app" => c \in InCall
  BY DEF InCall
<1> QED BY <1>1, CallNumbers DEF AInv, NInv, Paid, MessagePerCall

LEMMA AloneSend ==
  ASSUME AInv, NEW t \in Thread, sendAttributes(t) \/ sendAttributesSync(t),
         NEW c \in Caller, Alone(c)'
  PROVE  OneAtATime(c)'
<1> USE DEF AInv, NInv, CInv, TInv, TypeOK
<1>1. /\ made' = made + 1 /\ underway' = underway \cup {made + 1}
      /\ UNCHANGED <<receiver, returned>>
  BY DEF sendAttributes, sendAttributesSync, Make
<1>2. t = c /\ sendAttributesSync(c)
  <2>1. SUFFICES ASSUME ~(t = c /\ sendAttributesSync(c)) PROVE FALSE
    OBVIOUS
  <2>2. pc'[c] = pc[c]
    BY <2>1 DEF sendAttributes, sendAttributesSync
  <2>3. made + 1 = Cardinality(returned) + (IF pc[c] = "app" THEN 0 ELSE 1)
    BY <1>1, <2>2 DEF Alone
  <2> QED BY <2>3, AloneNumbers
<1>3. /\ pc[c] = "app" /\ pc' = [pc EXCEPT ![c] = "add"]
      /\ own' = [own EXCEPT ![c] = made + 1]
  BY <1>2 DEF sendAttributesSync, InApplication
<1>4. Alone(c)
  <2>1. made + 1 = Cardinality(returned) + 1
    BY <1>1, <1>3 DEF Alone
  <2>2. made = Cardinality(returned)
    <3>1. Cardinality(returned) \in Nat /\ made \in Nat
      BY AloneNumbers
    <3> HIDE DEF AInv
    <3> QED BY <2>1, <3>1
  <2> QED BY <1>1, <1>3, <2>2 DEF Alone
<1>5. Answered /\ \A r \in returned : r.code = r.call
  BY <1>3, <1>4 DEF OneAtATime
<1>6. Awaited'
  BY <1>1, <1>5 DEF Answered, Awaited, Held, receiver
<1> QED BY <1>1, <1>3, <1>5, <1>6 DEF OneAtATime

LEMMA AloneWait ==
  ASSUME AInv, LimitSteps \/ \E t \in Thread : Block(t) \/ Wake(t),
         NEW c \in Caller, Alone(c)'
  PROVE  OneAtATime(c)'
<1> USE DEF AInv, NInv, CInv, TInv, TypeOK
<1>1. /\ UNCHANGED <<server, receiver, own, returned>>
      /\ pc'[c] = "app" <=> pc[c] = "app"
  <2>1. CASE LimitSteps
    BY <2>1, LimitStepsKeep
  <2>2. CASE \E t \in Thread : Block(t) \/ Wake(t)
    BY <2>2 DEF Block, SleepUntilLimit, Wake
  <2> QED BY <2>1, <2>2
<1>2. Alone(c)
  BY <1>1 DEF Alone, server
<1> QED BY <1>1, <1>2 DEF OneAtATime, Answered, Awaited, Held, server, receiver

LEMMA AloneReturn ==
  ASSUME AInv, NEW t \in Thread, ReturnCode(t) \/ TimeOut(t),
         NEW c \in Caller, Alone(c)'
  PROVE  OneAtATime(c)'
<1> USE DEF AInv, NInv, CInv, TInv, TypeOK
<1>1. UNCHANGED <<sem, server, receiver>> /\ pc' = [pc EXCEPT ![t] = "app"]
  BY DEF ReturnCode, TimeOut, Return
<1>2. ASSUME NEW r \in returned' PROVE r.by = c /\ r.result = "code"
  BY DEF Alone
<1>3. ~TimeOut(t)
  <2> SUFFICES ASSUME TimeOut(t) PROVE FALSE
    OBVIOUS
  <2> DEFINE late == [by |-> t, call |-> own[t], result |-> "timeout",
                      code |-> NoCode, since |-> since[t]]
  <2>1. late \in returned' /\ late.result = "timeout"
    BY DEF TimeOut, Return
  <2> QED BY <1>2, <2>1
<1> DEFINE new == [by |-> t, call |-> own[t], result |-> "code",
                   code |-> sync_resCode, since |-> since[t]]
<1>4. returned' = returned \cup {new} /\ new.by = t
  BY <1>3 DEF ReturnCode, Return
<1>5. t = c /\ ReturnCode(c)
  BY <1>2, <1>3, <1>4
<1>6. pc[c] = "read" /\ new.call = own[c] /\ new.code = sync_resCode
  BY <1>5 DEF ReturnCode
<1> HIDE DEF new
<1>7. Alone(c)
  <2>1. made = Cardinality(returned')
    <3>1. pc'[c] = "app" /\ made' = made
      BY <1>1, <1>5 DEF server
    <3>2. made' = Cardinality(returned') + (IF pc'[c] = "app" THEN 0 ELSE 1)
      BY DEF Alone
    <3>3. Cardinality(returned') \in Nat
      BY <1>4, AloneNumbers, FS_AddElement, FS_CardinalityType
    <3> QED BY <3>1, <3>2, <3>3
  <2>2. Cardinality(returned') <= Cardinality(returned) + 1
    <3>1. Cardinality(returned \cup {new}) =
            IF new \in returned THEN Cardinality(returned) ELSE Cardinality(returned) + 1
      BY AloneNumbers, FS_AddElement
    <3> QED BY <1>4, <3>1, AloneNumbers
  <2>3. made = Cardinality(returned) + 1
    <3>1. /\ Cardinality(returned) \in Nat /\ Cardinality(InCall) \in Nat /\ made \in Nat
          /\ Cardinality(InCall) > 0 /\ Cardinality(returned) + Cardinality(InCall) <= made
      BY <1>6, AloneNumbers
    <3> HIDE DEF AInv
    <3> QED BY <2>1, <2>2, <3>1
  <2> QED BY <1>4, <1>6, <2>3 DEF Alone
<1>8. Answered /\ sync_resCode = made /\ own[c] = made
  <2>1. Successes = returned /\ made = Cardinality(returned) + 1
    BY <1>6, <1>7 DEF Alone, Successes
  <2>2. Cardinality(Readers) > 0
    <3>1. c \in Readers
      BY <1>6 DEF Readers
    <3> QED BY <3>1, PaidNumbers, FS_EmptySet DEF Paid
  <2>3. Len(handled) >= made
    <3>1. /\ Cardinality(Successes) + Cardinality(Readers) + sem + InHand <= Len(handled)
          /\ Cardinality(Readers) \in Nat /\ InHand \in 0 .. 1
      BY PaidNumbers DEF Paid, InHand
    <3>2. Cardinality(returned) \in Nat /\ sem \in 0 .. 1 /\ Len(handled) \in Nat
      BY AloneNumbers
    <3> HIDE DEF AInv
    <3> QED BY <2>1, <2>2, <3>1, <3>2
  <2>4. ~Awaited
    BY <2>3 DEF Awaited
  <2> QED BY <1>6, <1>7, <2>4 DEF OneAtATime
<1>9. \A r \in returned' : r.code = r.call
  BY <1>4, <1>6, <1>7, <1>8 DEF OneAtATime
<1>10. Answered'
  BY <1>1, <1>8 DEF Answered, Held, server, receiver
<1> QED BY <1>1, <1>5, <1>9, <1>10 DEF OneAtATime

LEMMA AloneReceiver ==
  ASSUME AInv, (\E m \in Message : Answer(m)) \/ ReceiverSteps \/ UNCHANGED vars,
         NEW c \in Caller, Alone(c)'
  PROVE  OneAtATime(c)'
<1> USE DEF AInv, NInv, CInv, TInv, TypeOK
<1>1. UNCHANGED <<made, pc, own, returned>>
  BY DEF Answer, ReceiverSteps, Store, Test, Post, ListenerReturns, vars, server
<1>2. OneAtATime(c)
  BY <1>1 DEF Alone
<1>3. CASE \E m \in Message : Answer(m)
  <2>1. PICK m \in Message : Answer(m)
    BY <1>3
  <2>2. /\ m \in underway /\ underway' = underway \ {m}
        /\ receive_queue' = Append(receive_queue, m)
        /\ UNCHANGED <<rpc, sync_resCode, handled>>
    BY <2>1 DEF Answer
  <2>3. ~Answered /\ Awaited /\ pc[c] # "app" /\ own[c] = made
    BY <1>2, <2>2 DEF OneAtATime, Answered
  <2>4. m = made /\ underway' = {} /\ Len(receive_queue) = Held
    BY <2>2, <2>3 DEF Awaited
  <2>5. Len(receive_queue') = Held' + 1 /\ receive_queue'[Held' + 1] = made
    <3>1. Held' = Held /\ Held \in Nat
      BY <2>2 DEF Held
    <3>2. receive_queue \in Seq(1 .. made) /\ Len(receive_queue) = Held
      BY <2>4
    <3> QED BY <2>2, <2>4, <3>1, <3>2
  <2>6. Awaited'
    BY <1>1, <2>2, <2>3, <2>4, <2>5 DEF Awaited
  <2> QED BY <1>1, <1>2, <2>3, <2>6 DEF OneAtATime
<1>4. CASE Store
  <2>1. /\ rpc = "loop" /\ rpc' = "test" /\ receive_queue # <<>>
        /\ sync_resCode' = Head(receive_queue)
        /\ handled' = Append(handled, Head(receive_queue))
        /\ UNCHANGED <<receive_queue, underway>>
    BY <1>4 DEF Store, server
  <2>2. Len(receive_queue) > 0 /\ Held = 0 /\ Held' = 1
    BY <2>1 DEF Held
  <2>3. Awaited /\ pc[c] # "app" /\ own[c] = made
    BY <1>2, <2>2 DEF OneAtATime, Answered
  <2>4. Head(receive_queue) = made /\ Len(receive_queue) = 1 /\ underway = {}
    BY <2>2, <2>3 DEF Awaited
  <2>5. Len(handled') = made
    BY <2>1, <2>3, <2>4 DEF Awaited
  <2> QED BY <1>1, <1>2, <2>1, <2>2, <2>3, <2>4, <2>5 DEF OneAtATime, Answered
<1>5. CASE ListenerReturns
  <2>1. /\ rpc = "listener" /\ rpc' = "loop" /\ receive_queue' = Tail(receive_queue)
        /\ UNCHANGED <<underway, sync_resCode, handled>> /\ receive_queue # <<>>
    BY <1>5 DEF ListenerReturns, server, Round
  <2>2. Held = 1 /\ Held' = 0 /\ Len(receive_queue') = Len(receive_queue) - 1
        /\ \A i \in 1 .. Len(receive_queue') : receive_queue'[i] = receive_queue[i + 1]
    BY <2>1 DEF Held
  <2>3. Answered => Answered'
    BY <1>1, <2>1, <2>2 DEF Answered
  <2>4. Awaited => Awaited'
    BY <1>1, <2>1, <2>2 DEF Awaited
  <2> QED BY <1>1, <1>2, <2>1, <2>3, <2>4 DEF OneAtATime
<1>6. CASE Test \/ Post \/ UNCHANGED vars
  <2>1. UNCHANGED <<underway, sync_resCode, handled, receive_queue>> /\ Held' = Held
    BY <1>6 DEF Test, Post, vars, server, receiver, Held
  <2> QED BY <1>1, <1>2, <2>1 DEF OneAtATime, Answered, Awaited
<1> QED BY <1>3, <1>4, <1>5, <1>6 DEF ReceiverSteps

\* What synchronous calls can be relied on for: as long as one thread alone makes
\* messages, in calls that do not time out, each call returns the code of its own
\* response (IotClient.c:467-480, 1538-1543).
THEOREM SyncOwnResponse == Spec => []OwnResponseWhenAlone
<1>1. Init => MessagePerCall /\ \A c \in Caller : Alone(c) => OneAtATime(c)
  <2> SUFFICES ASSUME Init
               PROVE  MessagePerCall /\ \A c \in Caller : OneAtATime(c)
    OBVIOUS
  <2>1. returned = {} /\ InCall = {} /\ made = 0
    BY DEF Init, InCall
  <2>2. MessagePerCall
    BY <2>1, FS_EmptySet DEF MessagePerCall
  <2>3. \A c \in Caller : OneAtATime(c)
    BY DEF Init, OneAtATime, Answered, Held
  <2> QED BY <2>2, <2>3
<1>2. ASSUME AInv, [Next]_vars
      PROVE  MessagePerCall' /\ \A c \in Caller : (Alone(c) => OneAtATime(c))'
  <2>1. MessagePerCall'
    BY <1>2, MessagePerCallStep DEF AInv
  <2>2. ASSUME NEW c \in Caller, Alone(c)' PROVE OneAtATime(c)'
    BY <1>2, <2>2, AloneSend, AloneWait, AloneReturn, AloneReceiver
    DEF Next, LimitSteps, ReceiverSteps
  <2> QED BY <2>1, <2>2
<1>3. NInv /\ NInv' /\ AInv /\ [Next]_vars => AInv'
  BY <1>2 DEF AInv
<1>4. AInv => OwnResponseWhenAlone
  BY DEF AInv, OneAtATime, OwnResponseWhenAlone
<1>5. NInv /\ MessagePerCall /\ (\A c \in Caller : Alone(c) => OneAtATime(c)) => AInv
  BY DEF AInv
<1> QED BY <1>1, <1>3, <1>4, <1>5, SpecNInv, PTL DEF Spec
=============================================================================
