---------------------------- MODULE SenderProofs ----------------------------
(***************************************************************************)
(* Proofs about Sender for any finite set of messages and any queue size:  *)
(* types, no double free, a queue without freed messages, and the account  *)
(* of every message.                                                       *)
(***************************************************************************)
EXTENDS Sender, FiniteSetTheorems, TLAPS

USE SenderAssumption DEF MaxFail

Distinct(s) == \A i, j \in DOMAIN s : s[i] = s[j] => i = j

\* Why the shared test fail_count > 3 is safe: the counter is at most 3 when
\* a round starts, so it can only pass 3 in a round whose send failed, and
\* then "message" is still the head of the queue.
Control ==
  /\ pc \in {"loop", "send"} => fail_count <= MaxFail
  /\ pc = "send" => queue # <<>> /\ message = Head(queue)
  /\ pc = "check" /\ fail_count > MaxFail => queue # <<>> /\ message = Head(queue)

\* Nothing on the queue has been freed, so the next round may dereference it
\* (IotClient.c:1459-1466), and no message is on the queue twice.
QueueAlive ==
  /\ \A i \in DOMAIN queue : queue[i] \notin freed
  /\ \A i, j \in DOMAIN queue : queue[i] = queue[j] => i = j

IInv == TypeOK /\ Control /\ QueueAlive /\ Accounted /\ NoDoubleFree
-----------------------------------------------------------------------------
(* What Append and Tail do to the elements of a sequence.                  *)

LEMMA AppendElements ==
  ASSUME NEW S, NEW s \in Seq(S), NEW e \in S
  PROVE  /\ Append(s, e) \in Seq(S) /\ Len(Append(s, e)) = Len(s) + 1
         /\ Elements(Append(s, e)) = Elements(s) \cup {e}
         /\ Distinct(s) /\ e \notin Elements(s) => Distinct(Append(s, e))
<1> DEFINE t == Append(s, e)
<1>1. t \in Seq(S) /\ Len(t) = Len(s) + 1 /\ DOMAIN t = 1..Len(s) + 1
  OBVIOUS
<1>2. DOMAIN s = 1..Len(s) /\ Len(s) \in Nat
  OBVIOUS
<1>3. t[Len(s) + 1] = e /\ \A i \in 1..Len(s) : t[i] = s[i]
  OBVIOUS
<1>4. Elements(t) = Elements(s) \cup {e}
  BY <1>1, <1>2, <1>3 DEF Elements
<1>5. ASSUME Distinct(s), e \notin Elements(s) PROVE Distinct(t)
  BY <1>1, <1>2, <1>3, <1>5 DEF Elements, Distinct
<1> QED BY <1>1, <1>4, <1>5

LEMMA TailElements ==
  ASSUME NEW S, NEW s \in Seq(S), s # <<>>, Distinct(s)
  PROVE  /\ Tail(s) \in Seq(S) /\ Len(Tail(s)) = Len(s) - 1
         /\ Head(s) \in Elements(s) /\ Head(s) \in S
         /\ Elements(Tail(s)) = Elements(s) \ {Head(s)}
         /\ Distinct(Tail(s))
<1> DEFINE t == Tail(s)
<1>1. t \in Seq(S) /\ Len(t) = Len(s) - 1 /\ DOMAIN t = 1..Len(s) - 1
  OBVIOUS
<1>2. DOMAIN s = 1..Len(s) /\ Len(s) \in Nat /\ Len(s) > 0 /\ Head(s) = s[1]
  OBVIOUS
<1>3. \A i \in 1..Len(s) - 1 : t[i] = s[i + 1]
  OBVIOUS
<1>4. Distinct(t)
  BY <1>1, <1>2, <1>3 DEF Distinct
<1>5. Elements(t) = Elements(s) \ {Head(s)}
  <2>1. ASSUME NEW x \in Elements(t) PROVE x \in Elements(s) /\ x # Head(s)
    <3>1. PICK i \in 1..Len(s) - 1 : x = s[i + 1]
      BY <1>1, <1>3, <2>1 DEF Elements
    <3> QED BY <3>1, <1>2 DEF Elements, Distinct
  <2>2. ASSUME NEW x \in Elements(s), x # Head(s) PROVE x \in Elements(t)
    <3>1. PICK i \in 1..Len(s) : x = s[i]
      BY <1>2 DEF Elements
    <3>2. i - 1 \in 1..Len(s) - 1 /\ x = t[i - 1]
      BY <3>1, <2>2, <1>2, <1>3
    <3> QED BY <3>2, <1>1 DEF Elements
  <2> QED BY <2>1, <2>2
<1>6. Head(s) \in Elements(s) /\ Head(s) \in S
  BY <1>2 DEF Elements
<1> QED BY <1>1, <1>4, <1>5, <1>6
-----------------------------------------------------------------------------
LEMMA InitIInv == Init => IInv
<1> SUFFICES ASSUME Init PROVE IInv
  OBVIOUS
<1>1. Elements(<<>>) = {}
  BY DEF Elements
<1>2. TypeOK /\ Control /\ NoDoubleFree
  <2>1. link \in BOOLEAN /\ fault \in BOOLEAN /\ ~fault
    BY Zenon DEF Init
  <2>2. fail_count = 0 /\ tries \in [Message -> Nat] /\ queue \in Seq(Message)
        /\ sent \in Seq(Message) /\ Len(queue) <= MaxQueueSize
    BY DEF Init
  <2>3. pc = "loop" /\ message = NULL
        /\ made = {} /\ rejected = {} /\ dropped = {} /\ freed = {}
    BY DEF Init
  <2> QED BY <2>1, <2>2, <2>3 DEF TypeOK, Control, NoDoubleFree
<1>3. QueueAlive /\ Accounted
  BY <1>1 DEF Init, QueueAlive, Accounted
<1> QED BY <1>2, <1>3 DEF IInv

LEMMA AddQueueInv == ASSUME IInv, NEW m \in Message, AddQueue(m) PROVE IInv'
<1> USE DEF IInv, TypeOK
<1>1. CASE Len(queue) < MaxQueueSize /\ queue' = Append(queue, m)
  <2>1. m \notin Elements(queue) /\ m \notin freed /\ Distinct(queue)
    BY DEF AddQueue, Accounted, QueueAlive, Distinct
  <2>2. Elements(queue') = Elements(queue) \cup {m} /\ Distinct(queue')
        /\ Len(queue') = Len(queue) + 1 /\ queue' \in Seq(Message)
    BY <1>1, <2>1, AppendElements
  <2>3. queue # <<>> => queue' # <<>> /\ Head(queue') = Head(queue)
    BY <1>1
  <2>4. rejected' = rejected
    BY <1>1 DEF AddQueue
  <2>5. TypeOK'
    BY <1>1, <2>2 DEF AddQueue
  <2>6. Control'
    BY <2>3 DEF AddQueue, Control
  <2>7. QueueAlive'
    <3>1. \A i \in DOMAIN queue' : queue'[i] \in Elements(queue) \cup {m}
      BY <2>2 DEF Elements
    <3>2. \A x \in Elements(queue) : x \notin freed
      BY DEF QueueAlive, Elements
    <3> QED BY <2>1, <2>2, <3>1, <3>2 DEF AddQueue, QueueAlive, Distinct
  <2>8. Accounted'
    BY <2>1, <2>2, <2>4 DEF AddQueue, Accounted
  <2>9. NoDoubleFree'
    BY DEF AddQueue, NoDoubleFree
  <2> QED BY <2>5, <2>6, <2>7, <2>8, <2>9
<1>2. CASE rejected' = rejected \cup {m} /\ queue' = queue
  <2>1. TypeOK' /\ Control' /\ NoDoubleFree' /\ QueueAlive'
    BY <1>2 DEF AddQueue, Control, NoDoubleFree, QueueAlive
  <2>2. Accounted'
    BY <1>2 DEF AddQueue, Accounted
  <2> QED BY <2>1, <2>2
<1> QED BY <1>1, <1>2 DEF AddQueue

\* Freeing the head and unlinking it, as both outcomes of a round do.
LEMMA FreeHead ==
  ASSUME IInv, queue # <<>>, message = Head(queue),
         Free(message), queue' = Tail(queue)
  PROVE  /\ queue' \in Seq(Message) /\ Len(queue') <= MaxQueueSize
         /\ message \in Message /\ ~fault'
         /\ Elements(queue') = Elements(queue) \ {message}
         /\ freed' = freed \cup {message} /\ message \notin freed
         /\ message \in Elements(queue)
         /\ QueueAlive'
<1> USE DEF IInv, TypeOK
<1>1. Distinct(queue)
  BY DEF QueueAlive, Distinct
<1>2. /\ queue' \in Seq(Message) /\ Len(queue') = Len(queue) - 1
      /\ message \in Elements(queue) /\ message \in Message
      /\ Elements(queue') = Elements(queue) \ {message}
      /\ Distinct(queue')
  BY <1>1, TailElements
<1>3. message \notin freed /\ Elements(queue) \cap freed = {}
  BY <1>2 DEF Accounted
<1>4. ~fault' /\ freed' = freed \cup {message}
  BY <1>3 DEF Free, NoDoubleFree
<1>5. QueueAlive'
  <2>1. \A i \in DOMAIN queue' : queue'[i] \in Elements(queue')
    BY DEF Elements
  <2> QED BY <1>2, <1>3, <1>4, <2>1 DEF QueueAlive, Distinct
<1> QED BY <1>2, <1>3, <1>4, <1>5

LEMMA SendOkInv == ASSUME IInv, SendOk PROVE IInv'
<1> USE DEF IInv, TypeOK
<1>1. queue # <<>> /\ message = Head(queue) /\ fail_count <= MaxFail
  BY DEF SendOk, Control
<1>2. /\ queue' \in Seq(Message) /\ Len(queue') <= MaxQueueSize
      /\ message \in Message /\ ~fault'
      /\ Elements(queue') = Elements(queue) \ {message}
      /\ freed' = freed \cup {message} /\ message \notin freed
      /\ message \in Elements(queue)
      /\ QueueAlive'
  BY <1>1, FreeHead DEF SendOk
<1>3. sent' \in Seq(Message) /\ Elements(sent') = Elements(sent) \cup {message}
  BY <1>2, AppendElements DEF SendOk
<1>4. TypeOK'
  <2>1. (link \in BOOLEAN)' /\ (fault \in BOOLEAN)'
    BY Zenon DEF SendOk, env, Free, NoDoubleFree
  <2> QED BY <1>2, <1>3, <2>1 DEF SendOk, env
<1>5. Control'
  BY <1>1 DEF SendOk, Control
<1>6. Accounted'
  BY <1>2, <1>3 DEF SendOk, Accounted, env
<1> QED BY <1>2, <1>4, <1>5, <1>6 DEF NoDoubleFree

LEMMA GiveUpInv == ASSUME IInv, GiveUp PROVE IInv'
<1> USE DEF IInv, TypeOK
<1>1. queue # <<>> /\ message = Head(queue)
  BY DEF GiveUp, Control
<1>2. /\ queue' \in Seq(Message) /\ Len(queue') <= MaxQueueSize
      /\ message \in Message /\ ~fault'
      /\ Elements(queue') = Elements(queue) \ {message}
      /\ freed' = freed \cup {message} /\ message \notin freed
      /\ message \in Elements(queue)
      /\ QueueAlive'
  BY <1>1, FreeHead DEF GiveUp
<1>3. TypeOK'
  <2>1. (link \in BOOLEAN)' /\ (fault \in BOOLEAN)'
    BY Zenon DEF GiveUp, env, Free, NoDoubleFree
  <2> QED BY <1>2, <2>1 DEF GiveUp, env
<1>4. Control'
  BY DEF GiveUp, Control
<1>5. Accounted'
  BY <1>2 DEF GiveUp, Accounted, env
<1> QED BY <1>2, <1>3, <1>4, <1>5 DEF NoDoubleFree

\* The other steps change neither the queue nor what is freed.
LEMMA OtherInv ==
  ASSUME IInv, Peek \/ SendFail \/ NextRound \/ LinkChanges \/ UNCHANGED vars
  PROVE  IInv'
<1> USE DEF IInv, TypeOK
<1>1. UNCHANGED <<queue, made, rejected, sent, dropped, freed, fault>>
  BY DEF Peek, SendFail, NextRound, LinkChanges, vars, env
<1>2. Accounted' /\ QueueAlive' /\ NoDoubleFree'
  BY <1>1 DEF Accounted, QueueAlive, NoDoubleFree
<1>3. TypeOK' /\ Control'
  <2>1. CASE Peek
    <3>1. Head(queue) \in Message
      BY <2>1 DEF Peek
    <3> QED BY <2>1, <3>1 DEF Peek, Control, env
  <2>2. CASE SendFail
    BY <2>2 DEF SendFail, Control, env
  <2>3. CASE NextRound
    BY <2>3 DEF NextRound, Control, env
  <2>4. CASE LinkChanges
    BY <2>4 DEF LinkChanges, Control
  <2>5. CASE UNCHANGED vars
    BY <2>5 DEF vars, Control
  <2> QED BY <2>1, <2>2, <2>3, <2>4, <2>5
<1> QED BY <1>2, <1>3

LEMMA SpecIInv == Spec => []IInv
<1>1. IInv /\ [Next]_vars => IInv'
  BY AddQueueInv, SendOkInv, GiveUpInv, OtherInv DEF Next, ThreadSender
<1> QED BY <1>1, InitIInv, PTL DEF Spec

\* The types of the sender's state, for any number of messages; in particular
\* fail_count never exceeds 4.
THEOREM SenderTypeCorrect == Spec => []TypeOK
<1>1. IInv => TypeOK
  BY DEF IInv
<1> QED BY <1>1, SpecIInv, PTL

\* thread_sender never frees a message twice, whatever fails and whenever.
THEOREM SenderNoDoubleFree == Spec => []NoDoubleFree
<1>1. IInv => NoDoubleFree
  BY DEF IInv
<1> QED BY <1>1, SpecIInv, PTL

\* Everything on the queue is still allocated, and there once.
THEOREM SenderQueueAlive == Spec => []QueueAlive
<1>1. IInv => QueueAlive
  BY DEF IInv
<1> QED BY <1>1, SpecIInv, PTL

\* Every message is waiting, sent, given up or rejected, and never two of these.
THEOREM SenderAccounted == Spec => []Accounted
<1>1. IInv => Accounted
  BY DEF IInv
<1> QED BY <1>1, SpecIInv, PTL
-----------------------------------------------------------------------------
(* Order: HeadBlocks speaks of what is on the queue; to survive an addition  *)
(* it needs that a message not made yet has not been tried either.           *)

FreshUntried == \A m \in Message \ made : tries[m] = 0

HInv == IInv /\ HeadBlocks /\ FreshUntried

LEMMA HeadBlocksStep == HInv /\ [Next]_vars => HeadBlocks' /\ FreshUntried'
<1> SUFFICES ASSUME HInv, [Next]_vars PROVE HeadBlocks' /\ FreshUntried'
  OBVIOUS
<1> USE DEF HInv, IInv, TypeOK
<1>1. ASSUME NEW m \in Message, AddQueue(m) PROVE HeadBlocks' /\ FreshUntried'
  <2>1. tries' = tries /\ tries[m] = 0 /\ made' = made \cup {m}
    BY <1>1 DEF AddQueue, FreshUntried
  <2>2. CASE queue' = queue
    BY <2>1, <2>2 DEF HeadBlocks, FreshUntried
  <2>3. CASE queue' = Append(queue, m)
    <3>1. ASSUME NEW i \in 2..Len(queue') PROVE tries'[queue'[i]] = 0
      <4>1. CASE i <= Len(queue)
        BY <2>1, <2>3, <4>1 DEF HeadBlocks
      <4>2. CASE i = Len(queue) + 1
        BY <2>1, <2>3, <4>2
      <4> QED BY <2>3, <4>1, <4>2
    <3> QED BY <2>1, <3>1 DEF HeadBlocks, FreshUntried
  <2> QED BY <1>1, <2>2, <2>3 DEF AddQueue
<1>2. CASE SendFail
  <2>1. queue # <<>> /\ message = Head(queue) /\ UNCHANGED <<queue, made>>
        /\ tries' = [tries EXCEPT ![message] = @ + 1]
    BY <1>2 DEF SendFail, Control, env
  <2>2. \A i \in 2..Len(queue) : queue[i] # message
    BY <2>1 DEF QueueAlive
  <2>3. message \in made
    BY <2>1 DEF Accounted, Elements
  <2> QED BY <2>1, <2>2, <2>3 DEF HeadBlocks, FreshUntried
<1>3. CASE SendOk \/ GiveUp
  <2>1. queue # <<>> /\ queue' = Tail(queue) /\ UNCHANGED <<tries, made>>
    BY <1>3 DEF SendOk, GiveUp, Control, env
  <2>2. \A i \in 2..Len(queue') : queue'[i] = queue[i + 1] /\ i + 1 \in 2..Len(queue)
    BY <2>1
  <2> QED BY <2>1, <2>2 DEF HeadBlocks, FreshUntried
<1>4. CASE Peek \/ NextRound \/ LinkChanges \/ UNCHANGED vars
  <2>1. UNCHANGED <<queue, tries, made>>
    BY <1>4 DEF Peek, NextRound, LinkChanges, vars, env
  <2> QED BY <2>1 DEF HeadBlocks, FreshUntried
<1> QED BY <1>1, <1>2, <1>3, <1>4 DEF Next, ThreadSender

\* Nothing behind the oldest message has been tried: no message overtakes one that
\* was added before it, whatever fails (IotClient.c:1459-1480).
THEOREM SenderHeadBlocks == Spec => []HeadBlocks
<1>1. Init => HeadBlocks /\ FreshUntried
  BY DEF Init, HeadBlocks, FreshUntried
<1>2. HInv /\ [Next]_vars => HInv'
  BY HeadBlocksStep, AddQueueInv, SendOkInv, GiveUpInv, OtherInv
  DEF HInv, Next, ThreadSender
<1>3. HInv => HeadBlocks
  BY DEF HInv
<1> QED BY <1>1, <1>2, <1>3, InitIInv, PTL DEF Spec, HInv
-----------------------------------------------------------------------------
(* The account of the failures: every failed attempt is either one of the    *)
(* four that cost a message or counted in fail_count.                        *)

FInv == IInv /\ IsFiniteSet(Attempts) /\ FourFailuresPerDrop

\* One more failure of m adds one attempt.
LEMMA OneMoreAttempt ==
  ASSUME TypeOK, NEW m \in Message, IsFiniteSet(Attempts),
         tries' = [tries EXCEPT ![m] = @ + 1]
  PROVE  /\ IsFiniteSet(Attempts')
         /\ Cardinality(Attempts') = Cardinality(Attempts) + 1
<1> DEFINE new == <<m, tries[m] + 1>>
<1>1. tries \in [Message -> Nat]
  BY DEF TypeOK
<1>2. /\ Attempts = {p \in Message \X Nat : p[2] \in 1..tries[p[1]]}
      /\ Attempts' = {p \in Message \X Nat : p[2] \in 1..tries'[p[1]]}
  <2>1. tries' \in [Message -> Nat]
    BY <1>1
  <2> QED BY <1>1, <2>1 DEF Attempts
<1>3. new \notin Attempts
  BY <1>1, <1>2
<1>4. Attempts' = Attempts \cup {new}
  <2>1. \A k \in Message : 1..tries'[k] = 1..tries[k] \cup (IF k = m THEN {tries[m] + 1} ELSE {})
    BY <1>1
  <2>2. new \in Message \X Nat
    BY <1>1
  <2> QED BY <1>2, <2>1, <2>2
<1> QED BY <1>3, <1>4, FS_AddElement

LEMMA FourFailuresStep ==
  ASSUME FInv, [Next]_vars
  PROVE  IsFiniteSet(Attempts') /\ FourFailuresPerDrop'
<1> USE DEF FInv, IInv, TypeOK
<1>1. Cardinality(dropped) \in Nat /\ IsFiniteSet(dropped)
  BY FS_Subset, FS_CardinalityType
<1>2. CASE SendFail
  <2>1. message \in Message /\ UNCHANGED dropped /\ fail_count' = fail_count + 1
        /\ tries' = [tries EXCEPT ![message] = @ + 1]
    BY <1>2 DEF SendFail
  <2>2. IsFiniteSet(Attempts') /\ Cardinality(Attempts') = Cardinality(Attempts) + 1
    BY <2>1, OneMoreAttempt
  <2> QED BY <1>1, <2>1, <2>2 DEF FourFailuresPerDrop
<1>3. CASE GiveUp
  <2>1. /\ fail_count = MaxFail + 1 /\ fail_count' = 0 /\ UNCHANGED tries
        /\ dropped' = dropped \cup {message}
    BY <1>3 DEF GiveUp
  <2>2. message \notin dropped
    BY <1>3 DEF GiveUp, Control, QueueAlive, Accounted
  <2>3. Cardinality(dropped') = Cardinality(dropped) + 1
    BY <1>1, <2>1, <2>2, FS_AddElement
  <2>4. Attempts' = Attempts
    BY <2>1 DEF Attempts
  <2> QED BY <1>1, <2>1, <2>3, <2>4 DEF FourFailuresPerDrop
<1>4. CASE \/ \E m \in Message : AddQueue(m)
           \/ Peek \/ SendOk \/ NextRound \/ LinkChanges \/ UNCHANGED vars
  <2>1. UNCHANGED <<tries, dropped, fail_count>>
    BY <1>4 DEF AddQueue, Peek, SendOk, NextRound, LinkChanges, vars, env
  <2> QED BY <2>1 DEF FourFailuresPerDrop, Attempts
<1> QED BY <1>2, <1>3, <1>4 DEF Next, ThreadSender

\* Four failures, of one message or of several, cost exactly one message
\* (IotClient.c:1470-1479), whenever the connection comes and goes.
THEOREM SenderFourFailures == Spec => []FourFailuresPerDrop
<1>1. Init => FInv
  <2> SUFFICES ASSUME Init PROVE IsFiniteSet(Attempts) /\ FourFailuresPerDrop
    BY InitIInv DEF FInv
  <2>1. Attempts = {}
    BY DEF Init, Attempts
  <2> QED BY <2>1, FS_EmptySet DEF Init, FourFailuresPerDrop
<1>2. FInv /\ [Next]_vars => FInv'
  BY FourFailuresStep, AddQueueInv, SendOkInv, GiveUpInv, OtherInv
  DEF FInv, Next, ThreadSender
<1>3. FInv => FourFailuresPerDrop
  BY DEF FInv
<1> QED BY <1>1, <1>2, <1>3, PTL DEF Spec
=============================================================================
