--------------------------- MODULE ReceiverProofs ---------------------------
(***************************************************************************)
(* Proofs about Receiver for any kinds of messages, any number of them and *)
(* any limit of the queues: who owns a message at every step, and that     *)
(* thread_receiver implements Service.  The invariant comes in layers: the *)
(* queue and the message in hand; ownership; what the steps so far have    *)
(* established of the message in hand.                                     *)
(***************************************************************************)
EXTENDS Receiver, TLAPS

USE ReceiverAssumption DEF Arrived
-----------------------------------------------------------------------------
(* The queue and the message in hand.                                      *)

Steps == {"loop", "decrypt", "parse", "answer", "deliver", "listener", "delete"}
Owners == {"nobody", "client", "application", "freed", "rejected", "library"}
Item == [what : {"null", "answer", "reply"}, to : Nat]

\* The types of the state.
Types ==
  /\ running \in BOOLEAN /\ listener \in BOOLEAN
  /\ kind \in Seq(Kind) /\ Len(kind) <= MaxMessage
  /\ receive_queue \in Seq(Nat) /\ delivered \in Seq(Nat)
  /\ send_queue \in Seq(Item) /\ sent \in Seq(Item)
  /\ pc \in Steps /\ owner \in [1 .. MaxMessage -> Owners]

\* Only messages that arrived are in use.
OnlyArrived ==
  /\ \A i \in DOMAIN receive_queue : receive_queue[i] \in Arrived
  /\ \A i \in DOMAIN delivered : delivered[i] \in Arrived
  /\ answered \subseteq Arrived

\* The receive queue holds the messages in the order of arrival, each once.
Increasing ==
  \A i, j \in DOMAIN receive_queue : i < j => receive_queue[i] < receive_queue[j]

\* The message in hand is the first of the queue until its node is unlinked.
InHand == pc # "loop" => receive_queue # <<>> /\ message = receive_queue[1]

QInv == Types /\ OnlyArrived /\ Increasing /\ InHand

\* Who has to free a message.  Those on the queue belong to the client, but for the
\* one in hand once it was given away or freed; what left the queue does not.
QueueOwned ==
  \A i \in DOMAIN receive_queue :
    (i > 1 \/ pc \notin {"listener", "delete"}) => owner[receive_queue[i]] = "client"

HandOwned ==
  pc = "listener" \/ (pc = "delete" /\ listener) => owner[message] \in {"application", "freed"}

RightOwner(m) ==
  /\ owner[m] = "application" => Given(m)
  /\ Given(m) => owner[m] \in {"application", "freed"}
  /\ listener /\ ~Waiting(m) => owner[m] \in {"application", "freed", "rejected", "library"}

Owned == QueueOwned /\ HandOwned /\ \A m \in Arrived : RightOwner(m)

\* What the steps so far have established of the message in hand.
HandKnown ==
  /\ pc \in {"decrypt", "parse", "answer", "deliver"} => The.class # "auth"
  /\ pc = "parse" => /\ bAES128Used /\ The.encrypted => The.body \notin Undecipherable
                     /\ deciphered <=> MustDecrypt
  /\ pc \in {"answer", "deliver"} => Request(The).usable
  /\ pc = "deliver" /\ The.class \in NeedsAnswer => message \in answered

\* No message behind it was answered yet.
NotAnswered ==
  \A i \in DOMAIN receive_queue :
    (i > 1 \/ pc \in {"loop", "decrypt", "parse", "answer"}) =>
      receive_queue[i] \notin answered

\* A null pointer in the send queue stands for a noti request whose text is empty.
NullsFromEmpty ==
  \A i \in DOMAIN send_queue : send_queue[i].what = "null" =>
    \E m \in Arrived : Fatal(kind[m])

\* How a step changes the receive queue.
LEMMA AppendIncreasing ==
  ASSUME QInv, NEW m \in Nat, \A i \in DOMAIN receive_queue : receive_queue[i] < m,
         receive_queue' = Append(receive_queue, m)
  PROVE  /\ receive_queue' \in Seq(Nat) /\ Increasing'
         /\ Len(receive_queue') = Len(receive_queue) + 1
         /\ receive_queue'[Len(receive_queue) + 1] = m
         /\ \A i \in DOMAIN receive_queue : receive_queue'[i] = receive_queue[i]
         /\ DOMAIN receive_queue' = 1 .. Len(receive_queue) + 1
         /\ DOMAIN receive_queue = 1 .. Len(receive_queue) /\ Len(receive_queue) \in Nat
<1>1. receive_queue \in Seq(Nat)
  BY DEF QInv, Types
<1>2. /\ receive_queue' \in Seq(Nat)
      /\ Len(receive_queue') = Len(receive_queue) + 1
      /\ receive_queue'[Len(receive_queue) + 1] = m
      /\ \A i \in 1 .. Len(receive_queue) : receive_queue'[i] = receive_queue[i]
      /\ DOMAIN receive_queue' = 1 .. Len(receive_queue) + 1
      /\ DOMAIN receive_queue = 1 .. Len(receive_queue) /\ Len(receive_queue) \in Nat
  BY <1>1
<1>3. Increasing'
  BY <1>2 DEF QInv, Increasing
<1> QED BY <1>2, <1>3

LEMMA TailIncreasing ==
  ASSUME QInv, receive_queue # <<>>, receive_queue' = Tail(receive_queue)
  PROVE  /\ receive_queue' \in Seq(Nat) /\ Increasing'
         /\ DOMAIN receive_queue = 1 .. Len(receive_queue) /\ Len(receive_queue) \in Nat \ {0}
         /\ DOMAIN receive_queue' = 1 .. Len(receive_queue) - 1
         /\ \A i \in 1 .. Len(receive_queue) - 1 : receive_queue'[i] = receive_queue[i + 1]
<1>1. receive_queue \in Seq(Nat)
  BY DEF QInv, Types
<1>2. /\ receive_queue' \in Seq(Nat)
      /\ DOMAIN receive_queue = 1 .. Len(receive_queue) /\ Len(receive_queue) \in Nat \ {0}
      /\ DOMAIN receive_queue' = 1 .. Len(receive_queue) - 1
      /\ \A i \in 1 .. Len(receive_queue) - 1 : receive_queue'[i] = receive_queue[i + 1]
  BY <1>1
<1>3. Increasing'
  BY <1>2 DEF QInv, Increasing
<1> QED BY <1>2, <1>3

\* A message in hand arrived; its kind is one of those the code knows.
LEMMA MessageInHand ==
  ASSUME QInv, pc # "loop"
  PROVE  /\ message \in Arrived /\ message \in 1 .. MaxMessage
         /\ kind[message] \in Kind
         /\ 1 \in DOMAIN receive_queue /\ receive_queue[1] = message
<1>1. 1 \in DOMAIN receive_queue /\ receive_queue[1] = message
  BY DEF QInv, Types, InHand
<1> QED BY <1>1 DEF QInv, Types, OnlyArrived

LEMMA InitQInv == Init => QInv
BY DEF Init, QInv, Types, OnlyArrived, Increasing, InHand, Steps, Owners

LEMMA SendQueueAddType ==
  ASSUME send_queue \in Seq(Item), NEW item \in Item, SendQueueAdd(item)
  PROVE  send_queue' \in Seq(Item)
BY DEF SendQueueAdd

LEMMA ArriveQInv == ASSUME QInv, NEW k \in Kind, Arrive(k) PROVE QInv'
<1> USE DEF QInv
<1> DEFINE m == Len(kind) + 1
<1>1. /\ kind' = Append(kind, k) /\ Len(kind) < MaxMessage
      /\ UNCHANGED <<running, listener, out, pc, message, delivered>>
  BY DEF Arrive
<1>2. /\ kind' \in Seq(Kind) /\ Len(kind') = m /\ m \in 1 .. MaxMessage
      /\ Len(kind) \in Nat
  BY <1>1 DEF Types
<1>3. owner' \in [1 .. MaxMessage -> Owners]
  BY <1>2 DEF Arrive, Accept, Types, Owners
<1>4. CASE receive_queue' = receive_queue
  BY <1>1, <1>2, <1>3, <1>4 DEF Types, OnlyArrived, Increasing, InHand, out
<1>5. CASE receive_queue' = Append(receive_queue, m)
  <2>1. \A i \in DOMAIN receive_queue : receive_queue[i] < m
    BY <1>2 DEF Types, OnlyArrived
  <2>2. /\ receive_queue' \in Seq(Nat) /\ Increasing'
        /\ receive_queue'[Len(receive_queue) + 1] = m
        /\ \A i \in DOMAIN receive_queue : receive_queue'[i] = receive_queue[i]
        /\ DOMAIN receive_queue' = 1 .. Len(receive_queue) + 1
        /\ DOMAIN receive_queue = 1 .. Len(receive_queue) /\ Len(receive_queue) \in Nat
    BY <1>2, <1>5, <2>1, AppendIncreasing
  <2>3. Types'
    BY <1>1, <1>2, <1>3, <2>2 DEF Types, out
  <2>4. OnlyArrived'
    <3>1. \A i \in DOMAIN receive_queue' : receive_queue'[i] \in 1 .. m
      BY <1>2, <2>2 DEF OnlyArrived
    <3> QED BY <1>1, <1>2, <3>1 DEF OnlyArrived, out
  <2>5. InHand'
    <3> SUFFICES ASSUME pc # "loop"
                 PROVE  receive_queue' # <<>> /\ message = receive_queue'[1]
      BY <1>1 DEF InHand
    <3>1. receive_queue[1] = message /\ 1 \in DOMAIN receive_queue
      BY MessageInHand
    <3>2. receive_queue' # <<>>
      BY <2>2
    <3> QED BY <2>2, <3>1, <3>2
  <2> QED BY <2>2, <2>3, <2>4, <2>5
<1> QED BY <1>4, <1>5 DEF Arrive, Accept

LEMMA TakeQInv == ASSUME QInv, Take PROVE QInv'
<1> USE DEF QInv
<1>1. /\ message' = Head(receive_queue) /\ receive_queue # <<>> /\ pc' \in Steps
      /\ UNCHANGED <<running, listener, kind, receive_queue, out, delivered>>
  BY DEF Take, Goto, Steps
<1>2. owner' \in [1 .. MaxMessage -> Owners]
  BY DEF Take, Types, Owners
<1>3. Types' /\ OnlyArrived' /\ Increasing'
  BY <1>1, <1>2 DEF Types, OnlyArrived, Increasing, out
<1>4. InHand'
  BY <1>1 DEF InHand, Types
<1> QED BY <1>3, <1>4

LEMMA DeliverQInv == ASSUME QInv, Deliver PROVE QInv'
<1> USE DEF QInv
<1>1. /\ delivered' = Append(delivered, message) /\ pc' = "listener" /\ pc = "deliver"
      /\ owner' = [owner EXCEPT ![message] = "application"]
      /\ UNCHANGED <<running, listener, kind, receive_queue, out, message>>
  BY DEF Deliver, Goto
<1>2. message \in Arrived
  BY <1>1, MessageInHand
<1>3. /\ delivered' \in Seq(Nat)
      /\ \A i \in DOMAIN delivered' : delivered'[i] \in Arrived
  BY <1>1, <1>2 DEF Types, OnlyArrived
<1>4. owner' \in [1 .. MaxMessage -> Owners]
  BY <1>1 DEF Types, Owners
<1>5. Types'
  BY <1>1, <1>3, <1>4 DEF Types, Steps, out
<1>6. OnlyArrived' /\ Increasing' /\ InHand'
  BY <1>1, <1>3 DEF OnlyArrived, Increasing, InHand, out
<1> QED BY <1>5, <1>6

LEMMA DeleteQInv == ASSUME QInv, Delete PROVE QInv'
<1> USE DEF QInv
<1>1. /\ receive_queue' = Tail(receive_queue) /\ pc' = "loop" /\ pc = "delete"
      /\ UNCHANGED <<running, listener, kind, out, message, owner, delivered>>
  BY DEF Delete, Goto
<1>2. /\ receive_queue' \in Seq(Nat) /\ Increasing'
      /\ DOMAIN receive_queue' = 1 .. Len(receive_queue) - 1
      /\ DOMAIN receive_queue = 1 .. Len(receive_queue) /\ Len(receive_queue) \in Nat \ {0}
      /\ \A i \in 1 .. Len(receive_queue) - 1 : receive_queue'[i] = receive_queue[i + 1]
  BY <1>1, TailIncreasing DEF InHand
<1>3. Types' /\ InHand'
  BY <1>1, <1>2 DEF Types, InHand, Steps, out
<1>4. OnlyArrived'
  BY <1>1, <1>2 DEF OnlyArrived, out
<1> QED BY <1>2, <1>3, <1>4

\* The other steps of thread_receiver.
LEMMA HandleQInv ==
  ASSUME QInv,
         Decrypt \/ Parse \/ Answer \/ NoListener \/ ListenerReturns
  PROVE  QInv'
<1> USE DEF QInv
<1>1. /\ UNCHANGED <<listener, kind, receive_queue, sent, replied, message, delivered>>
      /\ running' \in {running, FALSE} /\ pc # "loop" /\ pc' \in Steps
  BY DEF Decrypt, Parse, Answer, NoListener, ListenerReturns, Goto, Steps, out, Types
<1>2. owner' \in [1 .. MaxMessage -> Owners]
  BY DEF Decrypt, Parse, Answer, NoListener, ListenerReturns, Free, Types, Owners
<1>3. message \in Arrived
  BY <1>1, MessageInHand
<1>4. send_queue' \in Seq(Item) /\ answered' \subseteq Arrived
  <2>1. CASE UNCHANGED <<send_queue, answered>>
    BY <2>1 DEF Types, OnlyArrived
  <2>2. CASE SendQueueAdd([what |-> Built, to |-> message])
             /\ answered' = answered \cup {message}
    <3>1. [what |-> Built, to |-> message] \in Item
      BY <1>3 DEF Built, Item
    <3>2. send_queue' \in Seq(Item)
      BY <2>2, <3>1, SendQueueAddType DEF Types
    <3> QED BY <1>3, <2>2, <3>2 DEF OnlyArrived
  <2> QED BY <2>1, <2>2
          DEF Decrypt, Parse, Answer, NoListener, ListenerReturns, out
<1>5. Types'
  BY <1>1, <1>2, <1>4 DEF Types
<1>6. OnlyArrived' /\ Increasing' /\ InHand'
  BY <1>1, <1>4 DEF OnlyArrived, Increasing, InHand
<1> QED BY <1>5, <1>6

\* The steps at which the process ends.
Crashes == TakeWithoutBody \/ ParseNullField \/ AnswerWithoutBody \/ SendNull

LEMMA CrashesCrash == ASSUME Crashes PROVE Crash
BY DEF Crashes, TakeWithoutBody, ParseNullField, AnswerWithoutBody, SendNull

\* The application, thread_sender and the end of the process.
LEMMA OthersQInv ==
  ASSUME QInv,
         (\E m \in Arrived : Reply(m) \/ FreeMessage(m)) \/ Send \/ Crashes \/ UNCHANGED vars
  PROVE  QInv'
<1> USE DEF QInv
<1>1. /\ UNCHANGED <<listener, kind, receive_queue, answered, pc, message, delivered>>
      /\ running' \in {running, FALSE}
  BY CrashesCrash DEF Reply, FreeMessage, Send, Crash, vars, out
<1>2. owner' \in [1 .. MaxMessage -> Owners]
  BY CrashesCrash DEF Reply, FreeMessage, Send, Crash, vars, Types, Owners
<1>3. send_queue' \in Seq(Item) /\ sent' \in Seq(Item)
  <2>1. ASSUME NEW m \in Arrived, Reply(m) PROVE send_queue' \in Seq(Item) /\ sent' = sent
    <3>1. [what |-> "reply", to |-> m] \in Item
      BY DEF Item, Types
    <3>2. SendQueueAdd([what |-> "reply", to |-> m]) /\ sent' = sent
      BY <2>1 DEF Reply
    <3> QED BY <3>1, <3>2, SendQueueAddType DEF Types
  <2>2. CASE Send
    <3>1. Head(send_queue) \in Item
      BY <2>2 DEF Send, Types
    <3> QED BY <2>2, <3>1 DEF Send, Types
  <2>3. CASE (\E m \in Arrived : FreeMessage(m)) \/ Crashes \/ UNCHANGED vars
    BY <2>3, CrashesCrash DEF FreeMessage, Crash, vars, out, Types
  <2> QED BY <2>1, <2>2, <2>3 DEF Types
<1>4. Types'
  BY <1>1, <1>2, <1>3 DEF Types
<1>5. OnlyArrived' /\ Increasing' /\ InHand'
  BY <1>1 DEF OnlyArrived, Increasing, InHand
<1> QED BY <1>4, <1>5

LEMMA StepQInv == QInv /\ [Next]_vars => QInv'
BY ArriveQInv, TakeQInv, DeliverQInv, DeleteQInv, HandleQInv, OthersQInv DEF Next, Crashes
-----------------------------------------------------------------------------
(* Ownership.                                                              *)

OInv == QInv /\ Owned /\ ~fault

\* The message in hand is nowhere else in the queue.
LEMMA HandOnce ==
  ASSUME QInv, pc # "loop"
  PROVE  \A i \in DOMAIN receive_queue : i > 1 => receive_queue[i] # message
<1>1. \A i \in DOMAIN receive_queue : i > 1 => message < receive_queue[i]
  BY MessageInHand DEF QInv, Types, Increasing
<1> QED BY <1>1 DEF QInv, Types

\* What is neither freed nor given away: the message a step of the receiver uses.
LEMMA HandAlive ==
  ASSUME OInv, pc \in {"decrypt", "parse", "answer", "deliver"}
  PROVE  owner[message] = "client"
BY MessageInHand DEF OInv, Owned, QueueOwned

LEMMA ArriveOwned == ASSUME OInv, NEW k \in Kind, Arrive(k) PROVE Owned' /\ ~fault'
<1> USE DEF OInv
<1>0. PICK m \in Nat : m = Len(kind) + 1
  BY DEF QInv, Types
<1>1. /\ kind' = Append(kind, k) /\ Len(kind) < MaxMessage
      /\ UNCHANGED <<listener, pc, message, delivered, fault>>
  BY DEF Arrive
<1>2. /\ Len(kind') = m /\ m \in 1 .. MaxMessage /\ Len(kind) \in Nat
      /\ m \notin Arrived /\ Arrived' = Arrived \cup {m}
  BY <1>0, <1>1 DEF QInv, Types
<1>3. /\ \A i \in DOMAIN receive_queue : receive_queue[i] \in Arrived
      /\ pc # "loop" => message \in Arrived
      /\ \A a \in Nat : Given(a)' = Given(a)
      /\ \A a \in Arrived : Given(a)' = Given(a)
      /\ ~Given(m)'
  BY <1>1, <1>2, MessageInHand DEF QInv, OnlyArrived, Given
<1>4. PICK o \in {"client", "rejected", "freed", "library"} :
        owner' = [owner EXCEPT ![m] = o]
  BY <1>0 DEF Arrive, Accept
<1>5. owner'[m] = o /\ \A a \in Arrived : owner'[a] = owner[a]
  BY <1>2, <1>4 DEF QInv, Types
<1>6. CASE receive_queue' = receive_queue /\ o # "client"
  <2>1. \A a \in Arrived : Waiting(a)' = Waiting(a)
    BY <1>6 DEF Waiting
  <2>2. \A i \in DOMAIN receive_queue : owner'[receive_queue[i]] = owner[receive_queue[i]]
    BY <1>3, <1>5
  <2>3. \A i \in DOMAIN receive_queue' :
          (i > 1 \/ pc' \notin {"listener", "delete"}) => owner'[receive_queue'[i]] = "client"
    BY <1>1, <1>6, <2>2 DEF Owned, QueueOwned
  <2>4. pc' = "listener" \/ (pc' = "delete" /\ listener') =>
          owner'[message'] \in {"application", "freed"}
    BY <1>1, <1>3, <1>5 DEF Owned, HandOwned
  <2>5. \A a \in Arrived : RightOwner(a)'
    BY <1>1, <1>3, <1>5, <2>1 DEF Owned, RightOwner
  <2>6. RightOwner(m)'
    BY <1>3, <1>5, <1>6 DEF RightOwner
  <2>7. QueueOwned' /\ HandOwned'
    BY <2>3, <2>4 DEF QueueOwned, HandOwned
  <2> QED BY <1>1, <1>2, <2>5, <2>6, <2>7 DEF Owned
<1>7. CASE receive_queue' = Append(receive_queue, m) /\ o = "client"
  <2>1. \A i \in DOMAIN receive_queue : receive_queue[i] < m
    BY <1>2, <1>3
  <2>2. /\ receive_queue'[Len(receive_queue) + 1] = m
        /\ \A i \in DOMAIN receive_queue : receive_queue'[i] = receive_queue[i]
        /\ DOMAIN receive_queue' = 1 .. Len(receive_queue) + 1
        /\ DOMAIN receive_queue = 1 .. Len(receive_queue) /\ Len(receive_queue) \in Nat
    BY <1>2, <1>7, <2>1, AppendIncreasing
  <2>3. \A i \in DOMAIN receive_queue' :
          (i > 1 \/ pc' \notin {"listener", "delete"}) => owner'[receive_queue'[i]] = "client"
    <3> SUFFICES ASSUME NEW i \in DOMAIN receive_queue', i > 1 \/ pc \notin {"listener", "delete"}
                 PROVE  owner'[receive_queue'[i]] = "client"
      BY <1>1
    <3>1. CASE i \in DOMAIN receive_queue
      BY <1>3, <1>5, <2>2, <3>1 DEF Owned, QueueOwned
    <3>2. CASE i = Len(receive_queue) + 1
      BY <1>5, <1>7, <2>2, <3>2
    <3> QED BY <2>2, <3>1, <3>2
  <2>4. pc' = "listener" \/ (pc' = "delete" /\ listener') =>
          owner'[message'] \in {"application", "freed"}
    BY <1>1, <1>3, <1>5 DEF Owned, HandOwned
  <2>5. \A a \in Arrived : Waiting(a) => Waiting(a)'
    <3> SUFFICES ASSUME NEW a \in Arrived, NEW i \in DOMAIN receive_queue,
                        receive_queue[i] = a
                 PROVE  Waiting(a)'
      BY DEF Waiting
    <3>1. i \in DOMAIN receive_queue' /\ receive_queue'[i] = a
      BY <2>2
    <3> QED BY <3>1 DEF Waiting
  <2>6. Waiting(m)'
    BY <2>2 DEF Waiting
  <2>7. \A a \in Arrived : RightOwner(a)'
    BY <1>1, <1>3, <1>5, <2>5 DEF Owned, RightOwner
  <2>8. RightOwner(m)'
    BY <1>3, <1>5, <1>7, <2>6 DEF RightOwner
  <2>9. QueueOwned' /\ HandOwned'
    BY <2>3, <2>4 DEF QueueOwned, HandOwned
  <2> QED BY <1>1, <1>2, <2>7, <2>8, <2>9 DEF Owned
<1>8. \/ receive_queue' = receive_queue /\ o # "client"
      \/ receive_queue' = Append(receive_queue, m) /\ o = "client"
  <2>1. owner'[m] = o
    BY <1>5
  <2> QED BY <1>0, <1>2, <1>4, <2>1 DEF Arrive, Accept, QInv, Types
<1> QED BY <1>1, <1>6, <1>7, <1>8

\* The client frees the first message of the queue and goes on to unlink it.
LEMMA FreedOwned ==
  ASSUME OInv, receive_queue # <<>>, NEW h \in 1 .. MaxMessage, h = receive_queue[1],
         message' = h, pc' = "delete",
         owner' = [owner EXCEPT ![h] = "freed"],
         UNCHANGED <<listener, kind, receive_queue, delivered>>
  PROVE  Owned'
<1> USE DEF OInv, Owned
<1>1. \A a \in 1 .. MaxMessage : owner'[a] = IF a = h THEN "freed" ELSE owner[a]
  BY DEF QInv, Types
<1>2. \A i \in DOMAIN receive_queue : i > 1 =>
        receive_queue[i] # h /\ receive_queue[i] \in 1 .. MaxMessage
  BY DEF QInv, Types, Increasing, OnlyArrived
<1>3. QueueOwned'
  BY <1>1, <1>2 DEF QueueOwned
<1>4. HandOwned'
  BY <1>1 DEF HandOwned
<1>5. \A m \in Arrived : RightOwner(m)'
  <2>1. Arrived \subseteq 1 .. MaxMessage
    BY DEF QInv, Types
  <2>2. \A m \in Arrived : (Given(m)' <=> Given(m)) /\ (Waiting(m)' <=> Waiting(m))
    BY DEF Given, Waiting
  <2> QED BY <1>1, <2>1, <2>2 DEF RightOwner
<1> QED BY <1>3, <1>4, <1>5

\* A step that changes neither the queue nor an owner.
LEMMA SameOwned ==
  ASSUME OInv, pc' \in Steps, UNCHANGED <<listener, kind, receive_queue, delivered, owner>>,
         pc' \notin {"listener", "delete"} => pc \notin {"listener", "delete"},
         HandOwned'
  PROVE  Owned'
<1>1. QueueOwned'
  BY DEF OInv, Owned, QueueOwned
<1>2. \A m \in Arrived : RightOwner(m)'
  BY DEF OInv, Owned, RightOwner, Given, Waiting
<1> QED BY <1>1, <1>2 DEF Owned

LEMMA TakeOwned == ASSUME OInv, Take PROVE Owned' /\ ~fault'
<1> USE DEF OInv
<1>1. PICK h \in 1 .. MaxMessage : h = receive_queue[1] /\ owner[h] = "client"
  <2>1. 1 \in DOMAIN receive_queue /\ receive_queue[1] \in 1 .. MaxMessage
    BY DEF Take, QInv, Types, OnlyArrived
  <2> QED BY <2>1 DEF Take, Owned, QueueOwned
<1>2. /\ pc = "loop" /\ receive_queue # <<>> /\ message' = h
      /\ UNCHANGED <<listener, kind, receive_queue, delivered>>
      /\ ~fault'
  <2>1. Head(receive_queue) = h /\ receive_queue # <<>>
    BY <1>1 DEF Take, QInv, Types
  <2>2. fault' = (fault \/ owner[Head(receive_queue)] # "client")
    BY DEF Take
  <2>3. ~fault'
    BY <1>1, <2>1, <2>2
  <2> QED BY <2>1, <2>3 DEF Take
<1>3. CASE owner' = [owner EXCEPT ![h] = "freed"] /\ pc' = "delete"
  BY <1>1, <1>2, <1>3, FreedOwned
<1>4. CASE owner' = owner /\ pc' = "decrypt"
  BY <1>2, <1>4, SameOwned DEF HandOwned, Steps
<1> QED BY <1>1, <1>2, <1>3, <1>4 DEF Take, Goto, QInv, Types

LEMMA DecryptParseOwned == ASSUME OInv, Decrypt \/ Parse PROVE Owned' /\ ~fault'
<1> USE DEF OInv
<1>1. /\ pc \in {"decrypt", "parse"}
      /\ UNCHANGED <<listener, kind, receive_queue, message, delivered>>
      /\ fault' = (fault \/ owner[message] # "client")
  BY DEF Decrypt, Parse, Use
<1>2. ~fault'
  BY <1>1, HandAlive
<1>3. /\ receive_queue # <<>> /\ message \in 1 .. MaxMessage /\ message = receive_queue[1]
  BY <1>1, MessageInHand DEF QInv, InHand
<1>4. CASE Free /\ pc' = "delete"
  <2>1. PICK h \in 1 .. MaxMessage : h = message
    BY <1>3
  <2> QED BY <1>1, <1>2, <1>3, <1>4, <2>1, FreedOwned DEF Free
<1>5. CASE owner' = owner /\ pc' \in {"parse", "answer"}
  BY <1>1, <1>2, <1>5, SameOwned DEF HandOwned, Steps
<1> QED BY <1>4, <1>5 DEF Decrypt, Parse, Goto

LEMMA AnswerOwned ==
  ASSUME OInv, Answer \/ NoListener \/ ListenerReturns
  PROVE  Owned' /\ ~fault'
<1> USE DEF OInv
<1>1. /\ pc \in {"answer", "deliver", "listener"} /\ pc' \in Steps
      /\ UNCHANGED <<listener, kind, receive_queue, message, delivered, owner>>
      /\ pc' \notin {"listener", "delete"} => pc \notin {"listener", "delete"}
  BY DEF Answer, NoListener, ListenerReturns, Goto, Steps, out
<1>2. ~fault'
  <2>1. CASE Answer
    <3>1. fault' = (fault \/ owner[message] # "client") /\ pc = "answer"
      BY <2>1 DEF Answer, Use
    <3> QED BY <3>1, HandAlive
  <2>2. CASE NoListener \/ ListenerReturns
    BY <2>2 DEF NoListener, ListenerReturns
  <2> QED BY <2>1, <2>2
<1>3. HandOwned'
  BY <1>1 DEF Answer, NoListener, ListenerReturns, Goto, Owned, HandOwned
<1> QED BY <1>1, <1>2, <1>3, SameOwned

LEMMA DeliverOwned == ASSUME OInv, Deliver PROVE Owned' /\ ~fault'
<1> USE DEF OInv
<1>1. PICK h \in 1 .. MaxMessage : h = message
  BY MessageInHand DEF Deliver
<1>2. /\ delivered' = Append(delivered, h) /\ pc' = "listener" /\ pc = "deliver"
      /\ owner' = [owner EXCEPT ![h] = "application"]
      /\ UNCHANGED <<listener, kind, receive_queue, message>>
      /\ fault' = (fault \/ owner[message] # "client")
  BY <1>1 DEF Deliver, Goto, Use
<1>3. ~fault'
  BY <1>2, HandAlive
<1>4. \A a \in 1 .. MaxMessage : owner'[a] = IF a = h THEN "application" ELSE owner[a]
  BY <1>2 DEF QInv, Types
<1>5. QueueOwned'
  <2>1. \A i \in DOMAIN receive_queue : i > 1 =>
          receive_queue[i] # h /\ receive_queue[i] \in 1 .. MaxMessage
    BY <1>1, <1>2, HandOnce DEF QInv, Types, OnlyArrived
  <2> QED BY <1>2, <1>4, <2>1 DEF Owned, QueueOwned
<1>6. HandOwned'
  BY <1>1, <1>2, <1>4 DEF HandOwned
<1>7. \A m \in Arrived : RightOwner(m)'
  <2>1. Arrived \subseteq 1 .. MaxMessage
    BY DEF QInv, Types
  <2>2. \A m \in Arrived : Given(m)' <=> Given(m) \/ m = h
    <3>1. /\ DOMAIN delivered = 1 .. Len(delivered) /\ Len(delivered) \in Nat
          /\ DOMAIN delivered' = 1 .. Len(delivered) + 1
          /\ delivered'[Len(delivered) + 1] = h
          /\ \A i \in DOMAIN delivered : delivered'[i] = delivered[i]
      BY <1>2 DEF QInv, Types
    <3> QED BY <3>1 DEF Given
  <2>3. \A m \in Arrived : Waiting(m)' <=> Waiting(m)
    BY <1>2 DEF Waiting
  <2> QED BY <1>2, <1>4, <2>1, <2>2, <2>3 DEF Owned, RightOwner
<1> QED BY <1>2, <1>3, <1>5, <1>6, <1>7 DEF Owned

LEMMA DeleteOwned == ASSUME OInv, Delete PROVE Owned' /\ ~fault'
<1> USE DEF OInv
<1>1. /\ receive_queue' = Tail(receive_queue) /\ pc' = "loop" /\ pc = "delete"
      /\ UNCHANGED <<listener, kind, message, owner, delivered, fault>>
  BY DEF Delete, Goto
<1>2. /\ DOMAIN receive_queue' = 1 .. Len(receive_queue) - 1
      /\ DOMAIN receive_queue = 1 .. Len(receive_queue) /\ Len(receive_queue) \in Nat \ {0}
      /\ \A i \in 1 .. Len(receive_queue) - 1 : receive_queue'[i] = receive_queue[i + 1]
  BY <1>1, TailIncreasing DEF QInv, InHand
<1>3. QueueOwned' /\ HandOwned'
  BY <1>1, <1>2 DEF Owned, QueueOwned, HandOwned
<1>4. ASSUME NEW m \in Arrived PROVE RightOwner(m)'
  <2>1. Given(m)' <=> Given(m)
    BY <1>1 DEF Given
  <2>2. Waiting(m) => Waiting(m)' \/ m = message
    <3> SUFFICES ASSUME NEW i \in DOMAIN receive_queue, receive_queue[i] = m, m # message
                 PROVE  Waiting(m)'
      BY DEF Waiting
    <3>1. i > 1
      BY <1>1, <1>2, MessageInHand
    <3>2. i - 1 \in DOMAIN receive_queue' /\ receive_queue'[i - 1] = m
      BY <1>2, <3>1
    <3> QED BY <3>2 DEF Waiting
  <2>3. listener => owner[message] \in {"application", "freed"}
    BY <1>1 DEF Owned, HandOwned
  <2> QED BY <1>1, <2>1, <2>2, <2>3 DEF Owned, RightOwner
<1> QED BY <1>1, <1>3, <1>4 DEF Owned

LEMMA OthersOwned ==
  ASSUME OInv,
         (\E m \in Arrived : Reply(m) \/ FreeMessage(m)) \/ Send \/ Crashes \/ UNCHANGED vars
  PROVE  Owned' /\ ~fault'
<1> USE DEF OInv
<1>1. UNCHANGED <<listener, kind, receive_queue, pc, message, delivered, fault>>
  BY CrashesCrash DEF Reply, FreeMessage, Send, Crash, vars
<1>2. CASE owner' = owner
  BY <1>1, <1>2, SameOwned DEF QInv, Types, Owned, HandOwned
<1>3. ASSUME NEW f \in Arrived, FreeMessage(f) PROVE Owned'
  <2>1. owner[f] = "application" /\ owner' = [owner EXCEPT ![f] = "freed"]
    BY <1>3 DEF FreeMessage
  <2>2. \A a \in Arrived : owner'[a] = IF a = f THEN "freed" ELSE owner[a]
    BY <2>1 DEF QInv, Types
  <2>3. QueueOwned'
    <3>1. \A i \in DOMAIN receive_queue : receive_queue[i] \in Arrived
      BY DEF QInv, OnlyArrived
    <3> QED BY <1>1, <2>1, <2>2, <3>1 DEF Owned, QueueOwned
  <2>4. HandOwned'
    BY <1>1, <2>2, MessageInHand DEF Owned, HandOwned
  <2>5. \A m \in Arrived : RightOwner(m)'
    <3>1. \A m \in Arrived : (Given(m)' <=> Given(m)) /\ (Waiting(m)' <=> Waiting(m))
      BY <1>1 DEF Given, Waiting
    <3> QED BY <1>1, <2>1, <2>2, <3>1 DEF Owned, RightOwner
  <2> QED BY <1>1, <2>3, <2>4, <2>5 DEF Owned
<1> QED BY <1>1, <1>2, <1>3, CrashesCrash DEF Reply, Send, Crash, vars

LEMMA StepOInv == OInv /\ [Next]_vars => OInv'
BY StepQInv, ArriveOwned, TakeOwned, DecryptParseOwned, AnswerOwned, DeliverOwned,
   DeleteOwned, OthersOwned DEF OInv, Next, Crashes
-----------------------------------------------------------------------------
(* What the steps establish.                                               *)

RInv == OInv /\ HandKnown /\ NotAnswered /\ NullsFromEmpty /\ MemorySafe

LEMMA RequestUsable ==
  ASSUME NEW k
  PROVE  /\ Request(k).usable <=>
              /\ k.class # "auth"
              /\ bAES128Used /\ k.encrypted => k.body \notin Undecipherable
              /\ k.class \in Firmware => k.body = "json" /\ (k.encrypted => bAES128Used)
         /\ Request(k).asks <=> k.class \in NeedsAnswer
         /\ Request(k) \in [asks : BOOLEAN, usable : BOOLEAN]
<1>1. /\ Request(k).usable = (/\ k.class # "auth"
                              /\ bAES128Used /\ k.encrypted => k.body \notin Undecipherable
                              /\ k.class \in Firmware =>
                                   k.body = "json" /\ (k.encrypted => bAES128Used))
      /\ Request(k).asks = (k.class \in NeedsAnswer)
  BY DEF Request
<1>2. Request(k) \in [asks : BOOLEAN, usable : BOOLEAN]
  BY DEF Request
<1> QED BY <1>1, <1>2

\* The message in hand stays the one it was when others arrive.
LEMMA ArriveKnown ==
  ASSUME RInv, NEW k \in Kind, Arrive(k)
  PROVE  HandKnown' /\ NotAnswered' /\ NullsFromEmpty' /\ MemorySafe'
<1> USE DEF RInv, OInv
<1>1. PICK m \in Nat : m = Len(kind) + 1
  BY DEF QInv, Types
<1>2. /\ kind' = Append(kind, k) /\ running /\ running' = running
      /\ UNCHANGED <<out, pc, message, deciphered, fault>>
  BY DEF Arrive
<1>3. /\ Len(kind') = m /\ m \notin Arrived /\ Arrived \subseteq Arrived'
      /\ \A a \in Arrived : kind'[a] = kind[a]
  BY <1>1, <1>2 DEF QInv, Types
<1>4. HandKnown'
  <2>1. pc # "loop" => The' = The
    BY <1>2, <1>3, MessageInHand DEF The
  <2> QED BY <1>2, <2>1 DEF HandKnown, MustDecrypt, out
<1>5. NotAnswered'
  <2>1. CASE receive_queue' = receive_queue
    BY <1>2, <2>1 DEF NotAnswered, out
  <2>2. CASE receive_queue' = Append(receive_queue, m)
    <3>1. \A i \in DOMAIN receive_queue : receive_queue[i] < m
      BY <1>1 DEF QInv, Types, OnlyArrived
    <3>2. /\ receive_queue'[Len(receive_queue) + 1] = m
          /\ \A i \in DOMAIN receive_queue : receive_queue'[i] = receive_queue[i]
          /\ DOMAIN receive_queue' = 1 .. Len(receive_queue) + 1
          /\ DOMAIN receive_queue = 1 .. Len(receive_queue) /\ Len(receive_queue) \in Nat
      BY <2>2, <3>1, AppendIncreasing
    <3>3. m \notin answered
      BY <1>3 DEF QInv, OnlyArrived
    <3> QED BY <1>2, <3>2, <3>3 DEF NotAnswered, out
  <2> QED BY <1>1, <2>1, <2>2 DEF Arrive, Accept
<1>6. NullsFromEmpty'
  BY <1>2, <1>3 DEF NullsFromEmpty, out
<1>7. MemorySafe'
  BY <1>2, Zenon DEF MemorySafe
<1> QED BY <1>4, <1>5, <1>6, <1>7

LEMMA TakeKnown == ASSUME RInv, Take PROVE HandKnown' /\ NotAnswered'
<1> USE DEF RInv, OInv
<1>1. /\ pc = "loop" /\ message' = Head(receive_queue)
      /\ UNCHANGED <<kind, receive_queue, out>>
      /\ \/ pc' = "delete"
         \/ pc' = "decrypt" /\ kind[Head(receive_queue)].class # "auth"
  BY DEF Take, Goto
<1> QED BY <1>1 DEF HandKnown, NotAnswered, The, out

LEMMA DecryptKnown == ASSUME RInv, Decrypt PROVE HandKnown' /\ NotAnswered'
<1> USE DEF RInv, OInv
<1>1. /\ pc = "decrypt" /\ UNCHANGED <<kind, receive_queue, out, message>>
      /\ The' = The /\ (MustDecrypt' <=> MustDecrypt)
  BY DEF Decrypt, The, MustDecrypt
<1>2. \/ pc' = "delete"
      \/ /\ pc' = "parse" /\ (MustDecrypt => Deciphers)
         /\ deciphered' <=> Deciphers
  BY DEF Decrypt, Goto
<1>3. The.class # "auth"
  BY <1>1 DEF HandKnown
<1>4. NotAnswered'
  BY <1>1, <1>2 DEF NotAnswered, out
<1>5. CASE pc' = "delete"
  BY <1>4, <1>5 DEF HandKnown
<1>6. CASE pc' = "parse"
  <2>1. bAES128Used /\ The.encrypted => The.body \notin Undecipherable
    BY <1>2, <1>6 DEF MustDecrypt, Deciphers, Undecipherable
  <2>2. deciphered' <=> MustDecrypt'
    BY <1>1, <1>2, <1>6 DEF Deciphers
  <2> QED BY <1>1, <1>3, <1>4, <1>6, <2>1, <2>2 DEF HandKnown
<1> QED BY <1>2, <1>5, <1>6

LEMMA ParseKnown == ASSUME RInv, Parse PROVE HandKnown' /\ NotAnswered'
<1> USE DEF RInv, OInv
<1>1. /\ pc = "parse" /\ UNCHANGED <<kind, receive_queue, out, message, deciphered>>
      /\ The' = The
  BY DEF Parse, The
<1>2. \/ pc' = "delete"
      \/ /\ pc' = "answer"
         /\ The.class \in Firmware => IsJson /\ ~HasNullField
  BY DEF Parse, Goto
<1>3. NotAnswered'
  BY <1>1, <1>2 DEF NotAnswered, out
<1>4. CASE pc' = "delete"
  BY <1>3, <1>4 DEF HandKnown
<1>5. CASE pc' = "answer"
  <2>1. /\ The.class # "auth"
        /\ bAES128Used /\ The.encrypted => The.body \notin Undecipherable
        /\ deciphered <=> MustDecrypt
    BY <1>1 DEF HandKnown
  <2>2. Request(The).usable
    BY <1>2, <1>5, <2>1, RequestUsable DEF IsJson, HasNullField, MustDecrypt
  <2> QED BY <1>1, <1>3, <1>5, <2>1, <2>2 DEF HandKnown
<1> QED BY <1>2, <1>4, <1>5

LEMMA AnswerKnown == ASSUME RInv, Answer PROVE HandKnown' /\ NotAnswered'
<1> USE DEF RInv, OInv
<1>1. /\ pc = "answer" /\ pc' = "deliver"
      /\ UNCHANGED <<kind, receive_queue, message>> /\ The' = The
      /\ The.class \in NeedsAnswer => answered' = answered \cup {message}
      /\ The.class \notin NeedsAnswer => answered' = answered
  BY DEF Answer, Goto, The
<1>2. NotAnswered'
  BY <1>1, HandOnce DEF NotAnswered
<1>3. HandKnown'
  BY <1>1 DEF HandKnown
<1> QED BY <1>2, <1>3

LEMMA DeleteKnown == ASSUME RInv, Delete PROVE HandKnown' /\ NotAnswered'
<1> USE DEF RInv, OInv
<1>1. /\ receive_queue' = Tail(receive_queue) /\ pc' = "loop" /\ pc = "delete"
      /\ UNCHANGED out
  BY DEF Delete, Goto
<1>2. /\ DOMAIN receive_queue' = 1 .. Len(receive_queue) - 1
      /\ DOMAIN receive_queue = 1 .. Len(receive_queue) /\ Len(receive_queue) \in Nat \ {0}
      /\ \A i \in 1 .. Len(receive_queue) - 1 : receive_queue'[i] = receive_queue[i + 1]
  BY <1>1, TailIncreasing DEF QInv, InHand
<1>3. NotAnswered'
  BY <1>1, <1>2 DEF NotAnswered, out
<1> QED BY <1>1, <1>3 DEF HandKnown

\* The steps that neither touch the queue nor start on a message.
LEMMA OtherKnown ==
  ASSUME RInv,
         \/ Deliver \/ NoListener \/ ListenerReturns
         \/ \E m \in Arrived : Reply(m) \/ FreeMessage(m)
         \/ Send \/ Crashes \/ UNCHANGED vars
  PROVE  HandKnown' /\ NotAnswered'
<1> USE DEF RInv, OInv
<1>1. /\ UNCHANGED <<kind, receive_queue, answered, message, deciphered>>
      /\ The' = The /\ pc' \in {pc, "listener", "delete"}
  BY CrashesCrash DEF Deliver, NoListener, ListenerReturns, Reply, FreeMessage, Send, Crash,
         vars, out, Goto, The
<1> QED BY <1>1 DEF HandKnown, NotAnswered, MustDecrypt

\* What is put on the send queue is no null pointer but for an empty noti request.
LEMMA NullsStep ==
  ASSUME RInv, [Next]_vars, ~\E k \in Kind : Arrive(k)
  PROVE  NullsFromEmpty'
<1> USE DEF RInv, OInv
<1>1. kind' = kind
  BY CrashesCrash DEF Next, Take, Decrypt, Parse, Answer, Deliver, NoListener,
         ListenerReturns, Delete, Reply, FreeMessage, Send, Crashes, Crash, vars
<1>2. CASE send_queue' = send_queue
  BY <1>1, <1>2 DEF NullsFromEmpty
<1>3. ASSUME NEW item \in Item, send_queue' = Append(send_queue, item),
             item.what = "null" => \E m \in Arrived : Fatal(kind[m])
      PROVE  NullsFromEmpty'
  <2>1. /\ send_queue'[Len(send_queue) + 1] = item
        /\ \A i \in DOMAIN send_queue : send_queue'[i] = send_queue[i]
        /\ DOMAIN send_queue' = 1 .. Len(send_queue) + 1
        /\ DOMAIN send_queue = 1 .. Len(send_queue) /\ Len(send_queue) \in Nat
    <3>1. send_queue \in Seq(Item)
      BY DEF QInv, Types
    <3> QED BY <1>3, <3>1
  <2> QED BY <1>1, <1>3, <2>1 DEF NullsFromEmpty
<1>4. CASE send_queue # <<>> /\ send_queue' = Tail(send_queue)
  <2>1. \A i \in DOMAIN send_queue' :
          i + 1 \in DOMAIN send_queue /\ send_queue'[i] = send_queue[i + 1]
    <3>1. send_queue \in Seq(Item)
      BY DEF QInv, Types
    <3> QED BY <1>4, <3>1
  <2> QED BY <1>1, <2>1 DEF NullsFromEmpty
<1>5. CASE Answer
  <2> DEFINE item == [what |-> Built, to |-> message]
  <2>1. item \in Item /\ item.what = Built
    BY <1>5, MessageInHand DEF Answer, Item, Built
  <2>2. Built = "null" => Fatal(The)
    BY <1>5, RequestUsable DEF Answer, Built, HandKnown, Undecipherable, Fatal
  <2>4. message \in Arrived /\ The = kind[message]
    BY <1>5, MessageInHand DEF Answer, The
  <2>3. send_queue' = send_queue \/ send_queue' = Append(send_queue, item)
    BY <1>5 DEF Answer, SendQueueAdd
  <2> HIDE DEF item
  <2> QED BY <1>2, <1>3, <2>1, <2>2, <2>3, <2>4
<1>6. ASSUME NEW m \in Arrived, Reply(m) PROVE NullsFromEmpty'
  <2> DEFINE item == [what |-> "reply", to |-> m]
  <2>1. item \in Item /\ item.what # "null"
    BY DEF Item, QInv, Types
  <2>2. send_queue' = send_queue \/ send_queue' = Append(send_queue, item)
    BY <1>6 DEF Reply, SendQueueAdd
  <2> HIDE DEF item
  <2> QED BY <1>2, <1>3, <2>1, <2>2
<1>7. CASE Send
  BY <1>4, <1>7 DEF Send
<1>8. CASE \/ Take \/ Decrypt \/ Parse \/ Deliver \/ NoListener
           \/ ListenerReturns \/ Delete \/ Crashes \/ UNCHANGED vars
           \/ \E m \in Arrived : FreeMessage(m)
  BY <1>2, <1>8, CrashesCrash DEF Take, Decrypt, Parse, Deliver, NoListener,
         ListenerReturns, Delete, Crash, FreeMessage, vars, out
<1> QED BY <1>5, <1>6, <1>7, <1>8 DEF Next, Crashes

LEMMA MemoryStep ==
  ASSUME RInv, [Next]_vars, ~\E k \in Kind : Arrive(k), ~fault'
  PROVE  MemorySafe'
<1> USE DEF RInv, OInv
<1>1. kind' = kind
  BY CrashesCrash DEF Next, Take, Decrypt, Parse, Answer, Deliver, NoListener,
         ListenerReturns, Delete, Reply, FreeMessage, Send, Crashes, Crash, vars
<1>2. CASE running' = running
  BY <1>1, <1>2 DEF MemorySafe
<1>3. CASE AnswerWithoutBody \/ ParseNullField
  <2>1. message \in Arrived /\ The = kind[message]
    BY <1>3, MessageInHand DEF AnswerWithoutBody, ParseNullField, The
  <2>2. ASSUME AnswerWithoutBody PROVE Fatal(The)
    BY <2>2 DEF AnswerWithoutBody, Fatal
  <2>3. ASSUME ParseNullField PROVE Fatal(The)
    <3>1. HasNullField /\ (deciphered <=> MustDecrypt)
      BY <2>3 DEF ParseNullField, HandKnown
    <3> QED BY <3>1 DEF HasNullField, IsJson, MustDecrypt, Fatal
  <2>4. Fatal(The)
    BY <1>3, <2>2, <2>3
  <2> QED BY <1>1, <2>1, <2>4 DEF MemorySafe
<1>4. CASE TakeWithoutBody
  <2>1. Head(receive_queue) \in Arrived
    BY <1>4 DEF TakeWithoutBody, QInv, Types, OnlyArrived
  <2>2. Fatal(kind[Head(receive_queue)])
    BY <1>4 DEF TakeWithoutBody, Oldest, Fatal
  <2> QED BY <1>1, <2>1, <2>2 DEF MemorySafe
<1>5. CASE SendNull
  <2>1. 1 \in DOMAIN send_queue /\ send_queue[1].what = "null"
    BY <1>5 DEF SendNull, QInv, Types
  <2>2. \E m \in Arrived : Fatal(kind[m])
    BY <2>1 DEF NullsFromEmpty
  <2> QED BY <1>1, <2>2 DEF MemorySafe
<1> QED BY <1>2, <1>3, <1>4, <1>5
        DEF Next, Take, Decrypt, Parse, Answer, Deliver, NoListener, ListenerReturns,
            Delete, Reply, FreeMessage, Send, vars

LEMMA StepRInv == RInv /\ [Next]_vars => RInv'
<1> SUFFICES ASSUME RInv, [Next]_vars PROVE RInv'
  OBVIOUS
<1>1. OInv'
  BY StepOInv DEF RInv
<1>2. CASE \E k \in Kind : Arrive(k)
  BY <1>1, <1>2, ArriveKnown DEF RInv
<1>3. CASE ~\E k \in Kind : Arrive(k)
  <2>1. NullsFromEmpty' /\ MemorySafe'
    BY <1>1, <1>3, NullsStep, MemoryStep DEF OInv
  <2>2. HandKnown' /\ NotAnswered'
    BY <1>3, TakeKnown, DecryptKnown, ParseKnown, AnswerKnown, DeleteKnown, OtherKnown
    DEF Next, Crashes
  <2> QED BY <1>1, <2>1, <2>2 DEF RInv
<1> QED BY <1>2, <1>3

LEMMA SpecRInv == Spec => []RInv
<1>1. Init => RInv
  <2> SUFFICES ASSUME Init PROVE RInv
    OBVIOUS
  <2>1. Owned
    BY DEF Init, Owned, QueueOwned, HandOwned
  <2>2. HandKnown /\ NotAnswered /\ NullsFromEmpty
    BY DEF Init, HandKnown, NotAnswered, NullsFromEmpty
  <2>3. ~fault /\ MemorySafe
    BY DEF Init, MemorySafe
  <2> QED BY InitQInv, <2>1, <2>2, <2>3 DEF RInv, OInv
<1> QED BY <1>1, StepRInv, PTL DEF Spec

\* No message is used after it was freed or given away, whenever the application
\* frees what it was given; and no null pointer is followed but for the kinds in
\* Fatal: an authorization response or noti request without its body, an upgradeId
\* or uploadUri that is not a string (IotClient.c:1385-1386, 1412-1415, 1503,
\* 1561-1705).
THEOREM ReceiverMemorySafe == Spec => []MemorySafe
<1>1. RInv => MemorySafe
  BY DEF RInv
<1> QED BY <1>1, SpecRInv, PTL

\* With a listener set, each message that has left the receive queue was freed or
\* given to the application, never both by the client.
THEOREM ReceiverAccounted == Spec => []EveryMessageAccounted
<1>1. RInv => EveryMessageAccounted
  BY DEF RInv, OInv, Owned, RightOwner, EveryMessageAccounted
<1> QED BY <1>1, SpecRInv, PTL
-----------------------------------------------------------------------------
(* Refinement of Service: what its variables are here, and what each step    *)
(* of Receiver does to them.                                                 *)

Requests == [m \in Arrived |-> Request(kind[m])]
Unsettled == IF pc \in {"listener", "delete"} THEN Tail(receive_queue) ELSE receive_queue
Out == Leaving(sent \o send_queue)

\* An item added behind a null pointer, or that is one, leaves as little as the
\* item add_queue drops.
LEMMA LeavingAppend ==
  ASSUME NEW q \in Seq(Item), NEW x \in Item
  PROVE  /\ Leaving(Append(q, x)) \in {Leaving(q), Append(Leaving(q), x)}
         /\ x.what = "null" => Leaving(Append(q, x)) = Leaving(q)
<1> DEFINE t == Append(q, x)
<1>1. /\ DOMAIN t = 1 .. Len(q) + 1 /\ DOMAIN q = 1 .. Len(q) /\ Len(q) \in Nat
      /\ t[Len(q) + 1] = x /\ \A i \in 1 .. Len(q) : t[i] = q[i]
  OBVIOUS
<1>0. t \in Seq(Item)
  OBVIOUS
<1> HIDE DEF t
<1> DEFINE prefix(s) == {k \in DOMAIN s : \A j \in 1 .. k : s[j].what # "null"}
<1>2. Leaving(t) = [i \in prefix(t) |-> t[i]] /\ Leaving(q) = [i \in prefix(q) |-> q[i]]
  BY DEF Leaving
<1>3. CASE x.what = "null" \/ \E i \in 1 .. Len(q) : q[i].what = "null"
  <2>1. prefix(t) = prefix(q)
    BY <1>1, <1>3
  <2>2. \A i \in prefix(q) : t[i] = q[i]
    BY <1>1
  <2> QED BY <1>2, <2>1, <2>2 DEF t
<1>4. CASE x.what # "null" /\ \A i \in 1 .. Len(q) : q[i].what # "null"
  <2>1. prefix(q) = 1 .. Len(q) /\ prefix(t) = 1 .. Len(q) + 1
    BY <1>1, <1>4
  <2>2. Leaving(q) = q
    BY <1>2, <2>1
  <2>3. Leaving(t) = t
    <3>1. t = [i \in 1 .. Len(q) + 1 |-> t[i]]
      BY <1>1, <1>0
    <3> QED BY <1>2, <2>1, <3>1
  <2> QED BY <1>4, <2>2, <2>3 DEF t
<1> QED BY <1>3, <1>4

\* add_queue(send_queue, item), as Service sees it.
LEMMA OutAdd ==
  ASSUME sent \in Seq(Item), send_queue \in Seq(Item), NEW item \in Item,
         SendQueueAdd(item), sent' = sent
  PROVE  /\ Out' \in {Out, Append(Out, item)}
         /\ item.what = "null" => Out' = Out
<1>1. CASE send_queue' = send_queue
  BY <1>1 DEF Out
<1>2. CASE send_queue' = Append(send_queue, item)
  <2>1. sent \o Append(send_queue, item) = Append(sent \o send_queue, item)
    OBVIOUS
  <2>2. sent \o send_queue \in Seq(Item)
    OBVIOUS
  <2> QED BY <1>2, <2>1, <2>2, LeavingAppend DEF Out
<1> QED BY <1>1, <1>2 DEF SendQueueAdd

\* thread_sender changes nothing of what leaves, nor of its order.
LEMMA OutSend ==
  ASSUME sent \in Seq(Item), send_queue \in Seq(Item), send_queue # <<>>,
         sent' = Append(sent, Head(send_queue)), send_queue' = Tail(send_queue)
  PROVE  Out' = Out
<1> DEFINE l == Append(sent, Head(send_queue)) \o Tail(send_queue)
           r == sent \o send_queue
<1>1. l = r
  <2>1. /\ Head(send_queue) = send_queue[1] /\ Head(send_queue) \in Item
        /\ Tail(send_queue) \in Seq(Item) /\ Len(Tail(send_queue)) = Len(send_queue) - 1
        /\ \A i \in 1 .. Len(Tail(send_queue)) : Tail(send_queue)[i] = send_queue[i + 1]
    OBVIOUS
  <2>2. l \in Seq(Item) /\ r \in Seq(Item) /\ Len(l) = Len(r)
    BY <2>1
  <2>3. ASSUME NEW i \in 1 .. Len(l) PROVE l[i] = r[i]
    BY <2>1, <2>2
  <2> QED BY <2>2, <2>3
<1> QED BY <1>1 DEF Out

\* A step that only Receiver sees.
LEMMA Hidden ==
  ASSUME UNCHANGED <<running, listener, kind, answered, delivered, replied>>,
         Unsettled' = Unsettled, Out' = Out
  PROVE  UNCHANGED S!svars
BY DEF S!svars, Unsettled, Out

\* The message in hand cannot be used: it was not answered, and it goes.
LEMMA Dropped ==
  ASSUME RInv, running, receive_queue # <<>>, pc \in {"loop", "decrypt", "parse"},
         ~Request(kind[receive_queue[1]]).usable, pc' = "delete",
         UNCHANGED <<running, listener, kind, receive_queue, out, delivered>>
  PROVE  S!Drop
<1>1. 1 \in DOMAIN receive_queue /\ Head(receive_queue) = receive_queue[1]
  BY DEF RInv, OInv, QInv, Types
<1>2. /\ receive_queue[1] \in Arrived /\ receive_queue[1] \notin answered
  BY <1>1 DEF RInv, OInv, QInv, OnlyArrived, NotAnswered
<1>3. Unsettled = receive_queue /\ Unsettled' = Tail(receive_queue)
  BY DEF Unsettled
<1>4. Out' = Out
  BY DEF Out, out
<1> QED BY <1>1, <1>2, <1>3, <1>4 DEF S!Drop, Unsettled, Out, out

\* An append, as the function it is.
LEMMA AppendIsFunction ==
  ASSUME NEW Elem, NEW s \in Seq(Elem), NEW x \in Elem, NEW m \in Nat, m = Len(s) + 1
  PROVE  Append(s, x) = [a \in 1 .. m |-> IF a = m THEN x ELSE s[a]]
<1> DEFINE t == Append(s, x)
<1>1. /\ t \in Seq(Elem) /\ Len(t) = m /\ t[m] = x
      /\ \A a \in 1 .. m : a # m => t[a] = s[a]
  OBVIOUS
<1> HIDE DEF t
<1>2. t = [a \in 1 .. m |-> t[a]]
  BY <1>1
<1>3. \A a \in 1 .. m : t[a] = IF a = m THEN x ELSE s[a]
  BY <1>1
<1> QED BY <1>2, <1>3 DEF t

LEMMA ArriveRefines ==
  ASSUME RInv, NEW k \in Kind, Arrive(k)
  PROVE  S!Arrive(Request(k))
<1> USE DEF RInv, OInv, QInv
<1>1. PICK m \in Nat : m = Len(kind) + 1
  BY DEF Types
<1>2. /\ running /\ kind' = Append(kind, k)
      /\ UNCHANGED <<running, listener, out, pc, delivered>>
  BY DEF Arrive
<1>3. Requests' = Append(Requests, Request(k)) /\ Len(Requests) + 1 = m
  <2>1. /\ Len(kind') = m /\ kind'[m] = k /\ \A a \in Arrived : kind'[a] = kind[a]
        /\ Len(kind) \in Nat
    BY <1>1, <1>2 DEF Types
  <2>2. Requests \in Seq([asks : BOOLEAN, usable : BOOLEAN]) /\ Len(Requests) = Len(kind)
    <3>1. \A a \in 1 .. Len(kind) : Request(kind[a]) \in [asks : BOOLEAN, usable : BOOLEAN]
      BY RequestUsable
    <3> QED BY <2>1, <3>1 DEF Requests
  <2>3. Request(k) \in [asks : BOOLEAN, usable : BOOLEAN]
    BY RequestUsable
  <2>4. Append(Requests, Request(k)) =
          [a \in 1 .. m |-> IF a = m THEN Request(k) ELSE Requests[a]]
    <3> DEFINE Rec == [asks : BOOLEAN, usable : BOOLEAN]
    <3>1. Requests \in Seq(Rec) /\ Request(k) \in Rec /\ m = Len(Requests) + 1
      BY <1>1, <2>2, <2>3
    <3> HIDE DEF Rec
    <3> QED BY <3>1, AppendIsFunction
  <2>5. Requests' = [a \in 1 .. m |-> Request(kind'[a])]
    BY <2>1 DEF Requests
  <2>6. \A a \in 1 .. m : Request(kind'[a]) = IF a = m THEN Request(k) ELSE Requests[a]
    BY <1>1, <2>1 DEF Requests
  <2> QED BY <1>1, <2>1, <2>2, <2>4, <2>5, <2>6
<1>4. Unsettled' \in {Unsettled, Append(Unsettled, m)}
  <2>1. CASE receive_queue' = receive_queue
    BY <1>2, <2>1 DEF Unsettled
  <2>2. CASE receive_queue' = Append(receive_queue, m)
    <3>1. receive_queue \in Seq(Nat) /\ (pc # "loop" => receive_queue # <<>>)
      BY DEF Types, InHand
    <3>2. receive_queue # <<>> => Tail(Append(receive_queue, m)) = Append(Tail(receive_queue), m)
      BY <3>1
    <3> QED BY <1>2, <2>2, <3>1, <3>2 DEF Unsettled
  <2> QED BY <1>1, <2>1, <2>2 DEF Arrive, Accept
<1> QED BY <1>2, <1>3, <1>4 DEF S!Arrive, Requests, Unsettled, out

LEMMA TakeRefines == ASSUME RInv, Take PROVE S!Drop \/ UNCHANGED S!svars
<1>1. /\ running /\ pc = "loop" /\ receive_queue # <<>>
      /\ Head(receive_queue) = receive_queue[1]
      /\ UNCHANGED <<running, listener, kind, receive_queue, out, delivered>>
  BY DEF Take, RInv, OInv, QInv, Types
<1>2. CASE kind[receive_queue[1]].class = "auth" /\ pc' = "delete"
  BY <1>1, <1>2, Dropped, RequestUsable
<1>3. CASE pc' = "decrypt"
  <2>1. Unsettled' = Unsettled /\ Out' = Out
    BY <1>1, <1>3 DEF Unsettled, Out, out
  <2> QED BY <1>1, <2>1, Hidden DEF out
<1> QED BY <1>1, <1>2, <1>3 DEF Take, Goto

LEMMA DecryptParseRefines ==
  ASSUME RInv, Decrypt \/ Parse
  PROVE  S!Drop \/ UNCHANGED S!svars
<1>1. /\ running /\ pc \in {"decrypt", "parse"}
      /\ UNCHANGED <<running, listener, kind, receive_queue, out, delivered>>
  BY DEF Decrypt, Parse
<1>2. receive_queue # <<>> /\ message = receive_queue[1] /\ The = kind[receive_queue[1]]
  BY <1>1 DEF RInv, OInv, QInv, InHand, The
<1>3. CASE pc' = "delete"
  <2>1. \/ MustDecrypt /\ The.body \in Undecipherable
        \/ pc = "parse" /\ ~IsJson /\ The.class \in Firmware
    BY <1>3 DEF Decrypt, Deciphers, Parse, Goto
  <2>2. ~Request(The).usable
    BY <2>1, RequestUsable DEF RInv, HandKnown, IsJson, MustDecrypt
  <2> QED BY <1>1, <1>2, <1>3, <2>2, Dropped
<1>4. CASE pc' \in {"parse", "answer"}
  <2>1. Unsettled' = Unsettled /\ Out' = Out
    BY <1>1, <1>4 DEF Unsettled, Out, out
  <2> QED BY <1>1, <2>1, Hidden DEF out
<1> QED BY <1>3, <1>4 DEF Decrypt, Parse, Goto

LEMMA AnswerRefines == ASSUME RInv, Answer PROVE S!Answer \/ UNCHANGED S!svars
<1> USE DEF RInv, OInv, QInv
<1>1. /\ running /\ pc = "answer" /\ pc' = "deliver"
      /\ UNCHANGED <<running, listener, kind, receive_queue, sent, replied, delivered>>
  BY DEF Answer, Goto
<1>2. /\ 1 \in DOMAIN receive_queue /\ receive_queue # <<>>
      /\ Head(receive_queue) = message /\ receive_queue[1] = message
      /\ message \in Arrived /\ The = kind[message]
  BY <1>1, MessageInHand DEF Types, InHand, The
<1>3. Unsettled = receive_queue /\ Unsettled' = receive_queue
  BY <1>1 DEF Unsettled
<1>4. CASE The.class \notin NeedsAnswer
  <2>1. UNCHANGED <<send_queue, answered>>
    BY <1>4 DEF Answer
  <2>2. Out' = Out
    BY <1>1, <2>1 DEF Out
  <2> QED BY <1>1, <1>3, <2>1, <2>2, Hidden
<1>5. CASE The.class \in NeedsAnswer
  <2> DEFINE item == [what |-> Built, to |-> message]
  <2>1. /\ SendQueueAdd(item) /\ answered' = answered \cup {message}
    BY <1>5 DEF Answer
  <2>2. item \in Item /\ item.what = Built /\ (Built # "null" => item = [what |-> "answer", to |-> message])
    BY <1>2 DEF Item, Built, Types
  <2>3. Out' \in {Out, Append(Out, [what |-> "answer", to |-> message])}
    BY <1>1, <2>1, <2>2, OutAdd DEF Types
  <2>4. Requests[message].asks /\ Requests[message].usable /\ message \notin answered
    BY <1>1, <1>2, <1>5, RequestUsable DEF Requests, HandKnown, NotAnswered
  <2> HIDE DEF item
  <2> QED BY <1>1, <1>2, <1>3, <2>1, <2>3, <2>4
          DEF S!Answer, S!Emit, Requests, Unsettled, Out
<1> QED BY <1>4, <1>5

\* Deliver and NoListener: the message is given, or nobody is there to take it.
LEMMA DeliverRefines == ASSUME RInv, Deliver \/ NoListener PROVE S!Give
<1> USE DEF RInv, OInv, QInv
<1>1. /\ running /\ pc = "deliver" /\ pc' \in {"listener", "delete"}
      /\ UNCHANGED <<running, listener, kind, receive_queue, out>>
      /\ delivered' = IF listener THEN Append(delivered, message) ELSE delivered
  BY DEF Deliver, NoListener, Goto
<1>2. /\ receive_queue # <<>> /\ Head(receive_queue) = message
      /\ message \in Arrived /\ The = kind[message]
  BY <1>1, MessageInHand DEF Types, InHand, The
<1>3. Unsettled = receive_queue /\ Unsettled' = Tail(receive_queue) /\ Out' = Out
  BY <1>1 DEF Unsettled, Out, out
<1>4. Requests[message].usable /\ (Requests[message].asks => message \in answered)
  BY <1>1, <1>2, RequestUsable DEF Requests, HandKnown
<1> QED BY <1>1, <1>2, <1>3, <1>4 DEF S!Give, Requests, Unsettled, Out, out

LEMMA ReplyRefines == ASSUME RInv, NEW m \in Arrived, Reply(m) PROVE S!React(m)
<1> USE DEF RInv, OInv, QInv
<1>1. /\ running /\ m \notin replied /\ replied' = replied \cup {m} /\ Given(m)
      /\ SendQueueAdd([what |-> "reply", to |-> m])
      /\ UNCHANGED <<running, listener, kind, receive_queue, sent, answered, pc, delivered>>
  BY DEF Reply
<1>2. [what |-> "reply", to |-> m] \in Item
  BY DEF Item, Types
<1>3. Out' \in {Out, Append(Out, [what |-> "reply", to |-> m])}
  BY <1>1, <1>2, OutAdd DEF Types
<1> QED BY <1>1, <1>3 DEF S!React, S!Emit, Given, Out

\* The process ends.
LEMMA EndRefines == ASSUME Crashes PROVE S!End
BY CrashesCrash DEF Crash, S!End, out

\* What only Receiver sees: nodes, owners and the send queue.
LEMMA InnerRefines ==
  ASSUME RInv,
         \/ ListenerReturns \/ Delete \/ Send \/ UNCHANGED vars
         \/ \E m \in Arrived : FreeMessage(m)
  PROVE  UNCHANGED S!svars
<1> USE DEF RInv, OInv, QInv
<1>1. UNCHANGED <<running, listener, kind, answered, delivered, replied>>
  BY DEF ListenerReturns, Delete, Send, FreeMessage, vars, out
<1>2. Unsettled' = Unsettled
  BY DEF ListenerReturns, Delete, Send, FreeMessage, vars, Goto, Unsettled
<1>3. Out' = Out
  <2>1. CASE Send
    BY <2>1, OutSend DEF Send, Types
  <2>2. CASE UNCHANGED out
    BY <2>2 DEF Out, out
  <2> QED BY <2>1, <2>2 DEF ListenerReturns, Delete, FreeMessage, vars
<1> QED BY <1>1, <1>2, <1>3, Hidden

\* thread_receiver, with the library that hands in messages, thread_sender that
\* takes answers away and the application that replies and frees, implements
\* Service: usable messages are given in the order of arrival, each once, after
\* their answer was made; the others are neither answered nor given; answers leave
\* in order (IotClient.c:1490-1716).
THEOREM ReceiverImplementsService == Spec => ServiceSpec
<1>1. Init => S!Init
  <2> SUFFICES ASSUME Init PROVE S!Init
    OBVIOUS
  <2>1. Requests = <<>>
    BY DEF Init, Requests
  <2>2. Unsettled = <<>>
    BY DEF Init, Unsettled
  <2>3. Out = <<>>
    <3>1. sent \o send_queue = <<>>
      BY DEF Init
    <3> QED BY <3>1 DEF Out, Leaving
  <2> QED BY <2>1, <2>2, <2>3 DEF Init, S!Init, Requests, Unsettled, Out
<1>2. RInv /\ [Next]_vars => [S!Next]_(S!svars)
  <2> SUFFICES ASSUME RInv, [Next]_vars PROVE [S!Next]_(S!svars)
    OBVIOUS
  <2>1. ASSUME NEW k \in Kind, Arrive(k) PROVE S!Next
    <3>1. Request(k) \in S!Request
      BY RequestUsable DEF S!Request
    <3> QED BY <2>1, <3>1, ArriveRefines DEF S!Next
  <2>2. ASSUME NEW m \in Arrived, Reply(m) PROVE S!Next
    <3>1. m \in DOMAIN Requests
      BY DEF Requests
    <3> QED BY <2>2, <3>1, ReplyRefines DEF S!Next, Requests
  <2> QED BY <2>1, <2>2, TakeRefines, DecryptParseRefines, AnswerRefines, DeliverRefines,
             EndRefines, InnerRefines
          DEF Next, Crashes, S!Next
<1> QED BY <1>1, <1>2, SpecRInv, PTL DEF Spec, ServiceSpec, S!Spec
=============================================================================
