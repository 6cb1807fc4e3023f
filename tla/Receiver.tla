------------------------------ MODULE Receiver ------------------------------
(***************************************************************************)
(* thread_receiver of src/sdk/iotclient/IotClient.c: it takes the oldest   *)
(* message of the receive queue through decryption, parsing and the answer *)
(* some of them require, hands it to the listener of the application, who  *)
(* owns it from then on, and unlinks its node.  Meanwhile the MQTT library *)
(* adds messages, thread_sender takes answers off the send queue, and the  *)
(* application replies and frees what it was given (iotclient_freeMessage).*)
(*                                                                         *)
(* A message is the number of its arrival.  Its kind says what the code    *)
(* distinguishes: the class of its msgCode, whether encType is "3", and    *)
(* the body - absent; empty; JSON; JSON in which the value the client      *)
(* looks for is there but is no string ("notstring"); other text; or not   *)
(* decipherable ("broken").  An encrypted body is JSON or text once        *)
(* deciphered.  Two classes never get as far as that: "short", a payload   *)
(* of at most two characters, which MQTT_messageArrived refuses, and       *)
(* "unreadable", one the converter makes no message of.                    *)
(***************************************************************************)
EXTENDS Naturals, Sequences, FiniteSets

CONSTANTS Kind,          \* the kinds that arrive, a set of records
          bAES128Used,   \* the SDK is configured with encType "3"
          MaxQueueSize,  \* MAX_QUEUE_SIZE
          MaxMessage     \* bound of the model: messages that arrive

Class == {"auth", "activefirmware", "passivefirmware", "attr", "provisioning",
          "uploaduri", "attr_res", "notirequest", "wbc", "other", "short",
          "unreadable"}
Body == {"none", "empty", "json", "notstring", "text", "broken"}
Firmware == {"activefirmware", "passivefirmware"}

ASSUME ReceiverAssumption ==
  /\ Kind \subseteq [class : Class, encrypted : BOOLEAN, body : Body]
  /\ bAES128Used \in BOOLEAN /\ MaxQueueSize \in Nat \ {0} /\ MaxMessage \in Nat

VARIABLES running,        \* FALSE after a null pointer was followed
          listener,       \* the application has set a message listener
          kind,           \* of the messages that arrived, in order
          receive_queue, send_queue,
          sent,           \* what thread_sender has taken off send_queue
          pc, message,    \* of thread_receiver
          deciphered,     \* its data was replaced by the deciphered text
          owner,          \* who has to free a message
          delivered,      \* messages given to the listener, in order
          answered,       \* messages an answer was made for
          replied,        \* messages the application replied to
          lostAnswer,     \* answers add_queue dropped
          fault           \* a message was used after it was freed

out == <<send_queue, sent, answered, replied, lostAnswer>>
vars == <<running, listener, kind, receive_queue, out, pc, message, deciphered, owner,
          delivered, fault>>

Arrived == 1 .. Len(kind)

Init ==
  /\ running = TRUE /\ listener \in BOOLEAN /\ kind = <<>>
  /\ receive_queue = <<>> /\ send_queue = <<>> /\ sent = <<>>
  /\ pc = "loop" /\ message = 0 /\ deciphered = FALSE
  /\ owner = [m \in 1 .. MaxMessage |-> "nobody"]
  /\ delivered = <<>> /\ answered = {} /\ replied = {} /\ lostAnswer = {}
  /\ fault = FALSE

The == kind[message]
Goto(step) == pc' = step
Use == fault' = (fault \/ owner[message] # "client")
Free == owner' = [owner EXCEPT ![message] = "freed"]

\* The data is JSON as the receiver reads it now ...
IsJson == The.body \in {"json", "notstring"} /\ (The.encrypted => deciphered)

\* ... and the upgradeId or the uploadUri in it is not a string:
\* json_string_value returns NULL, and strlen follows it.
HasNullField == /\ The.class \in Firmware \cup {"uploaduri"}
                /\ IsJson /\ The.body = "notstring"
-----------------------------------------------------------------------------
\* The library holds on to a message that was refused and hands it in again and
\* again, in vain, and behind it those that came later.
Jams(m) == \E s \in 1 .. m : kind'[s].class = "short"

\* preListener: add_queue(receive_queue, m), which drops it when the queue is full.
Accept(m) ==
  \/ /\ Len(receive_queue) < MaxQueueSize
     /\ receive_queue' = Append(receive_queue, m)
     /\ owner' = [owner EXCEPT ![m] = "client"]
  \/ /\ Len(receive_queue) >= MaxQueueSize
     /\ owner' = [owner EXCEPT ![m] = "rejected"]
     /\ UNCHANGED receive_queue

\* MQTT_messageArrived, onMessageArriveClient and preListener, on a thread of the
\* MQTT library.
Arrive(k) ==
  /\ running /\ Len(kind) < MaxMessage
  /\ kind' = Append(kind, k)
  /\ LET m == Len(kind) + 1 IN
       \/ /\ Jams(m)
          /\ owner' = [owner EXCEPT ![m] = "library"]
          /\ UNCHANGED receive_queue
       \/ /\ ~Jams(m) /\ k.class = "unreadable"
          /\ owner' = [owner EXCEPT ![m] = "freed"]
          /\ UNCHANGED receive_queue
       \/ ~Jams(m) /\ k.class # "unreadable" /\ Accept(m)
  /\ UNCHANGED <<running, listener, out, pc, message, deciphered, delivered,
                 fault>>
-----------------------------------------------------------------------------
Oldest == kind[Head(receive_queue)]

\* The oldest message; an authorization response is kept in auth_response, its
\* waiter woken (Connect) and the message freed.
Take ==
  /\ running /\ pc = "loop" /\ receive_queue # <<>>
  /\ ~(Oldest.class = "auth" /\ Oldest.body = "none")
  /\ message' = Head(receive_queue)
  /\ deciphered' = FALSE
  /\ LET m == Head(receive_queue) IN
       /\ fault' = (fault \/ owner[m] # "client")
       /\ \/ /\ kind[m].class = "auth"
             /\ owner' = [owner EXCEPT ![m] = "freed"]
             /\ Goto("delete")
          \/ /\ kind[m].class # "auth"
             /\ Goto("decrypt")
             /\ UNCHANGED owner
  /\ UNCHANGED <<running, listener, kind, receive_queue, out, delivered>>

\* A null pointer was followed: the process ends.
Crash == /\ running' = FALSE
         /\ UNCHANGED <<listener, kind, receive_queue, out, pc, message, deciphered,
                        owner, delivered, fault>>

\* An authorization response without a body: strlen(message->data).
TakeWithoutBody ==
  /\ running /\ pc = "loop" /\ receive_queue # <<>>
  /\ Oldest.class = "auth" /\ Oldest.body = "none"
  /\ Crash

\* if(bAES128Used && (message->data) != NULL && !strcmp(encType, "3"))
MustDecrypt == bAES128Used /\ The.body # "none" /\ The.encrypted

\* Too short for the initial vector and a block, or not what was enciphered.
Undecipherable == {"broken", "empty"}
Deciphers == MustDecrypt /\ The.body \notin Undecipherable

\* Mutant of Decrypt: msgType is not set to -1 when the message is broken.
Decrypt_goes_on ==
  /\ running /\ pc = "decrypt" /\ Use
  /\ deciphered' = Deciphers
  /\ IF MustDecrypt /\ ~Deciphers THEN Free ELSE UNCHANGED owner
  /\ Goto("parse")
  /\ UNCHANGED <<running, listener, kind, receive_queue, out, message, delivered>>

\* OCPSecurityAES_decrypt: the deciphered text takes the place of the data; a
\* broken message is freed and not handed on (msgType = -1).
Decrypt ==
  /\ running /\ pc = "decrypt" /\ Use
  /\ deciphered' = Deciphers
  /\ \/ /\ MustDecrypt /\ ~Deciphers
        /\ Free /\ Goto("delete")
     \/ /\ MustDecrypt => Deciphers
        /\ Goto("parse") /\ UNCHANGED owner
  /\ UNCHANGED <<running, listener, kind, receive_queue, out, message, delivered>>

\* Mutant of Parse: the message without firmware information is not freed.
Parse_keeps_message ==
  /\ running /\ pc = "parse" /\ Use
  /\ Goto(IF The.class \in Firmware /\ ~IsJson
          THEN "delete" ELSE "answer")
  /\ UNCHANGED <<running, listener, kind, receive_queue, out, message, deciphered, owner,
                 delivered>>

\* Mutant of Parse: a firmware message that is dropped stays in the queue.
Parse_keeps_node ==
  /\ running /\ pc = "parse" /\ Use
  /\ Goto(IF The.class \in Firmware /\ ~IsJson
          THEN "loop" ELSE "answer")
  /\ UNCHANGED <<running, listener, kind, receive_queue, out, message, deciphered, owner,
                 delivered>>

\* getFirmwareInfoFromMessage must find JSON, else the message is freed; the
\* upload URI and the encrypted MC replace the data only if they are found.
Parse ==
  /\ running /\ pc = "parse" /\ ~HasNullField /\ Use
  /\ \/ /\ The.class \in Firmware /\ ~IsJson
        /\ Free /\ Goto("delete")
     \/ /\ The.class \in Firmware => IsJson
        /\ Goto("answer") /\ UNCHANGED owner
  /\ UNCHANGED <<running, listener, kind, receive_queue, out, message, deciphered,
                 delivered>>

\* memcpy(info->upgradeId, id, strlen(id)), strlen(id_1)
ParseNullField ==
  /\ running /\ pc = "parse" /\ HasNullField
  /\ Crash

NeedsAnswer == {"passivefirmware", "attr", "provisioning", "notirequest"}

\* add_queue(send_queue, item)
SendQueueAdd(item) ==
  \/ /\ Len(send_queue) < MaxQueueSize
     /\ send_queue' = Append(send_queue, item)
     /\ UNCHANGED lostAnswer
  \/ /\ Len(send_queue) >= MaxQueueSize
     /\ lostAnswer' = lostAnswer \cup {item}
     /\ UNCHANGED send_queue

\* What the builder of the answer returns: it makes none of an empty text, and the
\* null pointer is queued in its place.
Built == IF The.class = "notirequest" /\ The.body = "empty" THEN "null" ELSE "answer"

\* The response to a firmware notification, the answer to an attribute or a
\* provisioning message, and the response to a noti request, which returns the
\* body it came with: strlen(data).
Answer ==
  /\ running /\ pc = "answer" /\ Use
  /\ The.class = "notirequest" => The.body # "none"
  /\ \/ /\ The.class \in NeedsAnswer
        /\ SendQueueAdd([what |-> Built, to |-> message])
        /\ answered' = answered \cup {message}
     \/ /\ The.class \notin NeedsAnswer
        /\ UNCHANGED <<send_queue, answered, lostAnswer>>
  /\ Goto("deliver")
  /\ UNCHANGED <<running, listener, kind, receive_queue, sent, replied, message,
                 deciphered, owner, delivered>>

\* A noti request without a body: strlen(NULL) ends the process.
AnswerWithoutBody ==
  /\ running /\ pc = "answer"
  /\ The.class = "notirequest" /\ The.body = "none"
  /\ Crash

\* Mutant of Deliver: the listener is called before the answer is made.
Deliver_before_answer ==
  /\ running /\ pc \in {"answer", "deliver"} /\ listener /\ Use
  /\ owner' = [owner EXCEPT ![message] = "application"]
  /\ delivered' = Append(delivered, message)
  /\ Goto(IF pc = "answer" THEN "answer" ELSE "listener")
  /\ UNCHANGED <<running, listener, kind, receive_queue, out, message, deciphered>>

\* listenerOfApplication(args, message)
Deliver ==
  /\ running /\ pc = "deliver" /\ listener /\ Use
  /\ owner' = [owner EXCEPT ![message] = "application"]
  /\ delivered' = Append(delivered, message)
  /\ Goto("listener")
  /\ UNCHANGED <<running, listener, kind, receive_queue, out, message, deciphered>>

\* Without a listener nobody gets the message, nor frees it.
NoListener ==
  /\ running /\ pc = "deliver" /\ ~listener
  /\ Goto("delete")
  /\ UNCHANGED <<running, listener, kind, receive_queue, out, message, deciphered,
                 owner, delivered, fault>>

ListenerReturns ==
  /\ running /\ pc = "listener"
  /\ Goto("delete")
  /\ UNCHANGED <<running, listener, kind, receive_queue, out, message, deciphered, owner,
                 delivered, fault>>

\* delete_queue(receive_queue): the node goes, whoever owns its message now.
Delete ==
  /\ running /\ pc = "delete"
  /\ receive_queue' = Tail(receive_queue)
  /\ Goto("loop")
  /\ UNCHANGED <<running, listener, kind, out, message, deciphered, owner, delivered,
                 fault>>
-----------------------------------------------------------------------------
Given(m) == \E i \in DOMAIN delivered : delivered[i] = m

\* The application sends a message of its own because of m, in the listener or
\* later.
Reply(m) ==
  /\ running /\ Given(m) /\ m \notin replied
  /\ replied' = replied \cup {m}
  /\ SendQueueAdd([what |-> "reply", to |-> m])
  /\ UNCHANGED <<running, listener, kind, receive_queue, sent, answered, pc, message,
                 deciphered, owner, delivered, fault>>

\* iotclient_freeMessage(m), in the listener or later.
FreeMessage(m) ==
  /\ running /\ owner[m] = "application"
  /\ owner' = [owner EXCEPT ![m] = "freed"]
  /\ UNCHANGED <<running, listener, kind, receive_queue, out, pc, message, deciphered,
                 delivered, fault>>

\* thread_sender has sent, or given up, the oldest message.
Send ==
  /\ running /\ send_queue # <<>> /\ Head(send_queue).what # "null"
  /\ sent' = Append(sent, Head(send_queue))
  /\ send_queue' = Tail(send_queue)
  /\ UNCHANGED <<running, listener, kind, receive_queue, answered, replied, lostAnswer, pc,
                 message, deciphered, owner, delivered, fault>>

\* OCPThingManager_sendMessage follows the null pointer: the process ends.
SendNull ==
  /\ running /\ send_queue # <<>> /\ Head(send_queue).what = "null"
  /\ Crash
-----------------------------------------------------------------------------
ThreadReceiver ==
  \/ Take \/ TakeWithoutBody \/ Decrypt \/ Parse \/ ParseNullField
  \/ Answer \/ AnswerWithoutBody \/ Deliver
  \/ NoListener \/ ListenerReturns \/ Delete

Next ==
  \/ \E k \in Kind : Arrive(k)
  \/ Take \/ TakeWithoutBody \/ Decrypt \/ Parse \/ ParseNullField
  \/ Answer \/ AnswerWithoutBody \/ Deliver
  \/ NoListener \/ ListenerReturns \/ Delete
  \/ \E m \in Arrived : Reply(m) \/ FreeMessage(m)
  \/ Send \/ SendNull

Spec == Init /\ [][Next]_vars

\* The receiver runs, and the listener returns.
FairSpec == Spec /\ WF_vars(ThreadReceiver)
-----------------------------------------------------------------------------
\* The kinds of messages for which the client follows a null pointer.
Fatal(k) ==
  \/ k.class = "auth" /\ k.body = "none"
  \/ k.class = "notirequest" /\ k.body = "none"
  \/ k.class = "notirequest" /\ k.body = "empty" /\ ~(bAES128Used /\ k.encrypted)
  \/ /\ k.class \in Firmware \cup {"uploaduri"} /\ k.body = "notstring"
     /\ k.encrypted => bAES128Used

\* The client never touches a message it has freed or given away, although the
\* application may free it while its node is still the first of the queue; and it
\* follows a null pointer for no message but one without the body an authorization
\* response or a noti request needs, or one whose upgradeId or uploadUri it can
\* read but is not a string: not on the error paths of the others, whatever they
\* carry (IotClient.c:1385-1386, 1412-1415, 1503, 1561-1705).
MemorySafe ==
  /\ ~fault
  /\ running \/ \E m \in Arrived : Fatal(kind[m])

Waiting(m) == \E i \in DOMAIN receive_queue : receive_queue[i] = m

\* With a listener set, each message that has left the receive queue was freed or
\* given to the application: none is forgotten on the error paths, and none is
\* both freed by the client and delivered.
EveryMessageAccounted ==
  listener => \A m \in Arrived :
    /\ ~Waiting(m) => owner[m] \in {"application", "freed", "rejected", "library"}
    /\ owner[m] = "application" => Given(m)
    /\ owner[m] \in {"client", "rejected", "library"} => ~Given(m)

\* What the server and the application want of a message: is it to be answered,
\* and can it be read (it is deciphered when it must be, and is JSON when the
\* client itself has to read it).
Request(k) ==
  [asks |-> k.class \in NeedsAnswer,
   usable |-> /\ k.class # "auth"
              /\ bAES128Used /\ k.encrypted => k.body \notin Undecipherable
              /\ k.class \in Firmware => k.body = "json" /\ (k.encrypted => bAES128Used)]

\* The items that leave the send queue: nothing behind a null pointer ever does.
Leaving(items) ==
  [i \in {k \in DOMAIN items : \A j \in 1 .. k : items[j].what # "null"} |-> items[i]]

\* A message is settled when it is handed over or freed, before its node goes.
S == INSTANCE Service WITH
       requests <- [m \in Arrived |-> Request(kind[m])],
       queue <- IF pc \in {"listener", "delete"} THEN Tail(receive_queue)
                                                ELSE receive_queue,
       out <- Leaving(sent \o send_queue)

\* thread_receiver implements the abstract service: whatever the error paths, the
\* threads and the full queues do, usable messages are given to the application in
\* the order of arrival, each once, after their answer was made; broken and
\* unreadable ones are neither answered nor given; and answers leave in order,
\* ahead of anything the application sends because of the same message.
ServiceSpec == S!Spec

\* Every message that arrived leaves the receive queue, or the process has ended:
\* neither a broken message nor the application holds up those behind it.
EveryMessageHandled ==
  \A m \in 1 .. MaxMessage : Waiting(m) ~> (~Waiting(m) \/ ~running)
=============================================================================
