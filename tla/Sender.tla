------------------------------- MODULE Sender -------------------------------
(***************************************************************************)
(* thread_sender of src/sdk/iotclient/IotClient.c: the one consumer of the *)
(* send queue.  Every round it looks at the oldest message, hands it to    *)
(* OCPThingManager_sendMessage and then either frees and unlinks it, or    *)
(* counts a failure; one global counter decides when a message is given    *)
(* up.  The queue is the bounded FIFO that MsgQueue is proved to implement *)
(* (calls that overlap inside queue.c are the subject of QueueRace).       *)
(*                                                                         *)
(* The round is three steps, because the application, the receiver and     *)
(* the keep-alive thread add messages, and the connection comes and goes,  *)
(* between them.                                                           *)
(***************************************************************************)
EXTENDS Naturals, Sequences, FiniteSets

CONSTANTS Message,        \* the message objects the program allocates
          MaxQueueSize,   \* MAX_QUEUE_SIZE
          NULL

ASSUME SenderAssumption ==
  /\ MaxQueueSize \in Nat \ {0} /\ NULL \notin Message
  /\ IsFiniteSet(Message)

MaxFail == 3    \* the literal of IotClient.c:1473

VARIABLES queue,       \* send_queue, oldest first
          link,        \* the MQTT library is connected and takes messages
          pc,          \* where thread_sender is in its round
          message,     \* its local variable
          fail_count,
          made,        \* the messages allocated so far
          rejected,    \* those add_queue dropped: nobody frees them
          sent,        \* those handed to the MQTT library, in order
          dropped,     \* those given up
          freed,
          tries,       \* failed attempts of each message
          fault        \* a message was freed twice, or used after its free

env == <<made, rejected, link>>
vars == <<queue, link, pc, message, fail_count, made, rejected, sent, dropped,
          freed, tries, fault>>

Init ==
  /\ queue = <<>> /\ link \in BOOLEAN
  /\ pc = "loop" /\ message = NULL /\ fail_count = 0
  /\ made = {} /\ rejected = {} /\ sent = <<>> /\ dropped = {} /\ freed = {}
  /\ tries = [m \in Message |-> 0]
  /\ fault = FALSE
-----------------------------------------------------------------------------
\* Any other thread: allocate a message, add_queue(send_queue, message).
AddQueue(m) ==
  /\ m \notin made
  /\ made' = made \cup {m}
  /\ \/ /\ Len(queue) < MaxQueueSize
        /\ queue' = Append(queue, m)
        /\ UNCHANGED rejected
     \/ /\ Len(queue) >= MaxQueueSize
        /\ rejected' = rejected \cup {m}
        /\ UNCHANGED queue
  /\ UNCHANGED <<link, pc, message, fail_count, sent, dropped, freed, tries,
                 fault>>

\* The connection is lost or comes back.
LinkChanges ==
  /\ link' = ~link
  /\ UNCHANGED <<queue, pc, message, fail_count, made, rejected, sent, dropped,
                 freed, tries, fault>>
-----------------------------------------------------------------------------
\* OCPManager_free_message(m)
Free(m) == /\ freed' = freed \cup {m}
           /\ fault' = (fault \/ m \in freed)

\* if(size > 0) message = first->message
Peek ==
  /\ pc = "loop" /\ queue # <<>>
  /\ message' = Head(queue)
  /\ pc' = "send"
  /\ UNCHANGED <<env, queue, fail_count, sent, dropped, freed, tries, fault>>

\* Mutant of SendOk: the message is freed but stays in the queue.
SendOk_keeps_node ==
  /\ pc = "send" /\ link
  /\ sent' = Append(sent, message)
  /\ Free(message)
  /\ pc' = "check"
  /\ UNCHANGED <<env, queue, message, fail_count, dropped, tries>>

\* sendMessage returned the message's own msgId.  fail_count is not reset.
SendOk ==
  /\ pc = "send" /\ link
  /\ sent' = Append(sent, message)
  /\ Free(message)
  /\ queue' = Tail(queue)
  /\ pc' = "check"
  /\ UNCHANGED <<env, message, fail_count, dropped, tries>>

\* Mutant of SendFail: the failure is printed and not counted.
SendFail_uncounted ==
  /\ pc = "send" /\ ~link
  /\ tries' = [tries EXCEPT ![message] = 1]
  /\ pc' = "check"
  /\ UNCHANGED <<env, queue, message, fail_count, sent, dropped, freed, fault>>

\* Mutant of SendFail: the message that failed goes to the end of the queue.
SendFail_rotates ==
  /\ pc = "send" /\ ~link
  /\ fail_count' = fail_count + 1
  /\ tries' = [tries EXCEPT ![message] = @ + 1]
  /\ queue' = Append(Tail(queue), message)
  /\ pc' = "check"
  /\ UNCHANGED <<env, message, sent, dropped, freed, fault>>

\* sendMessage returned NULL.
SendFail ==
  /\ pc = "send" /\ ~link
  /\ fail_count' = fail_count + 1
  /\ tries' = [tries EXCEPT ![message] = @ + 1]
  /\ pc' = "check"
  /\ UNCHANGED <<env, queue, message, sent, dropped, freed, fault>>

\* Mutant of GiveUp: fail_count is not reset.
GiveUp_no_reset ==
  /\ pc = "check" /\ fail_count > MaxFail
  /\ dropped' = dropped \cup {message}
  /\ Free(message)
  /\ queue' = SubSeq(queue, 2, Len(queue))
  /\ pc' = "loop"
  /\ UNCHANGED <<env, message, fail_count, sent, tries>>

\* Mutant of GiveUp: one failure too few.
GiveUp_early ==
  /\ pc = "check" /\ fail_count >= MaxFail
  /\ fail_count' = 0
  /\ dropped' = dropped \cup {message}
  /\ Free(message)
  /\ queue' = Tail(queue)
  /\ pc' = "loop"
  /\ UNCHANGED <<env, message, sent, tries>>

\* if(fail_count > 3): also tested after a successful send, when "message" has
\* been freed already.
GiveUp ==
  /\ pc = "check" /\ fail_count > MaxFail
  /\ fail_count' = 0
  /\ dropped' = dropped \cup {message}
  /\ Free(message)
  /\ queue' = Tail(queue)
  /\ pc' = "loop"
  /\ UNCHANGED <<env, message, sent, tries>>

NextRound ==
  /\ pc = "check" /\ fail_count <= MaxFail
  /\ pc' = "loop"
  /\ UNCHANGED <<env, queue, message, fail_count, sent, dropped, freed, tries,
                 fault>>

ThreadSender == Peek \/ SendOk \/ SendFail \/ GiveUp \/ NextRound

Next == ThreadSender \/ LinkChanges \/ \E m \in Message : AddQueue(m)

Spec == Init /\ [][Next]_vars

\* thread_sender is a pthread in an endless loop: it always goes on.  Nothing
\* is assumed of the application or of the connection.
FairSpec == Spec /\ WF_vars(ThreadSender)
-----------------------------------------------------------------------------
Elements(s) == {s[i] : i \in DOMAIN s}

TypeOK ==
  /\ queue \in Seq(Message) /\ Len(queue) <= MaxQueueSize
  /\ link \in BOOLEAN /\ fault \in BOOLEAN
  /\ pc \in {"loop", "send", "check"}
  /\ message \in Message \cup {NULL} /\ (pc = "send" => message # NULL)
  /\ fail_count \in 0..MaxFail + 1
  /\ made \in SUBSET Message /\ rejected \in SUBSET Message
  /\ dropped \in SUBSET Message /\ freed \in SUBSET Message
  /\ sent \in Seq(Message)
  /\ tries \in [Message -> Nat]

\* No message is freed twice.  The test fail_count > 3 is shared by the two
\* outcomes of a send (IotClient.c:1462-1479), so this rests on the counter
\* never being above 3 when a round starts.
NoDoubleFree == ~fault

\* Each message that was ever added is in exactly one place: waiting, sent,
\* given up, or dropped by a full queue.  All but the last kind are freed
\* exactly when they leave the queue.
Accounted ==
  /\ made = Elements(queue) \cup Elements(sent) \cup dropped \cup rejected
  /\ freed = Elements(sent) \cup dropped
  /\ Elements(queue) \cap freed = {} /\ Elements(sent) \cap dropped = {}
  /\ rejected \cap (freed \cup Elements(queue)) = {}

\* Strict order: nothing behind the oldest message has been tried, so no
\* message overtakes one that was added before it, failures or not.
HeadBlocks == \A i \in 2..Len(queue) : tries[queue[i]] = 0

\* The failed attempts made so far, numbered for each message.
Attempts == UNION {{m} \X (1..tries[m]) : m \in Message}

\* Four failures (not the three of "failed to send 3 times", IotClient.c:1475),
\* of one message or of several, cost exactly one message: all failed attempts together are
\* four for each message given up, plus those counted since the last one.
FourFailuresPerDrop ==
  Cardinality(Attempts) = (MaxFail + 1) * Cardinality(dropped) + fail_count

\* What is on the queue leaves it, sent or given up, even if the connection
\* never comes back: the sender is not stuck behind a message.
QueueDrains ==
  \A m \in Message :
    m \in Elements(queue) ~> m \in Elements(sent) \cup dropped

\* If the connection stays up from a moment at which no message is about to be
\* given up, everything then queued is sent, whatever failed before: the
\* failures carried over in fail_count cost no message any more.
SentWhenUp ==
  \A m \in Message :
    (m \in Elements(queue) /\ pc # "check" /\ []link) ~> m \in Elements(sent)
=============================================================================
