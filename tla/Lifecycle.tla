----------------------------- MODULE Lifecycle -----------------------------
(***************************************************************************)
(* createIotClient and destroyIotClient of src/sdk/iotclient/IotClient.c,  *)
(* and what the threads they start and stop touch in between.              *)
(*                                                                         *)
(* createIotClient allocates the objects the global pointers refer to and  *)
(* starts three detached threads that run while thread_all_flag is set;    *)
(* destroyIotClient clears the flag and frees everything without waiting   *)
(* for the threads, which may be anywhere in a round or asleep.  An        *)
(* application that creates a client again may find them still alive: they *)
(* read the globals, and so serve the new client or meet freed memory.     *)
(*                                                                         *)
(* Objects are <<kind, client>>: what the global pointers refer to, and    *)
(* what readProperties opens and allocates and keeps to itself.  Of the    *)
(* messages the model knows which queues hold some.                        *)
(* A thread uses an object either through                                  *)
(* the global pointer at once, or, when the pointer is an argument of a    *)
(* call, by loading it (Load) and following it later (Use).  What the      *)
(* rounds do otherwise is the subject of Sender, Receiver and Connect.     *)
(* Where createIotClient calls exit the program is over, and the model     *)
(* has no step; it stops as well where a thread meets NULL or freed memory.*)
(***************************************************************************)
EXTENDS Naturals, FiniteSets

CONSTANTS MaxClients,   \* bound of the model: clients created one after another
          Watched,      \* the threads the model follows, of the three of each client
          bAES128Used,  \* the property file asks for encryption
          NULL

ASSUME LifecycleAssumption ==
  /\ Watched \subseteq {"sender", "receiver", "keep_alive"} \X (1 .. MaxClients)
  /\ MaxClients \in Nat \ {0} /\ bAES128Used \in BOOLEAN /\ NULL \notin Nat

Client == 1 .. MaxClients
Kind == {"props", "aes", "semaphores", "receive", "send", "manager"}
Local == {"file", "line"}   \* the FILE* fp and getline's buffer of readProperties
LIB == <<"mqtt", 0>>    \* the thread of the MQTT library that calls back
Thread == Watched \cup {LIB}
Object == (Kind \cup Local) \X Client
NoObject == <<"none", 0>>
NoFault == [by |-> <<"none", 0>>, object |-> NoObject]
APP == <<"app", 0>>

VARIABLES client,           \* the number of clients created so far
          app,              \* where the application's thread is
          ptr,              \* the global pointers: a client's object, or NULL
          made, freed,      \* objects allocated and freed
          queued,           \* which of the client's queues hold, or held when they
                            \* were destroyed, messages
          thread_all_flag, thread_conn_flag,
          pc, hold,         \* of each thread; the pointers it has loaded
          busy,             \* the client's threads still in the round in which
                            \* they were when destroyIotClient cleared the flag
          fault             \* who followed which pointer to NULL or freed memory

flags == <<thread_all_flag, thread_conn_flag>>
memory == <<ptr, made, freed, queued>>
vars == <<client, app, memory, flags, pc, hold, busy, fault>>

Init ==
  /\ client = 0 /\ app = "none"
  /\ ptr = [k \in Kind |-> NULL] /\ made = {} /\ freed = {} /\ queued = {}
  /\ thread_all_flag = 1 /\ thread_conn_flag = 0
  /\ pc = [t \in Thread |-> IF t = LIB THEN "loop" ELSE "none"] /\ hold = [t \in Thread |-> {}]
  /\ busy = {} /\ fault = NoFault

Running == fault = NoFault
App(from, to) == Running /\ app = from /\ app' = to
At(t, step) == Running /\ pc[t] = step
Goto(t, step) == pc' = [pc EXCEPT ![t] = step]

\* An object that may be used; the object a pointer refers to.
Alive(o) == o \in made \ freed
Target(k) == <<k, ptr[k]>>

\* t follows a pointer to o, which is alive or ends the program.
Follow(t, o) == fault' = IF Alive(o) THEN fault ELSE [by |-> t, object |-> o]
-----------------------------------------------------------------------------
(* createIotClient, one action per numbered part of its body.              *)

Allocate(kinds) == /\ ptr' = [k \in Kind |-> IF k \in kinds THEN client' ELSE ptr[k]]
                   /\ made' = made \cup (kinds \X {client'})
                   /\ UNCHANGED freed

\* The IotClient with its properties; readProperties neither closes fp nor frees
\* line.
ReadProperties ==
  /\ App("none", "security") /\ client < MaxClients
  /\ client' = client + 1
  /\ Allocate({"props"} \cup Local) /\ queued' = {} /\ busy' = {}
  /\ UNCHANGED <<flags, pc, hold, fault>>

MakeSecurity ==
  /\ App("security", "semaphores") /\ UNCHANGED client
  /\ IF bAES128Used THEN Allocate({"aes"}) /\ UNCHANGED queued ELSE UNCHANGED memory
  /\ UNCHANGED <<flags, pc, hold, busy, fault>>

MakeSemaphores ==
  /\ App("semaphores", "keep_alive") /\ UNCHANGED client
  /\ Allocate({"semaphores"}) /\ UNCHANGED queued
  /\ UNCHANGED <<flags, pc, hold, busy, fault>>

\* pthread_create(thread_keep_alive): it may run before the flags are set.
StartKeepAlive ==
  /\ App("keep_alive", "flags")
  /\ pc' = [t \in Thread |-> IF t = <<"keep_alive", client>> THEN "loop" ELSE pc[t]]
  /\ UNCHANGED <<client, memory, flags, hold, busy, fault>>

\* Mutant of SetFlags: only the flag of the connection is set.
SetFlags_conn_only ==
  /\ App("flags", "queues")
  /\ thread_conn_flag' = 0
  /\ UNCHANGED <<client, thread_all_flag, memory, pc, hold, busy, fault>>

SetFlags ==
  /\ App("flags", "queues")
  /\ thread_all_flag' = 1 /\ thread_conn_flag' = 0
  /\ UNCHANGED <<client, memory, pc, hold, busy, fault>>

MakeQueues ==
  /\ App("queues", "threads") /\ UNCHANGED client
  /\ Allocate({"receive", "send"}) /\ UNCHANGED queued
  /\ UNCHANGED <<flags, pc, hold, busy, fault>>

StartThreads ==
  /\ App("threads", "pointers")
  /\ pc' = [t \in Thread |-> IF t \in {"sender", "receiver"} \X {client} THEN "loop" ELSE pc[t]]
  /\ UNCHANGED <<client, memory, flags, hold, busy, fault>>

\* thingManager = NULL
ClearPointers ==
  /\ App("pointers", "use")
  /\ ptr' = [ptr EXCEPT !["manager"] = NULL]
  /\ UNCHANGED <<client, made, freed, queued, flags, pc, hold, busy, fault>>
-----------------------------------------------------------------------------
\* add_queue(send_queue, message)
AddToSend == queued' = queued \cup {"send"}

\* iotclient_connect by the application makes the manager, with its MQTT client,
\* if there is none (its other effects are in Connect).
Connect ==
  /\ App("use", "use")
  /\ IF ptr["manager"] = NULL THEN UNCHANGED <<client, queued>> /\ Allocate({"manager"})
                              ELSE UNCHANGED <<client, memory>>
  /\ thread_conn_flag' \in {thread_conn_flag, 1}
  /\ UNCHANGED <<thread_all_flag, pc, hold, busy, fault>>

\* A message of the application, or the authorization: none can be made before
\* there is a manager.
SendMessage ==
  /\ App("use", "use") /\ ptr["manager"] # NULL
  /\ AddToSend
  /\ UNCHANGED <<client, ptr, made, freed, flags, pc, hold, busy, fault>>
-----------------------------------------------------------------------------
(* destroyIotClient                                                        *)

\* free through the global pointer; freeing twice is a fault.
Release(k) ==
  /\ freed' = freed \cup {Target(k)}
  /\ Follow(APP, Target(k))
  /\ UNCHANGED <<made, queued>>

\* thread_all_flag = 0
ClearFlag ==
  /\ App("use", "destroy_aes")
  /\ thread_all_flag' = 0
  /\ busy' = {t \in Watched : t[2] = client /\ pc[t] \in {"look", "work"}}
  /\ UNCHANGED <<client, memory, thread_conn_flag, pc, hold, fault>>

DestroySecurity ==
  /\ App("destroy_aes", "disconnect")
  /\ IF bAES128Used
     THEN Release("aes") /\ ptr' = [ptr EXCEPT !["aes"] = NULL]
     ELSE UNCHANGED <<memory, fault>>
  /\ UNCHANGED <<client, flags, pc, hold, busy>>

\* iotclient_disconnect
Disconnect ==
  /\ App("disconnect", "free_props")
  /\ thread_conn_flag' = 0
  /\ IF ptr["manager"] = NULL THEN UNCHANGED fault
                              ELSE Follow(APP, Target("manager"))
  /\ UNCHANGED <<client, memory, thread_all_flag, pc, hold, busy>>

FreeProperties ==
  /\ App("free_props", "destroy_manager")
  /\ Release("props") /\ ptr' = [ptr EXCEPT !["props"] = NULL]
  /\ UNCHANGED <<client, flags, pc, hold, busy>>

\* Mutant of DestroyManager: the pointer is cleared, the MQTT client stays.
DestroyManager_keeps_client ==
  /\ App("destroy_manager", "destroy_semaphores")
  /\ ptr' = [ptr EXCEPT !["manager"] = NULL]
  /\ UNCHANGED <<client, made, freed, queued, flags, pc, hold, busy, fault>>

\* OCPThingManager_destroy; MQTTAsync_destroy ends the callbacks to come, but
\* waits only some seconds for one that has begun.
DestroyManager ==
  /\ App("destroy_manager", "destroy_semaphores")
  /\ IF ptr["manager"] = NULL
     THEN UNCHANGED <<memory, fault>>
     ELSE Release("manager") /\ ptr' = [ptr EXCEPT !["manager"] = NULL]
  /\ UNCHANGED <<client, flags, pc, hold, busy>>

\* The semaphores and queues are freed, their pointers left as they are.
DestroySemaphores ==
  /\ App("destroy_semaphores", "destroy_receive") /\ Release("semaphores")
  /\ UNCHANGED <<client, ptr, flags, pc, hold, busy>>

\* Mutant of DestroyQueues: the receive queue is forgotten.
DestroyQueues_send_only ==
  /\ \/ App("destroy_receive", "destroy_send") /\ UNCHANGED <<made, freed, queued, fault>>
     \/ App("destroy_send", "none") /\ Release("send")
  /\ UNCHANGED <<client, ptr, flags, pc, hold, busy>>

\* destroy_queue frees the nodes and the queue, but not the messages in it.
DestroyQueues ==
  /\ \/ App("destroy_receive", "destroy_send") /\ Release("receive")
     \/ App("destroy_send", "none") /\ Release("send")
  /\ UNCHANGED <<client, ptr, flags, pc, hold, busy>>
-----------------------------------------------------------------------------
(* The threads.                                                            *)

Queue == [sender |-> "send", receiver |-> "receive"]

\* What a round uses: objects reached through a global pointer at once, and the
\* arguments of calls, pointers that are read first and followed in the call.
Direct == [sender |-> {}, receiver |-> {"semaphores", "send"},
           keep_alive |-> {"send"}, mqtt |-> {}]
Calls == [sender |-> {{"manager"}}, receiver |-> {{"aes", "props"}, {"manager"}},
          keep_alive |-> {{"manager"}}, mqtt |-> {{"manager"}}]

\* Mutant of Begin: the keep-alive thread waits for a connection before it looks
\* at thread_all_flag.
Begin_keep_alive_waits(t) ==
  /\ t # LIB /\ At(t, "loop")
  /\ t[1] = "keep_alive" => thread_conn_flag = 1
  /\ Goto(t, IF thread_all_flag = 1 THEN "look" ELSE "ended")
  /\ UNCHANGED <<client, app, memory, flags, hold, busy, fault>>

\* The thread has slept, or has just been started: while(thread_all_flag).
Begin(t) ==
  /\ t # LIB /\ At(t, "loop")
  /\ Goto(t, IF thread_all_flag = 1 THEN "look" ELSE "ended")
  /\ UNCHANGED <<client, app, memory, flags, hold, busy, fault>>

\* The thread sleeps again: it is out of the round.
Leave(t) == busy' = IF pc'[t] = "loop" /\ fault' = fault THEN busy \ {t} ELSE busy

\* if(queue->size > 0)
LookInQueue(t) ==
  /\ t[1] \in DOMAIN Queue
  /\ Follow(t, Target(Queue[t[1]]))
  /\ Goto(t, IF Queue[t[1]] \in queued THEN "work" ELSE "loop")

\* if(thread_conn_flag)
LookAtConnection(t) ==
  /\ t[1] = "keep_alive" /\ UNCHANGED fault
  /\ Goto(t, IF thread_conn_flag = 1 THEN "work" ELSE "loop")

Look(t) ==
  /\ t # LIB /\ At(t, "look")
  /\ LookInQueue(t) \/ LookAtConnection(t)
  /\ Leave(t)
  /\ UNCHANGED <<client, app, memory, flags, hold>>

Working(t) == At(t, "work") /\ hold[t] = {}

\* A semaphore or the send queue, to which a message is added, through its global
\* pointer.
UseGlobal(t) ==
  /\ Working(t)
  /\ \E k \in Direct[t[1]] :
       /\ Follow(t, Target(k))
       /\ IF k = "send" /\ Alive(Target(k)) THEN AddToSend ELSE UNCHANGED queued
  /\ UNCHANGED <<client, app, ptr, made, freed, flags, pc, hold, busy>>

\* The arguments of a call are read.  A NULL manager or AES handle is refused in
\* the call; nobody tests _properties.
Load(t) ==
  /\ Working(t)
  /\ \E args \in Calls[t[1]] :
       /\ \A k \in args \ {"props"} : ptr[k] # NULL
       /\ hold' = [hold EXCEPT ![t] = {Target(k) : k \in args}]
  /\ UNCHANGED <<client, app, memory, flags, pc, busy, fault>>

\* The call follows them.
Use(t) ==
  /\ At(t, "work")
  /\ \E o \in hold[t] : Follow(t, o)
  /\ hold' = [hold EXCEPT ![t] = {}]
  /\ UNCHANGED <<client, app, memory, flags, pc, busy>>

\* delete_queue and the end of the round, or the return of the callback.
Finish(t) ==
  /\ Working(t)
  /\ IF t[1] \in DOMAIN Queue
     THEN /\ Follow(t, Target(Queue[t[1]]))
          /\ queued' \in {queued, queued \ {Queue[t[1]]}}
     ELSE UNCHANGED <<queued, fault>>
  /\ Goto(t, "loop")
  /\ Leave(t)
  /\ UNCHANGED <<client, app, ptr, made, freed, flags, hold>>
-----------------------------------------------------------------------------
(* The thread of the MQTT library.                                         *)

Listening == \E c \in Client : Alive(<<"manager", c>>)

\* preListener: a message arrives, add_queue(receive_queue, message).
Arrive ==
  /\ At(LIB, "loop") /\ Listening
  /\ Follow(LIB, Target("receive"))
  /\ queued' = queued \cup {"receive"}
  /\ UNCHANGED <<client, app, ptr, made, freed, flags, pc, hold, busy>>

\* preHandlerConnClosed, which calls the application and iotclient_connect.
ConnClosed ==
  /\ At(LIB, "loop") /\ Listening
  /\ thread_conn_flag' = 0
  /\ Goto(LIB, "work")
  /\ UNCHANGED <<client, app, memory, thread_all_flag, hold, busy, fault>>

\* iotclient_connect finds no manager, because the application has destroyed it,
\* and makes one from _properties: NULL, or those of the next client, a client
\* this callback does not belong to.  The model stops here in either case.
CreateAgain ==
  /\ Working(LIB) /\ ptr["manager"] = NULL
  /\ fault' = [by |-> LIB, object |-> Target("props")]
  /\ UNCHANGED <<client, app, memory, flags, pc, hold, busy>>
-----------------------------------------------------------------------------
CreateSteps == ReadProperties \/ MakeSecurity \/ MakeSemaphores \/ StartKeepAlive
                 \/ SetFlags \/ MakeQueues \/ StartThreads \/ ClearPointers
DestroySteps == DestroySecurity \/ Disconnect \/ FreeProperties \/ DestroyManager
                  \/ DestroySemaphores \/ DestroyQueues
Round(t) == Begin(t) \/ Look(t) \/ UseGlobal(t) \/ Load(t) \/ Use(t) \/ Finish(t)

Next ==
  \/ CreateSteps \/ Connect \/ SendMessage \/ ClearFlag \/ DestroySteps
  \/ \E t \in Thread : Round(t)
  \/ Arrive \/ ConnClosed \/ CreateAgain

Spec == Init /\ [][Next]_vars

\* The threads run, sleeps end, and a round comes to its end: it uses finitely
\* many objects.  Nothing is assumed of the application between calls.
FairSpec ==
  /\ Spec
  /\ WF_vars(DestroySteps) /\ WF_vars(CreateSteps /\ app # "none")
  /\ \A t \in Thread : WF_vars(Begin(t) \/ Look(t) \/ Use(t)) /\ SF_vars(Finish(t))
-----------------------------------------------------------------------------
\* Memory that is NULL or freed is only ever followed by a thread that
\* destroyIotClient left behind: one that was inside a round when the flag was
\* cleared, one of an earlier client, or a callback of the library.  The
\* application itself frees nothing twice, no thread starts too early for the
\* objects it uses, and a thread that is asleep when the client is destroyed is
\* harmless as long as no client is created again.
FaultNeedsThreadLeftBehind ==
  fault # NoFault => \/ fault.by \in busy
                     \/ fault.by \in Watched /\ fault.by[2] < client
                     \/ fault.by = LIB /\ fault.object[1] # "receive"

\* While the application uses a client, the sender and the receiver of that
\* client run, whatever was left of the one before; the keep-alive thread, which
\* is started before the flag is set, surely runs for the first client only.
ServedByThreads ==
  app = "use" =>
    \A t \in Watched :
      t[2] = client /\ (t[1] # "keep_alive" \/ client = 1) => pc[t] \notin {"none", "ended"}

\* What destroyIotClient leaves allocated, whatever the threads and callbacks do
\* while it runs, is the file and the line of readProperties, once per client
\* (IotClient.c:867-931), and the messages in the queues, which destroy_queue does
\* not free (queue.c:22-32): nothing that a global pointer refers to, and the
\* pointers that are not cleared do no harm to the next client.  There are such
\* messages only if that client was connected or one before it, whose threads may
\* still put theirs into the queues of the next.
OnlyLeaks ==
  app = "none" /\ fault = NoFault =>
    /\ made \ freed = Local \X (1 .. client)
    /\ queued # {} => \E c \in Client : <<"manager", c>> \in freed

\* "thread termination" (IotClient.c:238), as far as it goes: if the application
\* creates no client any more, all threads end, or the program has failed.
ThreadsEnd ==
  <>[](app = "none") =>
    <>[](fault # NoFault \/ \A t \in Watched : pc[t] \in {"none", "ended"})

\* "thread termination" (IotClient.c:238): the threads of a client that is
\* destroyed end.
DestroyedThreadsEnd ==
  \A t \in Watched :
    (app = "destroy_aes" /\ pc[t] \notin {"none", "ended"})
      ~> (pc[t] = "ended" \/ fault # NoFault)
=============================================================================
