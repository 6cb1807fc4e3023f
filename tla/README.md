# Verification of the RDA C SDK

TLA+ models, model-checking runs and machine-checked proofs for the IoT device SDK of
this repository (`src/sdk`): a C library that an application links to talk to an IoT
platform over MQTT (device data) and HTTPS (login).

## 1. The system

### Components, state and operations

| component | source | state | operations |
|---|---|---|---|
| message queue | `iotclient/queue.c` | linked list: `first`, `last`, `size` (limit 100) | `create_queue`, `add_queue`, `delete_queue`, `destroy_queue` |
| sender thread | `iotclient/IotClient.c` `thread_sender` | `send_queue`, global `fail_count` | take the oldest message, send, free or count a failure, give up |
| receiver thread | `IotClient.c` `thread_receiver`, `preListener`; the callbacks `MQTT_messageArrived` and `onMessageArriveClient` | `receive_queue`, `sync_resCode`, `auth_response` | refuse, convert, queue, decipher, parse, answer, deliver to the listener, unlink |
| synchronous calls | `IotClient.c` `iotclient_sendAttributesSync`, `...ForLeaf` | semaphore `sem_forSync` | queue a message, wait at most 5 s, return `sync_resCode` |
| connection management | `IotClient.c` `iotclient_connect`, `iotclient_disconnect`, `preHandlerConnClosed`, `thread_keep_alive`; `manager/OCPThingManager.c`; `protocol/OCPProtocolMqtt.c` | the manager's semaphore, `sem_forConn`, `thread_conn_flag`, `authToken` | connect, subscribe, authorize, disconnect, reconnect, heartbeat |
| asynchronous requests | `IotClient.c` 407-819 | none of their own | build a message, `add_queue(send_queue)` |
| client life cycle | `IotClient.c` `createIotClient`, `destroyIotClient` | `thread_all_flag`, detached threads | create, destroy |
| message builders | `OCPThingManager.c` 807-1528 | the manager's ids and token | one builder per message |
| converters, compressor | `message/OCPMessageConverter*.c`, `OCPMessageCompressor.c` | none | payload to and from message |
| AES envelope, base64 | `security/` | key material | encrypt, decrypt, encode, decode |
| API manager, HTTP | `manager/OCPAPIManager.c`, `protocol/OCPProtocolCurl.c` | the token, the protocol handle | login, connection information, four getters, a custom request |
| properties, start-up | `IotClient.c` 33-200, 859-1155 | the property record, `connInfo`, `apiManager`, `securityAES` | read a file, check it, get an authorization code, make the managers |
| utilities | `common/OCPUtils.c` | none | semaphores, UUIDs, logging |
| samples, vendored code | `src/sample`, `tiny-aes`, `sha256.c` | | not part of the SDK's own logic |

### How they interact

Application threads call the `iotclient_*` functions, which put message pointers into
`send_queue`. `thread_sender` is its only consumer and calls the MQTT library. The MQTT
library calls back on threads of its own: an arriving message is converted and put into
`receive_queue`; a lost connection runs `preHandlerConnClosed`, which calls
`iotclient_connect` from inside the callback. `thread_receiver` consumes
`receive_queue`, wakes the callers that wait (`sem_forConn`, `sem_forSync`), puts
answers into `send_queue` and calls the application's listener. `thread_keep_alive` puts
a heartbeat into `send_queue` every two minutes. Nothing is protected by a mutex.

Before there are threads, `createIotClient` reads the property file and, for the
authentication type 5 without a code from the application, asks the platform for one
over HTTPS through the API manager; the code goes into the key of the encryption and, at
the first `iotclient_connect`, into the thing manager.

```
 application --> send_queue --> thread_sender --> OCPThingManager --> MQTT library --> server
      ^                ^                                                   |
      |                +-- answers --+                                     |
      +-- listener -- thread_receiver <-- receive_queue <-- preListener <--+
```

### What is hard

* every queue is used by several threads without a lock;
* ownership of a message passes from maker to queue to sender, or from receiver to
  application, and every error path has to free it exactly once;
* one semaphore serves several requests, the result of a timed wait is mostly ignored,
  and late callbacks end the wait of another request;
* calls return a global that the next response overwrites;
* the library's own thread re-enters `iotclient_connect`;
* one global failure counter decides about all messages;
* threads are detached and never joined when the client is destroyed;
* the limit of a timed wait is one global `timespec` for all waiting threads;
* names, codes and tokens go into headers unchecked, and what arrives is read as if it
  had the fields it should have;
* every function of the API manager has up to five exits, each of which has other blocks
  to free;
* globals of start-up (`connInfo`, `apiManager`) and the uncleared memory of the
  properties survive a client and are there when the next one is made.

`PROJECT.json` lists each such place with its line under `hazards`, and the property
that watches over it.

### What makes each component correct

* queue: counter, end pointers and chain agree; first in, first out; a full queue drops
  the newcomer; nothing is handed out twice.
* sender: a message is freed exactly once; every message is accounted for; no message
  overtakes another; nothing blocks the queue for ever.
* receiver: a message is freed or delivered, never both and never neither, and no null
  pointer is followed but for the messages named in section 5; what the application and
  the server see is an abstract service that settles messages one at a time, in order,
  answering before it delivers; every accepted message is handled.
* synchronous calls: never more successes than responses, no stale code, a call sleeps
  for its own limit unless another call interferes, every call returns.
* API manager: every exit frees exactly what is allocated there; a request carries the
  token of the last successful login.
* start-up: a client has the authorization code of its own session and the settings of
  its own file as it is written, and the connection uses those which its authentication
  type and SSL option call for.
* life cycle: only a thread or callback left behind meets freed memory; what destruction
  leaves allocated is known exactly; threads end.
* connection: ERR_OK means a connection was there; authorization happens once; the token
  stays until the application gives it up; every call returns.
* messages: what arrives names the thing, code and message that were asked for, and its
  data can be turned back into the text, whatever was tried before.

## 2. The modules

| module | what it is |
|---|---|
| `BoundedFifo` | abstract specification: a bounded first-in first-out queue |
| `MsgQueue` | `queue.c` at the level of pointers and addresses, calls one at a time; implements `BoundedFifo` |
| `QueueRace` | extends `MsgQueue`: `add_queue` and `delete_queue` one memory access at a time, calls overlapping |
| `Sender` | `thread_sender` on its queue |
| `SyncCall` | synchronous attribute calls, the receiver's part in them, the listener |
| `Service` | abstract specification: what the receiving side promises the application and the server |
| `Receiver` | from the MQTT callback through `thread_receiver` to the listener, with answers and ownership; implements `Service` |
| `Connect` | connect, disconnect, reconnect, authorization, keep-alive |
| `Lifecycle` | `createIotClient` and `destroyIotClient`, the objects they make and free, the threads they leave behind |
| `Settings` | the property file, its check, and what the managers take from it, as operators |
| `ApiManager` | one API manager: its functions in steps, their memory, the token |
| `Startup` | `createIotClient` up to the threads, composed of `Settings` and `ApiManager` |
| `Base64`, `AesEnvelope`, `Converters` | base64, padding and vector around the cipher, the two header formats and the compressor, as operators |
| `Builders` | the requests of the application and the message builders, as operators |
| `MessagePath` | one message, from the call that asks for it to the other end |
| `QueueProofs` | the theorems about `MsgQueue` and `QueueRace`, and their proofs |
| `SenderProofs`, `SyncCallProofs`, `ConnectProofs`, `ReceiverProofs`, `LifecycleProofs`, `StartupProofs`, `MessagePathProofs` | the theorems about the module of that name, and their proofs |
| `MC*` | values of the constants for TLC |

### MsgQueue

`heap`, `message` and `next` are the memory of the nodes: `heap` holds the addresses
`malloc` has returned and `free` has not taken back, and memory keeps its contents after
a free, so that a stale pointer reads what is really there. `first`, `last`, `size` are
the fields of `QUEUE`. Each function is an action; `destroy_queue`, which loops, is
three. Adding to a full queue or deleting from an empty one only prints a line, which is
a stuttering step here. The point of the module is that `delete_queue` leaves `last`
pointing to freed memory when the list runs empty, and that addresses are reused.

### QueueRace

The same two functions as they run, on the same `QUEUE`: the module has the variables
and constants of `MsgQueue`, and an initial state and steps of its own (`RaceInit`,
`RaceNext`). The queue is open throughout, and a message is a producer and a number.
Each action is one load or store of the shared structure, `size++` is a load and a
store. A dereference of `NULL` or of a freed node stops the model in a state that names
the fault. The model shows which guarantees survive the missing lock (`AtMostOnce`; with
one producer `InOrder`) and what the lock would have given: `overlap` remembers whether
two calls were ever in the queue at the same time, and `LossNeedsOverlap` says that
until then nothing is lost, miscounted or followed wrongly.

### Sender

A round of `thread_sender` is three steps, `Peek`, `SendOk` or `SendFail`, and `GiveUp`
or `NextRound`, between which other threads add messages and the link goes up or down.
The queue is the abstract FIFO that `MsgQueue` is proved to implement. `sendMessage`
succeeds exactly when the link is up; why it fails does not matter to the loop. `freed`
and `fault` record ownership.

### SyncCall

A message is a number and its response carries that number, which stands for the result
code. `sendAttributesSync`, `LoadLimit`, `StoreLimit`, `Block`, `Wake`, `ReturnCode` and
`TimeOut` are one call; `Store`, `Test`, `Post` and `ListenerReturns` are the receiver's
round, with the test of the semaphore and the post as separate steps because the code
does not hold a lock between `sem_getvalue` and `sem_post`. The listener is the receiver
in application code, so it can call too. `ts` is the global `timespec`, counted in
additions of `sem_timeout` since a clock was read into it. Reading the clock, and the
load and the store of `ts.tv_sec += sem_timeout`, are three steps of each writer, so
that an addition may be lost and a stale sum may come back after another thread has read
the clock. `CONNECTOR` is the connect that awaits the authorization, which writes the
same `ts` (`IotClient.c:350-353`) and waits on a semaphore of its own; the code makes it
once, in the connect that creates the manager. `limit` is what a thread went to sleep
with, `crossed` the history that says whether another thread wrote in between.

### Receiver

A message is the number of its arrival; its kind (class, encrypted or not, body) decides
its way. `Arrive` is the callback chain `MQTT_messageArrived`, `onMessageArriveClient`,
`preListener`: a payload of at most two characters ("short") is refused, one the
converter cannot read ("unreadable") is dropped, a message that finds the queue full
too. A refused message stays with the library, which is external: the model assumes that
it hands the message in again and again and keeps later ones behind it (owner
"library"), the worse of the possible behaviours. `Take`, `Decrypt`, `Parse`, `Answer`,
`Deliver`, `ListenerReturns`, `Delete` follow the code from top to bottom. `owner` is
who must free the message: the client, the application, or nobody any more. The
application may reply to and free a message as soon as the listener has it, also while
its node is still first in the queue. Where the code follows a null pointer the process
ends: an authorization response without a body (`TakeWithoutBody`), a firmware or upload
message whose `upgradeId` or `uploadUri` is there and is no string (`ParseNullField`;
the body "notstring"), a noti request without a body (`AnswerWithoutBody`); one with an
empty body has `NULL` queued as its answer, which `thread_sender` follows when it comes
to it (`SendNull`). `Fatal` names these kinds, and no constant excludes any of them.

`Service` has none of this: its queue holds the accepted messages not settled yet, and
its steps are to drop, answer, give and react. The mapping (`INSTANCE Service WITH`)
reads "usable" and "asks for an answer" off the kind of a message, and the queue without
the head once that head is freed or delivered, since the node outlives its message by a
step.

### Connect

`APP` is a thread of the application and `LIB` the MQTT library's thread that reports a
lost connection and carries out requests: while it is in `preHandlerConnClosed` it
carries out nothing, which is what the library's code does. Requests are answered early,
late or never. The wait of `OCPThread_wait_sem` takes the semaphore or gives up after
its time, and the code does not look at which. `CreateFails` is the library refusing to
make a client: what was allocated goes again and the call returns
`ERR_CREATE_MQTT_FAIL`. It may refuse a request to connect, to subscribe or to
disconnect as well; `OCPThingManager_disconnect` and `OCPProtocolMqtt_disconnect` ask
again whether the connection is there (`MqttDisconnect`). The keep-alive thread asks the
flag only, whatever the link does. `authType` keeps the local variable of a thread's
last call, which says whether that call created the manager; `seen`, `authorized` and
`result` are history for the properties.

### Lifecycle

`app` is where the application's thread is in `createIotClient` or `destroyIotClient`,
one action per numbered part of the code. An object is `<<kind, client>>`; `made` and
`freed` say whether it may be used, `ptr` what the global pointers refer to, some of
which are cleared on destruction and some are not. The handle and the line buffer of
`readProperties` (`Local`) are objects no global pointer refers to, and `queued` says
which queues hold messages, or held them when they were destroyed, since `destroy_queue`
frees the nodes only. A thread's round tests the flag (`Begin`), then its queue or the
connection (`Look`); it uses a global pointer at once (`UseGlobal`), or reads the
arguments of a call (`Load`) and follows them in the call (`Use`), and destruction may
come in between any two. What a round does beyond that is the subject of the other
modules. The model stops where a thread follows `NULL` or freed memory and keeps in
`fault` who it was; the property is about who it may be. It stops as well where a
callback that outlived its client would make a manager for the next one.

### Settings, ApiManager, Startup

A line of the property file is the sequence of its texts between the signs `=` with its
ending, so that what `strtok` makes of it (empty texts passed over, a second `=`, a
missing value, `\r\n`, no ending at all) is visible. `Tokens` are the places of the
texts `strtok` finds, so that nothing has to be filtered. `checkPropertiesAreOkay` is
the code's check; `ThingProperties`, `ApiProperties` and `SslOptions` are what the
managers and the MQTT client take.

A function of the API manager runs in steps (`Begin`, `Send`, then `HandOver`, or
`Parse` and `TakeToken` or `TakeInfo`), and `heap` holds its blocks by name: each exit
frees a set, and freeing what is not there is a `fault`. The server is external and
answers anything to anything. A token is the number of the login it came from, so that
it can be told whose it is.

`Startup` reads a file line by line, checks, gets the code, makes the key and later the
thing manager; whatever goes wrong in `createIotClient` ends the process (`Exit`), which
frees nothing because nobody is left. A client may be destroyed and made again: the
memory of the properties, which `malloc` does not clear, then holds zeros or the former
values (`held`), and `before` counts the logins there had been. `MakeThingManager` is
the creation at the head of `iotclient_connect`: a connected type 6 uses the option 2
whatever the file says, and type 5 never takes the key store, also where the check has
asked for one. `ReadAsWritten` and `ConnectsWith` are the two halves of
`SettingsReachConnection`: the first says of each key which line of the file, or what
memory, its value comes from, without `strtok`; the second what the MQTT client has of
the record, the stores it opened and whether it checks the server's certificate. With a
client made, the application may use an API manager of its own; it destroys it before
the next client, so that one set of variables does for both managers.

### MessagePath

`Base64`, `AesEnvelope` and `Converters` are operators on sequences of bytes, with
recursive functions for the two loops over digits. `strsep` is one call of
`strsep_custom`, what it cuts off and what it leaves; `delimiterFields` is the sequence
of calls that takes a header apart. `Builders` has one operator per builder, which
returns the set of the message it makes, empty for `NULL`, and one per `iotclient_`
request, which says whether its arguments are refused and what goes to `makeMessage`.
`MessagePath` makes any of these messages, or one of the receiver's answers, sends it in
up to four tries (each conversion changes the message in place, as the code's does),
reads the payload at a client with the same settings and decrypts it. A thing name,
message code, id or token is any C string its field holds (`HeaderText`), for the code
checks none of them. Where one has a delimiter and the format is that of delimiters, the
reader takes what follows for other fields, the length of the body among them; the model
says that much (`Garble`) and does not follow what comes of it. `json_string` makes
nothing of a text that is not UTF-8 (`NotUtf8`), so that the field is missing in a JSON
payload and empty at the other end (`Carried`). In place of the block cipher of
`aes_ocp.c` there is an addition that keeps the length and has an inverse, since the
envelope relies on no more; zstd is external and puts its magic number in front. The
header's text fields without a role are one field. The property `ReadsBack` is the
reference definition: what comes out is what was asked for, with the exceptions the code
has. The library itself leaves compression off (`IotClient.c:309`; the default of
`minCompressionSize` is 0), so that what is shown of repeated compression concerns the
message layer, not today's client.

## 3. The runs

| run | size | properties | shows |
|---|---|---|---|
| `queue` | 4 addresses, 2 messages, limit 3 | `TypeOK`, `ListWellFormed`, `FifoSpec` | pointers, counter and chain agree in every state; the list is the FIFO |
| `queue_race` | 2 threads with 2 messages each or one with 5, limit 2, 3 addresses | `AtMostOnce`, `InOrder`, `LossNeedsOverlap` | what survives without a lock, and when nothing is lost |
| `sender` | 4 messages, limit 2 | `TypeOK`, `NoDoubleFree`, `Accounted`, `HeadBlocks`, `FourFailuresPerDrop`, `QueueDrains`, `SentWhenUp` | ownership, order, accounting, progress |
| `sync` | 2 application threads, the listener and the connect, 2 messages | `TypeOK`, `NoMoreSuccessesThanResponses`, `CodeNoOlderThanWake`, `ListenerCallNeverOwn`, `OwnResponseWhenAlone`, `LimitOfOneCall`, `CallsReturn`, `ResponsesHandled` | what a synchronous call can be relied on for |
| `connect` | 4 calls, 2 lost connections | `TypeOK`, `OneAuthorization`, `OkMeansWasConnected`, `FirstOkAuthorizes`, `CallsReturn` | authorization, token, meaning of ERR_OK, termination |
| `connect_again` | 2 calls | `NeverWrongAuthType` | violated: a second real connect ends in ERR_WRONG_AUTHTYPE |
| `connect_heartbeat` | 1 call, 2 lost connections | `HeartbeatsSent` | violated: no heartbeat after the library reconnects by itself |
| `receiver` | 3 messages of 12 kinds, limits 2 | `MemorySafe`, `EveryMessageAccounted`, `ServiceSpec`, `EveryMessageHandled` | ownership and progress on every path; answers, order and delivery are those of `Service` |
| `lifecycle` | 2 clients, 3 of their threads and the library | `FaultNeedsThreadLeftBehind`, `ServedByThreads`, `OnlyLeaks`, `ThreadsEnd` | who may meet freed memory, what exactly is leaked, threads end |
| `lifecycle_again` | 2 clients, the keep-alive thread | `DestroyedThreadsEnd` | violated: a thread that sleeps through destroy and create never ends |
| `payload` | every builder, 5 texts, 2 vectors, 2 formats, 5 names, 3 codes, 3 tokens, 4 compression sizes, 4 tries | `TypeOK`, `ReadsBack` | what was asked for can be read at the other end, and what a repeated try costs |
| `startup` | 18 property files, every choice of arguments, 2 clients, 2 logins, 3 API calls of the application | `NothingLeaked`, `SentWithLogin`, `AuthCodeOfThisClient`, `SettingsReachConnection` | memory of every exit, tokens, whose code and whose settings a client has, and which of them it connects with |

Why the bounds are enough. The queue's cases are empty, one, several, full and an
address reused: four addresses and a limit of three have them all; the proofs remove the
bound. A race needs a queue that runs empty and full under two overlapping calls; a
fault can only appear between neighbours in the list, and five messages reuse three
addresses. The sender needs four messages because four failures cost one and what is
left of the counter must meet the next. A synchronous call is disturbed by one other
message, which may be that of an earlier call whose response is late; its limit by one
other writer of `ts`, and by two: two messages are two calls, with the connect as a
third writer. A connection needs connect, disconnect, connect, and two losses so that
one comes during the handling of another. Three messages let one be with the
application, one under way in the receiver and one waiting. Two clients are what it
takes for a thread to survive its own; of the six threads the run follows two of the
first client, which may outlive it, and the sender of the second, which empties a queue
those two add to. Nothing else that one thread writes is read by another there; the
proofs are of all of them. Start-up needs a second client for what survives the first,
and a second login for a token that is not the last one; the files differ from the
sample's in one or two lines each, so that every condition of the check decides at least
one of them, a key store that can be opened included: asked for and not used, used, and
not asked for. A text matters by its length modulo three and sixteen and by the
delimiters and zero bytes it becomes: lengths 1, 2, 15, 16 and 17, with a key and a
vector that produce both bytes; a name by whether it is there, holds a delimiter, or is
no UTF-8. `CHECK_DEADLOCK FALSE` is set where the bound on messages or calls, or the end
of the process, stops the model.

Fairness. Weak fairness is assumed of the program's own threads, which are pthreads in
endless loops, and of timed waits, which have a limit. Nothing is assumed of the
application, except that its listener returns where `Receiver` says so, nor of the
network, the server or the library; `MqttDisconnect` and `WaitDisconnect` are steps of a
call that has begun. `Startup` has no liveness: its requests have no timeout in the
code, so a server that never answers stops it. `Sender`'s `SentWhenUp` has the
steadiness of the link as its premise.

## 4. The proofs

Every theorem holds for all values of the constants: any numbers of threads, calls,
clients and messages, any limits, any property files. Every safety invariant of the
passing runs is proved, and so are both refinements. Each module strengthens its
property to an invariant that is inductive; TLC checked these invariants before they
were proved.

`QueueProofs`, first of calls that do not overlap:

* `QueueTypeCorrect`, `QueueWellFormed`. `ListWellFormed` speaks of the nodes met on the
  way from `first` and is inductive together with `TypeOK`: adding appends a node that
  was not allocated, hence is not on the chain, and deleting drops the first one. `last`
  is constrained only while `size > 0`, which is what makes the stale `last` of an empty
  list harmless.
* `QueueImplementsFifo`: every step is a step of `BoundedFifo` or stutters, under the
  mapping that reads the messages off the chain. It needs that the walk along the chain
  is unique, proved by way of a least differing index (`LeastNumber`), because induction
  theorems take an operator as a parameter.

`QueueProofs` of calls that do, for any number of producers and any heap, addresses
reused:

* `RaceAtMostOnce`. `Cells` says that among `first`, the next pointers of the nodes in
  the list and the nodes not linked yet no two refer to the same node; `Temp` says it of
  the pointers `delete_queue` has in hand, and `Fresh` that none of them refers to a
  message that was handled. Stale values of `last` may be anything, so a node may even
  become its own successor. `Sizes` is why the second test of `size` in `delete_queue`
  never fails: only the consumer lets `size` go down.
* `RaceInOrder`: with one producer the numbers grow along the next pointers (except
  where a node is its own successor), and what was handled is below `first`, below
  `temp` and below the pointer about to become `first`, depending on the step.
* `RaceLossNeedsOverlap`: while calls do not overlap there is a chain from `first` whose
  length and contents each step of a call determines (`Producing`, `Consuming`), with
  its nodes pairwise different, and therefore a cardinality.

`SenderProofs`, for every finite set of messages:

* `SenderTypeCorrect`, `SenderNoDoubleFree`, `SenderQueueAlive`, `SenderAccounted`.
  `NoDoubleFree` is not inductive. The invariant that carries it says that between
  rounds `fail_count <= 3`, that a message being sent is the head of the queue and
  alive, and that the counter can exceed 3 only right after a failure, when the message
  is still the head: that is why the test after a *successful* send never frees the
  message a second time.
* `SenderHeadBlocks`: what was not taken up yet was not tried (`FreshUntried`).
* `SenderFourFailures`: failures are counted as the pairs (message, number of the try),
  a set that grows by one with each, so that the four per message given up follow
  without a sum over messages.

`SyncCallProofs`, for every finite set of callers, the listener included:

* `SyncTypeCorrect`, with what the receiver holds in its round: `sem_post` runs only on
  a semaphore found at 0.
* `SyncCodeNoOlderThanWake`, `SyncListenerNeverOwn`: `sync_resCode` is that of the
  response handled last, and a semaphore that can be taken was posted after one
  (`Codes`).
* `SyncNoMoreSuccesses`: every success, and the one the semaphore or an awakened thread
  stands for, is paid for by a response handled (`Paid`).
* `SyncLimitOfOneCall`: a thread whose `ts` nobody else wrote finds it as it left it
  (`OwnLimit`). How far a limit may go otherwise is bounded by the messages made, not by
  the threads: a sum loaded early may be stored after others have read the clock and
  added, and each store exceeds what was loaded by one. So `ts`, and every sum loaded
  and not stored yet, is together with the threads that have not stored no more than the
  messages made and one for the connect (`Added`).
* `SyncOwnResponse`: every call makes a message of its own, so one thread being alone
  means that there are no messages but those of its calls; each response is then stored
  within the call that waits for it (`OneAtATime`).

`ConnectProofs`: `ConnectTypeCorrect`, `ConnectOneAuthorization`,
`ConnectOkMeansWasConnected`, `ConnectFirstOkAuthorizes`. `FirstCall` is the core: the
call that made the manager finds no connection and nobody who makes one, so it goes the
whole way to the token; `Library` keeps the library's thread out of it, since that
thread carries out no request while it reports a lost connection.

`ReceiverProofs`:

* `ReceiverMemorySafe`, `ReceiverAccounted`. The invariant has three layers: the queue
  holds the messages in the order of arrival and the one in hand is its first (`QInv`);
  who has to free each message (`OInv`: those behind the head belong to the client, the
  head until it is given away or freed); what the steps so far have established of the
  message in hand, and that no message behind it was answered (`RInv`).
* `ReceiverImplementsService`: each step of the code is a step of `Service` or a
  stutter. Taking a message nobody will hear of, or freeing one that cannot be read, is
  `Drop`; the rest map one to one.

`LifecycleProofs`, for any number of clients and any of the threads:

* `LifecycleOnlyLeaks`: at each stage of creation and destruction the memory in use is
  what a client has at that stage (`Own`), beside the file and the line of every client
  so far, and the pointers of those kinds refer to it. For the messages: without a
  manager, of this client or of one before, no thread and no callback has anything to
  add to a queue (`Messages`).
* `LifecycleFaults`, `LifecycleServed`: where the threads of the client there is stand
  at each stage (`Serves`), and what a thread has in hand. Such a thread is in a round
  only while the application uses the client, unless `destroyIotClient` left it behind
  in one (`busy`); only such threads, those of former clients and the library's callback
  can meet memory that is gone.

`StartupProofs`, for any number of clients, logins and calls:

* `StartupNothingLeaked` and `StartupSentWithLogin`. The invariant says what is
  allocated at every step of a call, not only between calls (`Held`), which two
  functions get as far as an object (`Steps`), and that the token of a manager is that
  of its last successful login (`Session`).
* `StartupAuthCode`: `AuthCodeOfThisClient`. `Stage` adds what `createIotClient` has in
  hand at each step: a login it saw succeed, and hence the token of its second request,
  is younger than the creation itself, so that neither the global `connInfo` nor an
  earlier session can supply the code.
* `StartupSettings`: `SettingsReachConnection`, for any file. The invariant says it of
  the lines read so far (`ReadSoFar`); one line more changes the key it names and no
  other (`StoredValue`), the key and the value being the first two texts that are not
  empty (`LineTokens`; the least element of a set of places, from
  `WellFoundedInduction`). `CheckedConnects` is about the check and the MQTT client
  alone.

`MessagePathProofs`, for every text, vector, key, name, number and limit of compression:

* Each conversion is undone by its counterpart. `EnvelopeRoundTrip`: base64 and the
  envelope, group by group and block by block, with the addition that stands for the
  cipher. `DecimalRoundTrip`: `Digits` and `Number` are recursive functions; that they
  are what their equations say, and that one undoes the other, is shown at the least
  number where it would fail (`LeastNumber`). `DelimiterRoundTrip`: a field without a
  delimiter is what the first `strsep` cuts off, nine times over, and the data are what
  `datalen` says, so that they may hold delimiters; that the fields are without one is
  its premise, and `Garble` is what happens otherwise. `PackRoundTrip` and
  `JsonRoundTrip` for the compressor and the other format.
* `MessagePathTypeCorrect` and `MessagePathReadsBack`. `ReadsBack` alone is not
  inductive, since it says nothing before the message arrives. `Inv` says where the
  message comes from: it is some original (`Original`: with the names and the text that
  were asked for, fresh from a builder) compressed at most `tries` times (`Layers`), and
  what was sent or read is the payload or the reading of that message. A step of `Ask`,
  `Plain` or `AnswerRequest` makes an original, whichever builder it goes through; a try
  adds a layer or none (`LayersNext`); arrival takes one off; and undoing four layers
  gives back the original (`LayersWritten`). A message is garbled only if a text of the
  original's header holds a delimiter, for those the library itself writes hold none
  (`GarbleInv`). Since a converted message has an `encType` of at most five characters,
  it never outgrows its eight bytes.

Assumptions. The named `ASSUME`s of the modules, and nothing else: that names of values
differ (`QueueAssumption`, `RaceAssumption`, `ConnectAssumption`), that limits are
positive, that the set of messages and that of the application's threads are finite
(`SenderAssumption`, `SyncAssumption`; a behaviour of the program never has more), of
which fields a kind of message consists (`ReceiverAssumption`, which excludes no
combination of their values), which threads a client may have (`LifecycleAssumption`),
that no key is a comment sign and that a file is a sequence of lines
(`SettingsAssumption`, `StartupAssumption`), that a text which is not UTF-8 has a byte
above 127 (`ConvertersAssumption`), and that texts and names are C strings and vectors
16 characters (`MessagePathAssumption`). The last requires a delimiter to be absent only
from what the library writes itself, the message codes of its headers and its UUIDs. TLC
evaluates them in every run.

Numbers are unbounded in `MessagePath`; the code's have 64 bits, more than a length or a
date needs. The lengths of the text buffers are not part of it, but for `encType`: the
builders and the delimiter reader copy a text into its field without looking at the
length, and a text that does not fit is outside the model.

Only model-checked: liveness under fairness (`QueueDrains`, `SentWhenUp`, `CallsReturn`,
`ResponsesHandled`, `EveryMessageHandled`, `ThreadsEnd`), which this prover does not
reach.

## 5. Where the code and its documents differ

* `IotClient.c:340`: the branch said never to be reached is reached by every connect
  after the first that really connects (`connect_again`).
* `IotClient.c:853`: after a lost connection that the library re-establishes,
  `thread_conn_flag` stays 0 and no heartbeat is sent (`connect_heartbeat`).
* `IotClient.c:239`: the threads do not terminate if the next client is created before
  they wake; they go on beside that client's own (`lifecycle_again`).

Met on the way, without a run of their own.

Queues, sending, receiving:

* `queue.c:54,68`: `size++` and `size--` are not atomic; when two calls overlap an
  increment can be lost while the message stays linked, and it is never sent.
* A message is given up after four failures, of one message or several, not after the
  three the log line says (`FourFailuresPerDrop` states the four).
* A full send queue drops the answer to a request silently.
* A synchronous call may return another message's code (`OwnResponseWhenAlone` states
  when it does not), and may sleep for nothing at all or for several `sem_timeout`
  because of the shared `timespec`, to which each call and the connect add without a
  lock (`LimitOfOneCall` bounds them by the messages made, and one).
* `strlen` follows `NULL` for an authorization response without a body
  (`IotClient.c:1503`), an `upgradeId` that is no string (`IotClient.c:1386`) and an
  `uploadUri` that is none (`IotClient.c:1415`). The JSON objects these are read from
  are never released, which the models do not count.
* A noti request without a body ends the process (`IotClient.c:1691`), and so does one
  with an empty body a round later, when the sender follows the `NULL` that was queued
  as its answer (`IotClient.c:1694`).
* A payload of at most two characters is refused with 0 (`OCPProtocolMqtt.c:499`), which
  asks the library to hand it in again.

Life cycle:

* `readProperties` neither closes the property file nor frees the line it read
  (`IotClient.c:867-931`), `destroy_queue` (`queue.c:22`) does not free the messages
  still queued; of what `createIotClient`, `iotclient_connect` and the queues hold,
  `OnlyLeaks` says that this is all.

Messages:

* A thing name, code or token with a delimiter in it makes every message that carries it
  unreadable in the delimiter format; one that is not UTF-8 is left out in JSON.
* A plain body that is text is lost in the JSON format, whose reader expects an object;
  a deciphered message keeps the `datalen` of the encrypted data.
* The answers to attribute and provisioning requests are labelled encrypted whether they
  are or not, and a reader with encryption on takes the one that is not for a broken
  message (`IotClient.c:1666`).

Start-up:

* The record of the properties is not cleared (`IotClient.c:861`): a key the file does
  not name has whatever the memory held. A line without a value makes `getKeyNValue_1`
  follow `NULL` (`IotClient.c:942`); text behind a second `=` is dropped.
* Type 6 is always connected with the option 2 (`IotClient.c:291`), though the check
  looks at `thingSslOpts` (`IotClient.c:1123`); type 5 with the option 2 has to name a
  key store (`IotClient.c:1125`) that is never used. `SettingsReachConnection` says what
  is used in each case, not that it is what was checked.
* After a login that returned an empty token `do_login` says SUCCESS and `islogined`
  FAILURE (`OCPAPIManager.c:243`); `do_custom` sends without a login.

## 6. Not modelled, and the plan

Not modelled for good: the rounds of the cipher, SHA-256 and zstd (vendored); inside
libcurl and its wrapper, options, headers and the growing of the response buffer; the
samples; logging, the wording of requests and the sizes of text buffers; what the
delimiter reader makes of a header it misreads. Their outcomes (success, failure, no
memory) are choices of the modules that call them.

What is left, in this order:

1. `Converters`: payloads the library has not written - missing fields, a length that
   does not fit the body - as far as the code defines what happens.
2. A composition of `Sender` and `Receiver` over the send queue, with what the sender's
   failures do to the answers `Service` speaks of.
