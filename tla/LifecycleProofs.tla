-------------------------- MODULE LifecycleProofs --------------------------
(***************************************************************************)
(* Proofs about Lifecycle for any number of clients, created one after the *)
(* other, and whichever threads they have: what is left of a client, who   *)
(* serves it, and who may meet memory that is gone.                        *)
(***************************************************************************)
EXTENDS Lifecycle, TLAPS

Waiting == {"security", "semaphores", "keep_alive"}
Creating == Waiting \cup {"flags", "queues", "threads", "pointers"}
Destroying == {"destroy_aes", "disconnect", "free_props", "destroy_manager",
               "destroy_semaphores", "destroy_receive", "destroy_send"}
Stages == {"none", "use"} \cup Creating \cup Destroying

\* Where in its life a client has the object of a kind.
Lives(k) ==
  \/ k = "props" /\ app \in Creating \cup {"use", "destroy_aes", "disconnect", "free_props"}
  \/ /\ k = "aes" /\ bAES128Used
     /\ app \in (Creating \ {"security"}) \cup {"use", "destroy_aes"}
  \/ /\ k = "semaphores"
     /\ app \notin {"none", "security", "semaphores", "destroy_receive", "destroy_send"}
  \/ k = "receive" /\ app \in {"threads", "pointers", "use"} \cup (Destroying \ {"destroy_send"})
  \/ k = "send" /\ app \in {"threads", "pointers", "use"} \cup Destroying
  \/ /\ k = "manager" /\ ptr[k] # NULL
     /\ app \in {"use", "destroy_aes", "disconnect", "free_props", "destroy_manager"}

Own == {k \in Kind : Lives(k)}

\* There is a manager only from iotclient_connect to OCPThingManager_destroy.
ManagerInTime ==
  ptr["manager"] # NULL =>
    app \in {"use", "destroy_aes", "disconnect", "free_props", "destroy_manager"}

Types ==
  /\ client \in 0 .. MaxClients /\ app \in Stages
  /\ ptr \in [Kind -> Client \cup {NULL}]
  /\ made \subseteq Object
  /\ client = 0 => app = "none"

\* What there is, is what the client has, and the pointers refer to it.  What was
\* freed is of the clients before, until this one is destroyed.
Memory ==
  /\ freed \subseteq made
  /\ made \ freed = (Own \X {client}) \cup (Local \X (1 .. client))
  /\ \A k \in Own : ptr[k] = client
  /\ \A o \in made : o[2] <= client
  /\ app \in Creating \cup {"use"} => \A o \in freed : o[2] < client
  /\ ~bAES128Used => ptr["aes"] = NULL
  /\ ManagerInTime

Flags ==
  /\ app \in {"queues", "threads", "pointers", "use"} => thread_all_flag = 1
  /\ client <= 1 /\ app \in Creating \cup {"use"} => thread_all_flag = 1
  /\ client = 0 => thread_all_flag = 1
  /\ app \in Destroying \/ (app = "none" /\ client > 0) => thread_all_flag = 0
  /\ app \notin {"use", "destroy_aes", "disconnect"} => thread_conn_flag = 0

MInv == Types /\ Memory /\ Flags
-----------------------------------------------------------------------------
(* The application's thread: creating, connecting, destroying.             *)

Constant == UNCHANGED <<client, app, ptr, made, freed, thread_all_flag>>

\* No thread of the client changes what there is.
LEMMA ThreadMInv ==
  ASSUME MInv, Constant, thread_conn_flag' \in {thread_conn_flag, 0}
  PROVE  MInv'
<1>1. Own' = Own
  BY DEF Own, Lives, Constant
<1> QED BY <1>1 DEF MInv, Types, Memory, ManagerInTime, Flags, Constant

\* New objects of the client.
LEMMA AllocateMemory ==
  ASSUME MInv, NEW kinds \in SUBSET (Kind \cup Local), Allocate(kinds),
         app' \in Creating \cup {"use"}, client' \in Client,
         \/ app = "none" /\ client' = client + 1 /\ Local \subseteq kinds
         \/ app \in Creating \cup {"use"} /\ client' = client /\ kinds \subseteq Kind,
         Own \cap kinds = {}, Own' = Own \cup (kinds \ Local),
         ~bAES128Used => "aes" \notin kinds,
         ManagerInTime'
  PROVE  Types' /\ Memory'
<1>1. /\ client \in Nat /\ client' \in Nat
      /\ \A o \in freed : o[2] < client'
      /\ \A o \in made : o[2] <= client'
      /\ freed \subseteq made
      /\ Own # {} => client' = client
  <2>1. CASE app = "none" /\ client' = client + 1
    <3>1. Own = {}
      BY <2>1 DEF Own, Lives, Creating, Waiting, Destroying
    <3>2. \A o \in made : o[2] \in Nat /\ o[2] <= client
      BY DEF MInv, Types, Memory, Object, Client
    <3>3. client \in Nat
      BY DEF MInv, Types
    <3> QED BY <2>1, <3>1, <3>2, <3>3 DEF MInv, Memory
  <2>2. CASE app \in Creating \cup {"use"} /\ client' = client
    BY <2>2 DEF MInv, Types, Memory, Client
  <2> QED BY <2>1, <2>2
<1>2. Types'
  <2>1. client' # 0 /\ client' \in 0 .. MaxClients
    BY LifecycleAssumption DEF Client
  <2>2. made' \subseteq Object
    BY DEF MInv, Types, Allocate, Object
  <2> QED BY <2>1, <2>2 DEF MInv, Types, Allocate, Stages
<1>3. /\ freed' = freed /\ made' = made \cup (kinds \X {client'})
      /\ \A k \in kinds \ Local : ptr'[k] = client'
      /\ \A k \in Kind \ kinds : ptr'[k] = ptr[k]
  BY DEF Allocate, Kind, Local
<1>4. \A k \in Own' : ptr'[k] = client'
  BY <1>1, <1>3 DEF MInv, Memory, Own
<1>5. made' \ freed' = (Own' \X {client'}) \cup (Local \X (1 .. client'))
  <2>1. made \ freed = (Own \X {client'}) \cup (Local \X (1 .. client))
    BY <1>1 DEF MInv, Memory
  <2>2. \A o \in kinds \X {client'} : o \notin freed
    BY <1>1
  <2>3. made' \ freed' = (Own' \X {client'}) \cup (Local \X (1 .. client))
                           \cup ((kinds \cap Local) \X {client'})
    BY <1>3, <2>1, <2>2
  <2>4. CASE client' = client + 1 /\ Local \subseteq kinds
    <3>1. \A c : c \in 1 .. client' <=> c \in 1 .. client \/ c = client'
      BY <1>1, <2>4
    <3>2. Local \X (1 .. client') = (Local \X (1 .. client)) \cup (Local \X {client'})
      BY <3>1
    <3>3. kinds \cap Local = Local
      BY <2>4
    <3> QED BY <2>3, <3>2, <3>3
  <2>5. CASE client' = client /\ kinds \subseteq Kind
    <3>1. (kinds \cap Local) \X {client'} = {}
      BY <2>5 DEF Kind, Local
    <3> QED BY <2>3, <2>5, <3>1
  <2> QED BY <2>4, <2>5
<1>6. \A o \in made' : o[2] <= client'
  BY <1>1, <1>3
<1>7. ~bAES128Used => ptr'["aes"] = NULL
  BY <1>3 DEF MInv, Memory, Kind
<1> QED BY <1>1, <1>2, <1>3, <1>4, <1>5, <1>6, <1>7 DEF Memory

\* An object of the client is freed, by a pointer that refers to it: no fault.
LEMMA ReleaseMemory ==
  ASSUME MInv, NEW k \in Own, Release(k), ptr' \in {ptr, [ptr EXCEPT ![k] = NULL]},
         client' = client, app' \in Destroying \cup {"none"}, Own' = Own \ {k},
         ~bAES128Used => ptr'["aes"] = NULL, ManagerInTime'
  PROVE  Types' /\ Memory' /\ fault' = fault
<1>1. Target(k) = <<k, client>> /\ Target(k) \in made \ freed
  BY DEF MInv, Memory, Target
<1>2. fault' = fault
  BY <1>1 DEF Release, Follow, Alive
<1>3. made' = made /\ freed' = freed \cup {<<k, client>>}
  BY <1>1 DEF Release
<1>4. made' \ freed' = (Own' \X {client'}) \cup (Local \X (1 .. client'))
  BY <1>3 DEF MInv, Memory, Own, Kind, Local
<1>5. Types'
  <2>1. client # 0
    BY DEF MInv, Types, Own, Lives, Creating, Waiting, Destroying
  <2>2. ptr' \in [Kind -> Client \cup {NULL}]
    BY DEF MInv, Types
  <2> QED BY <1>3, <2>1, <2>2 DEF MInv, Types, Stages
<1>6. \A j \in Own' : ptr'[j] = client'
  BY DEF MInv, Memory, Types, Own
<1>7. freed' \subseteq made' /\ \A o \in made' : o[2] <= client'
  BY <1>1, <1>3 DEF MInv, Memory
<1>8. app' \notin Creating \cup {"use"}
  BY DEF Creating, Waiting, Destroying
<1> QED BY <1>2, <1>4, <1>5, <1>6, <1>7, <1>8 DEF Memory

\* The application's thread goes on and frees nothing.
LEMMA GoOnMemory ==
  ASSUME MInv, UNCHANGED <<client, made, freed>>, app # "none",
         ptr' \in {ptr, [ptr EXCEPT !["manager"] = NULL]},
         app' \in Stages, Own' = Own, ManagerInTime',
         app' \in Creating \cup {"use"} => app \in Creating \cup {"use"}
  PROVE  Types' /\ Memory'
<1>1. Types'
  BY DEF MInv, Types
<1>2. \A k \in Own' : ptr'[k] = client'
  BY DEF MInv, Memory, Types, Own, Lives
<1> QED BY <1>1, <1>2 DEF MInv, Memory, Types, Kind
-----------------------------------------------------------------------------
LEMMA CreateMInv ==
  ASSUME MInv, CreateSteps
  PROVE  MInv'
<1>1. CASE ReadProperties
  <2>1. /\ app = "none" /\ app' = "security" /\ client < MaxClients
        /\ client' = client + 1 /\ Allocate({"props"} \cup Local)
        /\ UNCHANGED <<thread_all_flag, thread_conn_flag>>
    BY <1>1 DEF ReadProperties, App, flags
  <2>2. Own = {} /\ Own' = {"props"}
    BY <2>1 DEF Own, Lives, Kind, Creating, Waiting, Destroying
  <2>3. client' \in Client
    BY <2>1, LifecycleAssumption DEF MInv, Types, Client
  <2>m. ManagerInTime'
    BY <2>1 DEF MInv, Memory, ManagerInTime, Allocate, Kind, Local
  <2>4. Types' /\ Memory'
    BY <2>1, <2>2, <2>3, <2>m, AllocateMemory DEF Kind, Local, Creating, Waiting
  <2>5. Flags'
    BY <2>1 DEF MInv, Types, Flags, Creating, Waiting, Destroying
  <2> QED BY <2>4, <2>5 DEF MInv
<1>2. CASE MakeSecurity
  <2>1. /\ app = "security" /\ app' = "semaphores" /\ client' = client
        /\ UNCHANGED <<thread_all_flag, thread_conn_flag>>
    BY <1>2 DEF MakeSecurity, App, flags
  <2>2. Flags'
    BY <2>1 DEF MInv, Flags, Creating, Waiting, Destroying
  <2>3. CASE bAES128Used /\ Allocate({"aes"})
    <3>1. Own = {"props"} /\ Own' = {"props", "aes"}
      BY <2>1, <2>3 DEF Own, Lives, Kind, Creating, Waiting, Destroying
    <3>m. ManagerInTime'
      BY <2>1, <2>3 DEF MInv, Memory, ManagerInTime, Allocate, Kind
    <3>2. Types' /\ Memory'
      BY <2>1, <2>3, <3>1, <3>m, AllocateMemory
         DEF MInv, Types, Kind, Local, Creating, Waiting, Client
    <3> QED BY <2>2, <3>2 DEF MInv
  <2>4. CASE ~bAES128Used /\ UNCHANGED memory
    <3>1. Own = {"props"} /\ Own' = {"props"}
      BY <2>1, <2>4 DEF Own, Lives, Kind, Creating, Waiting, Destroying
    <3>m. ManagerInTime'
      BY <2>1, <2>4 DEF MInv, Memory, ManagerInTime, memory
    <3>2. Types' /\ Memory'
      BY <2>1, <2>4, <3>1, <3>m, GoOnMemory DEF Stages, Creating, Waiting, memory
    <3> QED BY <2>2, <3>2 DEF MInv
  <2> QED BY <1>2, <2>3, <2>4, LifecycleAssumption DEF MakeSecurity
<1>3. CASE MakeSemaphores
  <2>1. /\ app = "semaphores" /\ app' = "keep_alive" /\ client' = client
        /\ Allocate({"semaphores"})
        /\ UNCHANGED <<thread_all_flag, thread_conn_flag>>
    BY <1>3 DEF MakeSemaphores, App, flags
  <2>2. "semaphores" \notin Own /\ Own' = Own \cup {"semaphores"}
    BY <2>1 DEF Own, Lives, Kind, Creating, Waiting, Destroying
  <2>m. ManagerInTime'
    BY <2>1 DEF MInv, Memory, ManagerInTime, Allocate, Kind
  <2>3. Types' /\ Memory'
    BY <2>1, <2>2, <2>m, AllocateMemory DEF MInv, Types, Kind, Local, Creating, Waiting, Client
  <2>4. Flags'
    BY <2>1 DEF MInv, Flags, Creating, Waiting, Destroying
  <2> QED BY <2>3, <2>4 DEF MInv
<1>4. CASE MakeQueues
  <2>1. /\ app = "queues" /\ app' = "threads" /\ client' = client
        /\ Allocate({"receive", "send"})
        /\ UNCHANGED <<thread_all_flag, thread_conn_flag>>
    BY <1>4 DEF MakeQueues, App, flags
  <2>2. Own \cap {"receive", "send"} = {} /\ Own' = Own \cup {"receive", "send"}
    <3>1. "receive" \notin Own /\ "send" \notin Own
      BY <2>1 DEF Own, Lives, Creating, Waiting, Destroying
    <3>2. ptr' = [k \in Kind |-> IF k \in {"receive", "send"} THEN client ELSE ptr[k]]
      BY <2>1 DEF Allocate
    <3>3. \A k \in Kind : k \in Own' <=> k \in Own \/ k \in {"receive", "send"}
      BY <2>1, <3>2 DEF Own, Lives, Kind, Creating, Waiting, Destroying
    <3> QED BY <3>1, <3>3 DEF Own, Kind
  <2>m. ManagerInTime'
    BY <2>1 DEF MInv, Memory, ManagerInTime, Allocate, Kind
  <2>3. Types' /\ Memory'
    BY <2>1, <2>2, <2>m, AllocateMemory DEF MInv, Types, Kind, Local, Creating, Waiting, Client
  <2>4. Flags'
    BY <2>1 DEF MInv, Flags, Creating, Waiting, Destroying
  <2> QED BY <2>3, <2>4 DEF MInv
<1>5. CASE StartKeepAlive \/ SetFlags \/ StartThreads
  <2>1. /\ <<app, app'>> \in {<<"keep_alive", "flags">>, <<"flags", "queues">>,
                              <<"threads", "pointers">>}
        /\ UNCHANGED <<client, ptr, made, freed>>
    BY <1>5 DEF StartKeepAlive, SetFlags, StartThreads, App, memory
  <2>2. Own' = Own
    BY <2>1 DEF Own, Lives, Kind, Creating, Waiting, Destroying
  <2>m. ManagerInTime'
    BY <2>1 DEF MInv, Types, Memory, ManagerInTime, Kind
  <2>3. Types' /\ Memory'
    BY <2>1, <2>2, <2>m, GoOnMemory DEF Stages, Creating, Waiting
  <2>4. Flags'
    BY <1>5 DEF StartKeepAlive, SetFlags, StartThreads, App, MInv, Flags, Creating, Waiting,
                Destroying, flags
  <2> QED BY <2>3, <2>4 DEF MInv
<1>6. CASE ClearPointers
  <2>1. /\ app = "pointers" /\ app' = "use" /\ ptr' = [ptr EXCEPT !["manager"] = NULL]
        /\ UNCHANGED <<client, made, freed, thread_all_flag, thread_conn_flag>>
    BY <1>6 DEF ClearPointers, App, flags
  <2>2. Own' = Own
    BY <2>1 DEF MInv, Types, Own, Lives, Kind, Creating, Waiting, Destroying
  <2>m. ManagerInTime'
    BY <2>1 DEF MInv, Types, Memory, ManagerInTime, Kind
  <2>3. Types' /\ Memory'
    BY <2>1, <2>2, <2>m, GoOnMemory DEF Stages, Creating, Waiting
  <2>4. Flags'
    BY <2>1 DEF MInv, Flags, Creating, Waiting, Destroying
  <2> QED BY <2>3, <2>4 DEF MInv
<1> QED BY <1>1, <1>2, <1>3, <1>4, <1>5, <1>6 DEF CreateSteps

LEMMA ConnectMInv ==
  ASSUME MInv, Connect
  PROVE  MInv'
<1>1. app = "use" /\ app' = "use" /\ thread_all_flag' = thread_all_flag /\ client' = client
  BY DEF Connect, App
<1>2. Flags'
  BY <1>1 DEF MInv, Flags, Creating, Waiting, Destroying
<1>3. CASE ptr["manager"] = NULL /\ Allocate({"manager"})
  <2>1. client \in Client /\ client # NULL
    BY <1>1, LifecycleAssumption DEF MInv, Types, Client
  <2>2. ptr' = [k \in Kind |-> IF k \in {"manager"} THEN client ELSE ptr[k]]
    BY <1>1, <1>3 DEF Allocate
  <2>3. "manager" \notin Own
    BY <1>3 DEF Own, Lives
  <2>4. Own' = Own \cup {"manager"}
    <3>1. ptr'["manager"] # NULL
      BY <2>1, <2>2 DEF Kind
    <3>2. \A k \in Kind : k \in Own' <=> k \in Own \/ k = "manager"
      BY <1>1, <3>1 DEF Own, Lives, Kind
    <3> QED BY <3>2 DEF Own, Kind
  <2>5. Types' /\ Memory'
    BY <1>1, <1>3, <2>1, <2>3, <2>4, AllocateMemory DEF ManagerInTime, Kind, Local
  <2> QED BY <1>2, <2>5 DEF MInv
<1>4. CASE UNCHANGED memory
  <2>1. Own' = Own
    BY <1>1, <1>4 DEF Own, Lives, memory
  <2> QED BY <1>1, <1>2, <1>4, <2>1 DEF MInv, Types, Memory, ManagerInTime, memory
<1> QED BY <1>3, <1>4 DEF Connect

LEMMA SendMessageMInv ==
  ASSUME MInv, SendMessage
  PROVE  MInv'
<1>1. Own' = Own
  BY DEF SendMessage, App, Own, Lives
<1> QED BY <1>1 DEF SendMessage, App, MInv, Types, Memory, ManagerInTime, Flags, flags

LEMMA ClearFlagMInv ==
  ASSUME MInv, ClearFlag
  PROVE  MInv'
<1>1. /\ app = "use" /\ app' = "destroy_aes" /\ thread_all_flag' = 0
      /\ UNCHANGED <<client, ptr, made, freed, thread_conn_flag>>
  BY DEF ClearFlag, App, memory
<1>2. Own' = Own
  BY <1>1 DEF Own, Lives, Kind, Creating, Waiting, Destroying
<1>m. ManagerInTime'
  BY <1>1 DEF MInv, Memory, ManagerInTime
<1>3. Types' /\ Memory'
  BY <1>1, <1>2, <1>m, GoOnMemory DEF Stages, Creating, Waiting, Destroying
<1>4. Flags'
  BY <1>1 DEF MInv, Types, Flags, Creating, Waiting, Destroying
<1> QED BY <1>3, <1>4 DEF MInv

\* destroyIotClient follows no pointer to what is gone.
LEMMA DestroyMInv ==
  ASSUME MInv, DestroySteps
  PROVE  MInv' /\ fault' = fault
<1> DEFINE Next1 == {<<"destroy_aes", "disconnect">>, <<"disconnect", "free_props">>,
                     <<"free_props", "destroy_manager">>,
                     <<"destroy_manager", "destroy_semaphores">>,
                     <<"destroy_semaphores", "destroy_receive">>,
                     <<"destroy_receive", "destroy_send">>, <<"destroy_send", "none">>}
<1>1. client' = client /\ <<app, app'>> \in Next1
  BY DEF DestroySteps, DestroySecurity, Disconnect, FreeProperties, DestroyManager,
         DestroySemaphores, DestroyQueues, App
<1>2. app \in Destroying /\ app' \in Destroying \cup {"none"} /\ client # 0
  BY <1>1 DEF MInv, Types, Destroying
<1>3. Flags'
  <2>1. /\ thread_all_flag' = thread_all_flag
        /\ \/ app = "disconnect" /\ thread_conn_flag' = 0
           \/ app # "disconnect" /\ thread_conn_flag' = thread_conn_flag
    BY <1>1 DEF DestroySteps, DestroySecurity, Disconnect, FreeProperties, DestroyManager,
         DestroySemaphores, DestroyQueues, App, flags
  <2> QED BY <1>1, <1>2, <2>1 DEF MInv, Flags, Destroying, Creating, Waiting
<1>4. \A k \in Own : ptr[k] = client
  BY DEF MInv, Memory
<1>m. ManagerInTime'
  <2>1. ptr'["manager"] = NULL \/ (app # "destroy_manager" /\ ptr'["manager"] = ptr["manager"])
    BY <1>1 DEF DestroySteps, DestroySecurity, Disconnect, FreeProperties, DestroyManager,
         DestroySemaphores, DestroyQueues, App, Release, memory, MInv, Types, Kind
  <2> QED BY <1>1, <2>1 DEF MInv, Memory, ManagerInTime
<1>5. CASE DestroySecurity
  <2>1. app = "destroy_aes" /\ app' = "disconnect"
    BY <1>5 DEF DestroySecurity, App
  <2>2. CASE bAES128Used /\ Release("aes") /\ ptr' = [ptr EXCEPT !["aes"] = NULL]
    <3>1. "aes" \in Own
      BY <2>1, <2>2 DEF Own, Lives, Kind
    <3>2. Own' = Own \ {"aes"}
      BY <2>1, <2>2 DEF MInv, Types, Own, Lives, Kind, Creating, Waiting, Destroying
    <3> QED BY <1>1, <1>2, <1>3, <1>m, <2>2, <3>1, <3>2, ReleaseMemory DEF MInv
  <2>3. CASE ~bAES128Used /\ UNCHANGED <<memory, fault>>
    <3>1. Own' = Own
      BY <2>1, <2>3 DEF Own, Lives, Kind, Creating, Waiting, Destroying, memory
    <3>2. Types' /\ Memory'
      BY <1>1, <1>2, <1>m, <2>1, <2>3, <3>1, GoOnMemory DEF Stages, Creating, Waiting, memory
    <3> QED BY <1>3, <2>3, <3>2 DEF MInv
  <2> QED BY <1>5, <2>2, <2>3 DEF DestroySecurity
<1>6. CASE Disconnect
  <2>1. app = "disconnect" /\ app' = "free_props" /\ UNCHANGED <<ptr, made, freed>>
    BY <1>6 DEF Disconnect, App, memory
  <2>2. Own' = Own
    BY <2>1 DEF Own, Lives, Kind, Creating, Waiting, Destroying
  <2>3. Types' /\ Memory'
    BY <1>1, <1>2, <1>m, <2>1, <2>2, GoOnMemory DEF Stages, Creating, Waiting, Destroying
  <2>4. fault' = fault
    <3>1. ptr["manager"] # NULL => Target("manager") \in made \ freed
      BY <2>1 DEF MInv, Memory, Own, Lives, Kind, Target
    <3> QED BY <1>6, <3>1 DEF Disconnect, Follow, Alive
  <2> QED BY <1>3, <2>3, <2>4 DEF MInv
<1>7. CASE FreeProperties
  <2>1. /\ app = "free_props" /\ app' = "destroy_manager" /\ Release("props")
        /\ ptr' = [ptr EXCEPT !["props"] = NULL]
    BY <1>7 DEF FreeProperties, App
  <2>2. "props" \in Own
    BY <2>1 DEF Own, Lives, Kind
  <2>3. Own' = Own \ {"props"}
    BY <2>1 DEF MInv, Types, Own, Lives, Kind, Creating, Waiting, Destroying
  <2>4. ~bAES128Used => ptr'["aes"] = NULL
    BY <2>1 DEF MInv, Types, Memory, Kind
  <2> QED BY <1>1, <1>2, <1>3, <1>m, <2>1, <2>2, <2>3, <2>4, ReleaseMemory DEF MInv
<1>8. CASE DestroyManager
  <2>1. app = "destroy_manager" /\ app' = "destroy_semaphores"
    BY <1>8 DEF DestroyManager, App
  <2>2. CASE ptr["manager"] = NULL /\ UNCHANGED <<memory, fault>>
    <3>1. Own' = Own
      BY <2>1, <2>2 DEF Own, Lives, Kind, Creating, Waiting, Destroying, memory
    <3>2. Types' /\ Memory'
      BY <1>1, <1>2, <1>m, <2>1, <2>2, <3>1, GoOnMemory
         DEF Stages, Creating, Waiting, Destroying, memory
    <3> QED BY <1>3, <2>2, <3>2 DEF MInv
  <2>3. CASE /\ ptr["manager"] # NULL /\ Release("manager")
             /\ ptr' = [ptr EXCEPT !["manager"] = NULL]
    <3>1. "manager" \in Own
      BY <2>1, <2>3 DEF Own, Lives, Kind
    <3>2. Own' = Own \ {"manager"}
      BY <2>1, <2>3 DEF MInv, Types, Own, Lives, Kind, Creating, Waiting, Destroying
    <3>3. ~bAES128Used => ptr'["aes"] = NULL
      BY <2>3 DEF MInv, Types, Memory, Kind
    <3> QED BY <1>1, <1>2, <1>3, <1>m, <2>3, <3>1, <3>2, <3>3, ReleaseMemory DEF MInv
  <2> QED BY <1>8, <2>2, <2>3 DEF DestroyManager
<1>9. CASE DestroySemaphores \/ DestroyQueues
  <2>1. PICK k \in {"semaphores", "receive", "send"} :
          /\ Release(k) /\ ptr' = ptr
          /\ <<app, app', k>> \in {<<"destroy_semaphores", "destroy_receive", "semaphores">>,
                                   <<"destroy_receive", "destroy_send", "receive">>,
                                   <<"destroy_send", "none", "send">>}
    BY <1>9 DEF DestroySemaphores, DestroyQueues, App
  <2>2. k \in Own
    BY <2>1 DEF Own, Lives, Kind, Destroying
  <2>3. Own' = Own \ {k}
    BY <2>1 DEF Own, Lives, Kind, Creating, Waiting, Destroying
  <2>4. ~bAES128Used => ptr'["aes"] = NULL
    BY <2>1 DEF MInv, Memory
  <2> QED BY <1>1, <1>2, <1>3, <1>m, <2>1, <2>2, <2>3, <2>4, ReleaseMemory DEF MInv
<1> QED BY <1>5, <1>6, <1>7, <1>8, <1>9 DEF DestroySteps

LEMMA InitMInv == Init => MInv
<1> SUFFICES ASSUME Init PROVE MInv
  OBVIOUS
<1>1. Own = {}
  BY DEF Init, Own, Lives, Creating, Waiting, Destroying
<1> QED BY <1>1, LifecycleAssumption
        DEF Init, MInv, Types, Memory, ManagerInTime, Flags, Stages, Creating, Waiting,
            Destroying, Kind

LEMMA MInvAlways == Spec => []MInv
<1>1. MInv /\ [Next]_vars => MInv'
  <2> SUFFICES ASSUME MInv, [Next]_vars PROVE MInv'
    OBVIOUS
  <2>1. ASSUME NEW t \in Thread, Round(t) PROVE MInv'
    BY <2>1, ThreadMInv
       DEF Round, Begin, Look, UseGlobal, Load, Use, Finish, Constant, flags, memory
  <2>2. CASE Arrive \/ ConnClosed \/ CreateAgain \/ UNCHANGED vars
    BY <2>2, ThreadMInv DEF Arrive, ConnClosed, CreateAgain, vars, Constant, flags, memory
  <2> QED BY <2>1, <2>2, CreateMInv, ConnectMInv, SendMessageMInv, ClearFlagMInv, DestroyMInv DEF Next
<1> QED BY <1>1, InitMInv, PTL DEF Spec

-----------------------------------------------------------------------------
(* The threads.                                                            *)

Places ==
  /\ pc \in [Thread -> {"none", "loop", "look", "work", "ended"}]
  /\ hold \in [Thread -> SUBSET (Kind \X (Client \cup {NULL}))]

\* A thread of the client there is.  It is in a round only while the application uses
\* the client, or is about to, unless destroyIotClient has left it behind in one.
Serves(t) ==
  /\ app \in Waiting => pc[t] = "none"
  /\ app \in {"flags", "queues", "threads"} /\ t[1] # "keep_alive" => pc[t] = "none"
  /\ app \in {"pointers", "use"} /\ t[1] # "keep_alive" => pc[t] \in {"loop", "look", "work"}
  /\ app \in {"flags", "queues", "threads", "pointers", "use"} /\ client = 1
       /\ t[1] = "keep_alive" => pc[t] \in {"loop", "look", "work"}
  /\ pc[t] = "look" => \/ app \in {"flags", "queues", "threads", "pointers", "use"}
                       \/ t \in busy /\ app \in Destroying \cup {"none"}
  /\ pc[t] = "work" => \/ app \in {"pointers", "use"}
                       \/ t \in busy /\ app \in Destroying \cup {"none"}
  /\ app \in {"pointers", "use"} => \A o \in hold[t] : Alive(o)

Settled(t) ==
  /\ t = LIB => \A o \in hold[t] : o[1] = "manager"
  /\ t # LIB =>
       /\ pc[t] # "work" => hold[t] = {}
       /\ t[2] > client => pc[t] = "none"
       /\ t[2] = client => Serves(t)

\* Who may meet what is gone.
LeftBehind(t) == t \in busy \/ t[2] < client

TInv == Places /\ (\A t \in Thread : Settled(t)) /\ FaultNeedsThreadLeftBehind

LEMMA Threads ==
  ASSUME NEW t \in Thread
  PROVE  /\ t # LIB <=> t \in Watched
         /\ t # LIB => t[1] \in {"sender", "receiver", "keep_alive"}
                       /\ t[2] \in Client /\ t = <<t[1], t[2]>>
<1>1. LIB \notin Watched
  <2>1. ASSUME LIB \in Watched PROVE FALSE
    <3>1. LIB[1] \in {"sender", "receiver", "keep_alive"} /\ LIB[1] = "mqtt"
      BY <2>1, LifecycleAssumption DEF LIB
    <3> QED BY <3>1
  <2> QED BY <2>1
<1>2. t \in Watched => /\ t[1] \in {"sender", "receiver", "keep_alive"}
                       /\ t[2] \in Client /\ t = <<t[1], t[2]>>
  BY LifecycleAssumption DEF Client
<1> QED BY <1>1, <1>2 DEF Thread

\* A step of one thread leaves the others as they are.
LEMMA OneThread ==
  ASSUME TInv, NEW t \in Thread, Constant, Places', Settled(t)',
         \A u \in Thread \ {t} : /\ pc'[u] = pc[u] /\ hold'[u] = hold[u]
                                 /\ u \in busy => u \in busy'
  PROVE  \A u \in Thread : Settled(u)'
<1> SUFFICES ASSUME NEW u \in Thread \ {t} PROVE Settled(u)'
  OBVIOUS
<1>1. Settled(u)
  BY DEF TInv
<1>2. /\ pc'[u] = pc[u] /\ hold'[u] = hold[u] /\ (u \in busy => u \in busy')
      /\ UNCHANGED <<client, app, ptr, made, freed>>
  BY DEF Constant
<1> QED BY <1>1, <1>2 DEF Settled, Serves, Alive

\* What a thread of the client follows in a round is there, if it is not left behind.
LEMMA Follows ==
  ASSUME MInv, TInv, NEW t \in Watched, pc[t] \in {"look", "work"}, ~LeftBehind(t),
         pc[t] = "look" => t[1] # "keep_alive"
  PROVE  /\ t[2] = client /\ app \in {"pointers", "use"}
         /\ \A k \in Kind : ptr[k] # NULL => Alive(Target(k))
         /\ \A k \in {"semaphores", "receive", "send", "props"} : Alive(Target(k))
         /\ \A o \in hold[t] : Alive(o)
<1>1. t \in Thread /\ t # LIB
  BY Threads DEF Thread
<1>2. t[2] = client
  <2>1. t[2] \in Nat /\ client \in Nat
    BY <1>1, Threads DEF MInv, Types, Client
  <2> QED BY <1>1, <2>1 DEF TInv, Settled, LeftBehind
<1>3. Settled(t) /\ Serves(t)
  BY <1>1, <1>2 DEF TInv, Settled
<1>4. app \in {"pointers", "use"}
  BY <1>3 DEF Serves, LeftBehind
<1>5. \A k \in Own : Alive(Target(k))
  BY DEF MInv, Memory, Alive, Target
<1>6. \A k \in {"semaphores", "receive", "send", "props"} : k \in Own
  BY <1>4 DEF Own, Lives, Kind, Creating, Waiting, Destroying
<1>7. \A k \in Kind : ptr[k] # NULL => k \in Own
  BY <1>4, LifecycleAssumption
     DEF MInv, Memory, ManagerInTime, Own, Lives, Kind, Creating, Waiting, Destroying
<1> QED BY <1>2, <1>3, <1>4, <1>5, <1>6, <1>7 DEF Serves

\* A fault of one left behind is one that is allowed for.
LEMMA Allowed ==
  ASSUME NEW t \in Thread, NEW o, Follow(t, o) \/ fault' = fault, fault = NoFault,
         fault' # fault => IF t = LIB THEN o[1] # "receive" ELSE LeftBehind(t)'
  PROVE  FaultNeedsThreadLeftBehind'
<1>1. CASE fault' = fault
  BY <1>1 DEF FaultNeedsThreadLeftBehind, NoFault
<1>2. CASE fault' # fault
  <2>1. fault' = [by |-> t, object |-> o]
    BY <1>2 DEF Follow
  <2> QED BY <1>2, <2>1, Threads DEF FaultNeedsThreadLeftBehind, LeftBehind, NoFault
<1> QED BY <1>1, <1>2
-----------------------------------------------------------------------------
(* What the application does to the threads.                               *)

LEMMA CreateTInv ==
  ASSUME MInv, TInv, CreateSteps
  PROVE  TInv'
<1>1. fault' = fault /\ fault = NoFault /\ hold' = hold
  BY DEF CreateSteps, ReadProperties, MakeSecurity, MakeSemaphores, StartKeepAlive,
         SetFlags, MakeQueues, StartThreads, ClearPointers, App, Running
<1>2. FaultNeedsThreadLeftBehind'
  BY <1>1 DEF FaultNeedsThreadLeftBehind
<1>3. client \in Nat /\ \A t \in Thread : t # LIB => t[2] \in Nat
  BY Threads DEF MInv, Types, Client
<1>4. CASE ReadProperties
  <2>1. app = "none" /\ app' = "security" /\ client' = client + 1 /\ pc' = pc
    BY <1>4 DEF ReadProperties, App
  <2>2. Places'
    BY <1>1, <2>1 DEF TInv, Places
  <2>3. ASSUME NEW t \in Thread PROVE Settled(t)'
    <3>1. Settled(t)
      BY DEF TInv
    <3>2. CASE t # LIB /\ t[2] = client'
      BY <1>1, <1>3, <2>1, <3>1, <3>2 DEF Settled, Serves, Waiting
    <3> QED BY <1>1, <1>3, <2>1, <3>1, <3>2 DEF Settled
  <2> QED BY <1>2, <2>2, <2>3 DEF TInv
<1>5. CASE MakeSecurity \/ MakeSemaphores \/ SetFlags \/ MakeQueues
  <2>1. /\ <<app, app'>> \in {<<"security", "semaphores">>, <<"semaphores", "keep_alive">>,
                              <<"flags", "queues">>, <<"queues", "threads">>}
        /\ UNCHANGED <<client, pc, busy>>
    BY <1>5 DEF MakeSecurity, MakeSemaphores, SetFlags, MakeQueues, App
  <2>2. Places'
    BY <1>1, <2>1 DEF TInv, Places
  <2>3. ASSUME NEW t \in Thread PROVE Settled(t)'
    <3>1. Settled(t)
      BY DEF TInv
    <3>2. CASE t # LIB /\ t[2] = client
      <4>1. Serves(t) /\ (pc[t] # "work" => hold[t] = {})
        BY <3>1, <3>2 DEF Settled
      <4>2. pc[t] # "work"
        BY <2>1, <4>1 DEF Serves, Waiting, Destroying
      <4>3. Serves(t)'
        BY <1>1, <2>1, <4>1, <4>2 DEF Serves, Waiting
      <4> QED BY <1>1, <1>3, <2>1, <3>1, <3>2, <4>3 DEF Settled
    <3> QED BY <1>1, <2>1, <3>1, <3>2 DEF Settled
  <2> QED BY <1>2, <2>2, <2>3 DEF TInv
<1>6. CASE StartKeepAlive \/ StartThreads
  <2>1. PICK new \in {{"keep_alive"}, {"sender", "receiver"}} :
          /\ pc' = [t \in Thread |-> IF t \in new \X {client} THEN "loop" ELSE pc[t]]
          /\ \/ app = "keep_alive" /\ app' = "flags" /\ new = {"keep_alive"}
             \/ app = "threads" /\ app' = "pointers" /\ new = {"sender", "receiver"}
          /\ client' = client /\ busy' = busy
    <3>1. CASE StartKeepAlive
      <4>1. \A t \in Thread : t = <<"keep_alive", client>> <=> t \in {"keep_alive"} \X {client}
        OBVIOUS
      <4> QED BY <3>1, <4>1 DEF StartKeepAlive, App
    <3>2. CASE StartThreads
      BY <3>2 DEF StartThreads, App
    <3> QED BY <1>6, <3>1, <3>2
  <2>2. Places'
    BY <1>1, <2>1 DEF TInv, Places
  <2>3. ASSUME NEW t \in Thread PROVE Settled(t)'
    <3>1. Settled(t)
      BY DEF TInv
    <3>2. CASE t = LIB
      BY <1>1, <3>1, <3>2 DEF Settled
    <3>3. CASE t # LIB /\ t[2] # client
      BY <1>1, <2>1, <3>1, <3>3 DEF Settled
    <3>4. CASE t # LIB /\ t[2] = client
      <4>1. Serves(t) /\ (pc[t] # "work" => hold[t] = {})
        BY <3>1, <3>4 DEF Settled
      <4>2. pc[t] # "work" /\ t = <<t[1], client>>
            /\ t[1] \in {"sender", "receiver", "keep_alive"}
        BY <2>1, <3>4, <4>1, Threads DEF Serves, Waiting, Destroying
      <4>3. pc'[t] = IF t[1] \in new THEN "loop" ELSE pc[t]
        BY <2>1, <4>2
      <4>4. Serves(t)'
        BY <1>1, <2>1, <4>1, <4>2, <4>3 DEF Serves, Waiting
      <4> QED BY <1>1, <1>3, <2>1, <3>4, <4>1, <4>2, <4>3, <4>4 DEF Settled
    <3> QED BY <3>2, <3>3, <3>4
  <2> QED BY <1>2, <2>2, <2>3 DEF TInv
<1>7. CASE ClearPointers
  <2>1. /\ app = "pointers" /\ app' = "use" /\ UNCHANGED <<client, made, freed, pc, busy>>
    BY <1>7 DEF ClearPointers, App
  <2>2. Places'
    BY <1>1, <2>1 DEF TInv, Places
  <2>3. ASSUME NEW t \in Thread PROVE Settled(t)'
    <3>1. Settled(t)
      BY DEF TInv
    <3>2. Serves(t) => Serves(t)'
      BY <1>1, <2>1 DEF Serves, Waiting, Alive
    <3> QED BY <1>1, <2>1, <3>1, <3>2 DEF Settled
  <2> QED BY <1>2, <2>2, <2>3 DEF TInv
<1> QED BY <1>4, <1>5, <1>6, <1>7 DEF CreateSteps

LEMMA InUseTInv ==
  ASSUME MInv, TInv, Connect \/ SendMessage \/ ClearFlag
  PROVE  TInv'
<1>1. /\ fault' = fault /\ fault = NoFault /\ hold' = hold /\ app = "use"
      /\ pc' = pc /\ client' = client
  BY DEF Connect, SendMessage, ClearFlag, App, Running
<1>2. FaultNeedsThreadLeftBehind' /\ Places'
  BY <1>1 DEF FaultNeedsThreadLeftBehind, TInv, Places
<1>3. ASSUME NEW t \in Thread PROVE Settled(t)'
  <2>1. Settled(t)
    BY DEF TInv
  <2>2. CASE t # LIB /\ t[2] = client
    <3>1. Serves(t)
      BY <2>1, <2>2 DEF Settled
    <3>2. CASE Connect \/ SendMessage
      <4>1. \A o : Alive(o) => Alive(o)'
        BY <3>2 DEF Connect, SendMessage, Allocate, Alive, memory
      <4>2. app' = "use" /\ busy' = busy
        BY <3>2 DEF Connect, SendMessage, App
      <4> QED BY <1>1, <2>1, <2>2, <3>1, <4>1, <4>2 DEF Settled, Serves
    <3>3. CASE ClearFlag
      <4>1. app' = "destroy_aes" /\ (t \in busy' <=> pc[t] \in {"look", "work"})
        BY <2>2, <3>3, Threads DEF ClearFlag, App
      <4>2. Serves(t)'
        BY <1>1, <3>1, <4>1 DEF Serves, Waiting, Destroying
      <4> QED BY <1>1, <2>1, <2>2, <4>2 DEF Settled
    <3> QED BY <3>2, <3>3
  <2> QED BY <1>1, <2>1, <2>2 DEF Settled
<1> QED BY <1>2, <1>3 DEF TInv

LEMMA DestroyTInv ==
  ASSUME MInv, TInv, DestroySteps
  PROVE  TInv'
<1>1. fault' = fault
  BY DestroyMInv
<1>2. /\ UNCHANGED <<client, pc, hold, busy>> /\ fault = NoFault
      /\ app \in Destroying /\ app' \in Destroying \cup {"none"}
  BY DEF DestroySteps, DestroySecurity, Disconnect, FreeProperties, DestroyManager,
         DestroySemaphores, DestroyQueues, App, Running, Destroying
<1>3. FaultNeedsThreadLeftBehind' /\ Places'
  BY <1>1, <1>2 DEF FaultNeedsThreadLeftBehind, TInv, Places
<1>4. ASSUME NEW t \in Thread PROVE Settled(t)'
  <2>1. Settled(t) /\ (Serves(t) => Serves(t)')
    BY <1>2 DEF TInv, Serves, Waiting, Destroying
  <2> QED BY <1>2, <2>1 DEF Settled
<1> QED BY <1>3, <1>4 DEF TInv
-----------------------------------------------------------------------------
(* The rounds of the threads.                                              *)

\* One thread, at or in its round: what is to be shown of a step of it.
LEMMA StepOfOne ==
  ASSUME TInv, NEW t \in Thread, NEW o, Constant, fault = NoFault,
         Follow(t, o) \/ fault' = fault,
         fault' # fault => IF t = LIB THEN o[1] # "receive" ELSE LeftBehind(t),
         pc' \in {pc, [pc EXCEPT ![t] = pc'[t]]}, pc'[t] \in {"none", "loop", "look", "work", "ended"},
         hold' \in {hold, [hold EXCEPT ![t] = hold'[t]]},
         hold'[t] \subseteq Kind \X (Client \cup {NULL}),
         \A u \in busy : u = t \/ u \in busy',
         fault' # fault => busy' = busy,
         Settled(t)'
  PROVE  TInv'
<1>1. Places'
  BY DEF TInv, Places
<1>2. \A u \in Thread \ {t} : /\ pc'[u] = pc[u] /\ hold'[u] = hold[u]
                              /\ u \in busy => u \in busy'
  BY DEF TInv, Places
<1>3. \A u \in Thread : Settled(u)'
  BY <1>1, <1>2, OneThread
<1>4. fault' # fault => IF t = LIB THEN o[1] # "receive" ELSE LeftBehind(t)'
  BY DEF LeftBehind, Constant
<1>5. FaultNeedsThreadLeftBehind'
  BY <1>4, Allowed
<1> QED BY <1>1, <1>3, <1>5 DEF TInv

\* A round begins, or the thread ends.
LEMMA BeginTInv ==
  ASSUME MInv, TInv, NEW t \in Thread, Begin(t)
  PROVE  TInv'
<1> DEFINE next == IF thread_all_flag = 1 THEN "look" ELSE "ended"
<1>1. /\ Constant /\ hold' = hold /\ busy' = busy /\ fault = NoFault /\ fault' = fault
      /\ t # LIB /\ pc[t] = "loop" /\ pc' = [pc EXCEPT ![t] = next]
      /\ UNCHANGED <<client, app, ptr, made, freed, thread_all_flag>>
  BY DEF Begin, Constant, At, Running, Goto, flags, memory
<1>2. t \in Watched /\ t[1] \in {"sender", "receiver", "keep_alive"} /\ t[2] \in Client
  BY <1>1, Threads
<1>3. Settled(t) /\ hold[t] = {} /\ pc'[t] = next /\ pc' = [pc EXCEPT ![t] = pc'[t]]
  BY <1>1 DEF TInv, Places, Settled
<1>4. client \in Nat /\ t[2] \in Nat /\ (t[2] > client => FALSE)
  BY <1>1, <1>2, <1>3 DEF MInv, Types, Client, Settled
<1>5. t[2] = client => Serves(t)'
  <2> SUFFICES ASSUME t[2] = client PROVE Serves(t)'
    OBVIOUS
  <2>1. Serves(t) /\ client # 0
    BY <1>1, <1>2, <1>3 DEF Settled, Client
  <2>2. /\ app \notin Waiting
        /\ t[1] # "keep_alive" => app \notin {"flags", "queues", "threads"}
    BY <1>1, <2>1 DEF Serves
  <2>3. CASE thread_all_flag = 1
    <3>1. app \in {"flags", "queues", "threads", "pointers", "use"}
      BY <2>1, <2>2, <2>3 DEF MInv, Types, Flags, Stages, Creating
    <3> QED BY <1>1, <1>3, <2>2, <2>3, <3>1 DEF Serves
  <2>4. CASE thread_all_flag # 1
    <3>1. /\ app \notin {"pointers", "use"}
          /\ client = 1 => app \notin {"flags", "queues", "threads"}
      BY <2>4 DEF MInv, Flags, Creating
    <3> QED BY <1>1, <1>3, <2>2, <2>4, <3>1 DEF Serves
  <2> QED BY <2>3, <2>4
<1>6. Settled(t)'
  BY <1>1, <1>3, <1>4, <1>5 DEF Settled
<1> QED BY <1>1, <1>3, <1>6, StepOfOne DEF TInv, Places

\* It goes on, or the thread sleeps again.
LEMMA LookTInv ==
  ASSUME MInv, TInv, NEW t \in Thread, Look(t)
  PROVE  TInv'
<1>1. /\ Constant /\ hold' = hold /\ fault = NoFault /\ t # LIB /\ pc[t] = "look"
      /\ UNCHANGED <<client, app, ptr, made, freed>> /\ Leave(t)
      /\ LookInQueue(t) \/ LookAtConnection(t)
  BY DEF Look, Constant, At, Running, flags, memory
<1>2. t \in Watched /\ Settled(t) /\ hold[t] = {}
  BY <1>1, Threads DEF TInv, Settled
<1>3. \/ pc' = [pc EXCEPT ![t] = "work"] /\ pc'[t] = "work"
      \/ pc' = [pc EXCEPT ![t] = "loop"] /\ pc'[t] = "loop"
  BY <1>1 DEF LookInQueue, LookAtConnection, Goto, TInv, Places
<1>4. \/ fault' = fault /\ (t[1] = "keep_alive" /\ pc'[t] = "work" => thread_conn_flag = 1)
      \/ t[1] # "keep_alive" /\ \E k \in {"send", "receive"} : Follow(t, Target(k))
  <2>1. CASE LookInQueue(t)
    BY <2>1 DEF LookInQueue, Queue
  <2>2. CASE LookAtConnection(t)
    BY <1>3, <2>2 DEF LookAtConnection, Goto, TInv, Places
  <2> QED BY <1>1, <2>1, <2>2
<1>5. fault' # fault => LeftBehind(t)
  <2> SUFFICES ASSUME fault' # fault, ~LeftBehind(t) PROVE FALSE
    OBVIOUS
  <2>1. PICK k \in {"send", "receive"} : t[1] # "keep_alive" /\ Follow(t, Target(k))
    BY <1>4
  <2>2. Alive(Target(k))
    BY <1>1, <1>2, <2>1, Follows
  <2> QED BY <2>1, <2>2 DEF Follow
<1>6. \A u \in busy : u = t \/ u \in busy'
  BY <1>1 DEF Leave
<1>7. fault' # fault => busy' = busy
  BY <1>1 DEF Leave
<1>8. pc'[t] = "work" => (t \in busy => t \in busy')
  BY <1>1 DEF Leave
<1>9. t[2] = client => Serves(t)'
  <2> SUFFICES ASSUME t[2] = client PROVE Serves(t)'
    OBVIOUS
  <2>1. Serves(t)
    BY <1>1, <1>2 DEF Settled
  <2>2. CASE pc'[t] = "loop"
    BY <1>1, <1>2, <2>1, <2>2 DEF Serves
  <2>3. CASE pc'[t] = "work"
    <3>1. \/ app \in {"pointers", "use"}
          \/ t \in busy /\ app \in Destroying \cup {"none"}
      <4>1. CASE t[1] = "keep_alive"
        BY <1>1, <1>4, <2>1, <2>3, <4>1 DEF Serves, MInv, Flags, Destroying
      <4>2. CASE t[1] # "keep_alive"
        BY <1>1, <2>1, <4>2 DEF Serves
      <4> QED BY <4>1, <4>2
    <3> QED BY <1>1, <1>2, <1>8, <2>1, <2>3, <3>1 DEF Serves
  <2> QED BY <1>3, <2>2, <2>3
<1>10. Settled(t)'
  BY <1>1, <1>2, <1>3, <1>9 DEF Settled
<1>11. pc' = [pc EXCEPT ![t] = pc'[t]] /\ pc'[t] \in {"none", "loop", "look", "work", "ended"}
  BY <1>3
<1>12. hold'[t] \subseteq Kind \X (Client \cup {NULL})
  BY <1>1, <1>2
<1>13. CASE fault' = fault
  BY <1>1, <1>6, <1>10, <1>11, <1>12, <1>13, StepOfOne
<1>14. CASE fault' # fault
  <2>1. PICK k \in {"send", "receive"} : Follow(t, Target(k))
    BY <1>4, <1>14
  <2> QED BY <1>1, <1>5, <1>6, <1>7, <1>10, <1>11, <1>12, <2>1, StepOfOne
<1> QED BY <1>13, <1>14

\* A thread in its round follows a pointer to o, and may drop what it holds.
LEMMA FollowTInv ==
  ASSUME MInv, TInv, NEW t \in Thread, NEW o, pc[t] = "work", fault = NoFault,
         Constant, pc' = pc, busy' = busy, Follow(t, o),
         hold' \in {hold, [hold EXCEPT ![t] = {}]},
         t = LIB => o[1] # "receive",
         t # LIB /\ ~LeftBehind(t) => Alive(o)
  PROVE  TInv'
<1>1. fault' # fault => IF t = LIB THEN o[1] # "receive" ELSE LeftBehind(t)
  BY DEF Follow
<1>2. hold' \in {hold, [hold EXCEPT ![t] = hold'[t]]} /\ hold'[t] \subseteq hold[t]
  BY DEF TInv, Places
<1>3. Settled(t)'
  BY <1>2 DEF TInv, Settled, Serves, Alive, Constant, memory
<1> QED BY <1>1, <1>2, <1>3, StepOfOne DEF TInv, Places

LEMMA UseGlobalTInv ==
  ASSUME MInv, TInv, NEW t \in Thread, UseGlobal(t)
  PROVE  TInv'
<1>1. /\ Constant /\ pc[t] = "work" /\ fault = NoFault
      /\ UNCHANGED <<pc, hold, busy>>
  BY DEF UseGlobal, Constant, Working, At, Running, flags
<1>2. PICK k \in Direct[t[1]] : Follow(t, Target(k))
  BY DEF UseGlobal
<1>3. t # LIB /\ k \in {"semaphores", "receive", "send"}
  <2>1. t[1] \in {"sender", "receiver", "keep_alive", "mqtt"} /\ (t = LIB => t[1] = "mqtt")
    BY Threads DEF LIB
  <2> QED BY <1>2, <2>1 DEF Direct
<1>4. ~LeftBehind(t) => Alive(Target(k))
  BY <1>1, <1>3, Threads, Follows
<1> QED BY <1>1, <1>2, <1>3, <1>4, FollowTInv

LEMMA UseRoundTInv ==
  ASSUME MInv, TInv, NEW t \in Thread, Use(t)
  PROVE  TInv'
<1>1. /\ Constant /\ pc[t] = "work" /\ fault = NoFault
      /\ UNCHANGED <<pc, busy>> /\ hold' = [hold EXCEPT ![t] = {}]
  BY DEF Use, Constant, At, Running, flags, memory
<1>2. PICK o \in hold[t] : Follow(t, o)
  BY DEF Use
<1>3. t = LIB => o[1] # "receive"
  BY <1>2 DEF TInv, Settled
<1>4. t # LIB /\ ~LeftBehind(t) => Alive(o)
  BY <1>1, <1>2, Threads, Follows
<1> QED BY <1>1, <1>2, <1>3, <1>4, FollowTInv

\* The arguments of a call: those that are tested for NULL, and the properties.
LEMMA LoadTInv ==
  ASSUME MInv, TInv, NEW t \in Thread, Load(t)
  PROVE  TInv'
<1>1. /\ Constant /\ pc[t] = "work" /\ fault = NoFault
      /\ UNCHANGED <<pc, busy, fault, client, app, ptr, made, freed>>
  BY DEF Load, Constant, Working, At, Running, flags, memory
<1>2. PICK args \in Calls[t[1]] :
        /\ \A k \in args \ {"props"} : ptr[k] # NULL
        /\ hold' = [hold EXCEPT ![t] = {Target(k) : k \in args}]
  BY DEF Load
<1>3. args \subseteq Kind /\ (t = LIB => args = {"manager"})
  <2>1. t[1] \in {"sender", "receiver", "keep_alive", "mqtt"} /\ (t = LIB => t[1] = "mqtt")
    BY Threads DEF LIB
  <2> QED BY <1>2, <2>1 DEF Calls, Kind
<1>4. /\ hold' = [hold EXCEPT ![t] = hold'[t]] /\ hold'[t] = {Target(k) : k \in args}
      /\ hold'[t] \subseteq Kind \X (Client \cup {NULL})
  <2>1. hold'[t] = {Target(k) : k \in args}
    BY <1>2 DEF TInv, Places
  <2>2. \A k \in args : Target(k) \in Kind \X (Client \cup {NULL})
    BY <1>3 DEF MInv, Types, Target
  <2> QED BY <1>2, <2>1, <2>2
<1>5. CASE t = LIB
  <2>1. \A o \in hold'[t] : o[1] = "manager"
    BY <1>3, <1>4, <1>5 DEF Target
  <2>2. Settled(t)'
    BY <1>5, <2>1 DEF Settled
  <2> QED BY <1>1, <1>4, <2>2, StepOfOne DEF TInv, Places
<1>6. CASE t # LIB
  <2>1. Settled(t)
    BY DEF TInv
  <2>2. t[2] = client /\ Serves(t) => Serves(t)'
    <3>1. ASSUME t[2] = client, app \in {"pointers", "use"}
          PROVE  \A o \in hold'[t] : Alive(o)
      <4>1. \A k \in Own : Alive(Target(k))
        BY DEF MInv, Memory, Alive, Target
      <4>2. "props" \in Own /\ \A k \in Kind : ptr[k] # NULL => k \in Own
        BY <3>1, LifecycleAssumption
           DEF MInv, Memory, ManagerInTime, Own, Lives, Kind, Creating, Waiting, Destroying
      <4>3. \A k \in args : k \in Own
        BY <1>2, <1>3, <4>2
      <4> QED BY <1>4, <4>1, <4>3
    <3> QED BY <1>1, <3>1 DEF Serves, Alive
  <2>3. Settled(t)'
    BY <1>1, <1>6, <2>1, <2>2 DEF Settled
  <2> QED BY <1>1, <1>4, <2>3, StepOfOne DEF TInv, Places
<1> QED BY <1>5, <1>6

LEMMA FinishTInv ==
  ASSUME MInv, TInv, NEW t \in Thread, Finish(t)
  PROVE  TInv'
<1>1. /\ Constant /\ pc[t] = "work" /\ hold[t] = {} /\ fault = NoFault
      /\ UNCHANGED <<hold, client, app, ptr, made, freed>>
      /\ pc' = [pc EXCEPT ![t] = "loop"]
      /\ busy' = IF pc'[t] = "loop" /\ fault' = fault THEN busy \ {t} ELSE busy
  BY DEF Finish, Leave, Constant, Working, At, Running, Goto, flags, memory
<1>2. pc'[t] = "loop" /\ pc' = [pc EXCEPT ![t] = pc'[t]] /\ Settled(t)
  BY <1>1 DEF TInv, Places
<1>3. t # LIB => t \in Watched
  BY Threads
<1>4. t # LIB /\ t[2] = client => Serves(t)'
  <2>1. ASSUME t # LIB, t[2] = client
        PROVE  /\ app \notin Waiting
               /\ app \notin {"flags", "queues", "threads"}
    BY <1>1, <1>2, <2>1 DEF Settled, Serves, Waiting, Destroying
  <2> QED BY <1>1, <1>2, <2>1 DEF Serves
<1>5. Settled(t)'
  BY <1>1, <1>2, <1>4 DEF Settled
<1>6. CASE t[1] \in DOMAIN Queue /\ Follow(t, Target(Queue[t[1]]))
  <2>1. Queue[t[1]] \in {"send", "receive"} /\ t # LIB
    BY <1>6 DEF Queue, LIB
  <2>2. ~LeftBehind(t) => Alive(Target(Queue[t[1]]))
    BY <1>1, <1>3, <2>1, Follows
  <2>3. fault' # fault => LeftBehind(t)
    BY <1>6, <2>2 DEF Follow
  <2> QED BY <1>1, <1>2, <1>5, <1>6, <2>1, <2>3, StepOfOne DEF TInv, Places
<1>7. CASE fault' = fault
  BY <1>1, <1>2, <1>5, <1>7, StepOfOne DEF TInv, Places
<1> QED BY <1>6, <1>7 DEF Finish

\* The library's thread: a message can only arrive while the manager, and hence the
\* receive queue, is there.
LEMMA LibTInv ==
  ASSUME MInv, TInv, Arrive \/ ConnClosed \/ CreateAgain
  PROVE  TInv'
<1>1. /\ Constant /\ fault = NoFault /\ hold' = hold /\ busy' = busy /\ LIB \in Thread
      /\ UNCHANGED <<client, app, ptr, made, freed>>
  BY DEF Arrive, ConnClosed, CreateAgain, Constant, Working, At, Running, flags, memory, Thread
<1>2. Settled(LIB) /\ Settled(LIB)'
  BY <1>1 DEF TInv, Settled
<1>3. CASE Arrive
  <2>1. PICK c \in Client : Alive(<<"manager", c>>)
    BY <1>3 DEF Arrive, Listening
  <2>2. "manager" \in Own
    BY <2>1 DEF MInv, Memory, Alive, Local
  <2>3. "receive" \in Own
    BY <2>2 DEF Own, Lives, Kind, Destroying
  <2>4. Alive(Target("receive"))
    BY <2>3 DEF MInv, Memory, Alive, Target
  <2>5. fault' = fault /\ pc' = pc
    BY <1>3, <2>4 DEF Arrive, Follow
  <2> QED BY <1>1, <1>2, <2>5, StepOfOne DEF TInv, Places
<1>4. CASE ConnClosed
  <2>1. fault' = fault /\ pc' = [pc EXCEPT ![LIB] = "work"]
    BY <1>4 DEF ConnClosed, Goto
  <2>2. pc'[LIB] = "work" /\ pc' = [pc EXCEPT ![LIB] = pc'[LIB]]
    BY <1>1, <2>1 DEF TInv, Places
  <2> QED BY <1>1, <1>2, <2>1, <2>2, StepOfOne DEF TInv, Places
<1>5. CASE CreateAgain
  <2>1. fault' = [by |-> LIB, object |-> Target("props")] /\ pc' = pc
    BY <1>5 DEF CreateAgain
  <2>2. FaultNeedsThreadLeftBehind'
    BY <2>1 DEF FaultNeedsThreadLeftBehind, Target
  <2>3. \A t \in Thread : Settled(t)'
    BY <1>1, <2>1 DEF TInv, Settled, Serves, Alive
  <2> QED BY <1>1, <2>1, <2>2, <2>3 DEF TInv, Places
<1> QED BY <1>3, <1>4, <1>5

LEMMA InitTInv == Init => TInv
<1> SUFFICES ASSUME Init PROVE TInv
  OBVIOUS
<1>1. Places /\ fault = NoFault
  BY DEF Init, Places
<1>2. \A t \in Thread : t # LIB => t[2] > 0
  BY Threads DEF Client
<1>3. \A t \in Thread : Settled(t)
  BY <1>2 DEF Init, Settled
<1> QED BY <1>1, <1>3 DEF TInv, FaultNeedsThreadLeftBehind

LEMMA TInvAlways == Spec => [](MInv /\ TInv)
<1>1. MInv /\ TInv /\ [Next]_vars => TInv'
  <2> SUFFICES ASSUME MInv, TInv, [Next]_vars PROVE TInv'
    OBVIOUS
  <2>1. ASSUME NEW t \in Thread, Round(t) PROVE TInv'
    BY <2>1, BeginTInv, LookTInv, UseGlobalTInv, LoadTInv, UseRoundTInv, FinishTInv DEF Round
  <2>2. CASE UNCHANGED vars
    <3>1. UNCHANGED <<client, app, ptr, made, freed, pc, hold, busy, fault>>
      BY <2>2 DEF vars, memory
    <3> QED BY <3>1 DEF TInv, Places, Settled, Serves, Alive, FaultNeedsThreadLeftBehind
  <2> QED BY <2>1, <2>2, LibTInv, CreateTInv, InUseTInv, DestroyTInv DEF Next
<1> QED BY <1>1, InitTInv, MInvAlways, PTL DEF Spec

\* NULL or freed memory is followed only by a thread that destroyIotClient left
\* behind or by a callback of the library, whenever each of them runs: a client's own
\* threads meet nothing that is gone, and the application frees nothing twice
\* (IotClient.c:236-279).
THEOREM LifecycleFaults == Spec => []FaultNeedsThreadLeftBehind
<1>1. TInv => FaultNeedsThreadLeftBehind
  BY DEF TInv
<1> QED BY <1>1, TInvAlways, PTL

\* While the application uses a client its sender and receiver run, whatever was left
\* of the clients before; the keep-alive thread surely does for the first one only
\* (IotClient.c:162-166, 180-197).
THEOREM LifecycleServed == Spec => []ServedByThreads
<1>1. MInv /\ TInv => ServedByThreads
  <2> SUFFICES ASSUME MInv, TInv, app = "use", NEW t \in Watched, t[2] = client,
                      t[1] # "keep_alive" \/ client = 1
               PROVE  pc[t] \in {"loop", "look", "work"}
    BY DEF ServedByThreads
  <2>1. t \in Thread /\ t # LIB
    BY Threads DEF Thread
  <2>2. Serves(t)
    BY <2>1 DEF TInv, Settled
  <2> QED BY <2>2 DEF Serves
<1> QED BY <1>1, TInvAlways, PTL
-----------------------------------------------------------------------------
(* What is left when a client is destroyed.                                *)

Connected == \E c \in Client : <<"manager", c>> \in made

\* Nothing is put into a queue, and no round has anything to do, before a manager
\* was made.
Messages ==
  /\ thread_conn_flag = 1 => Connected
  /\ queued # {} => Connected
  /\ \A t \in Watched : pc[t] = "work" => Connected

LEMMA StillConnected ==
  ASSUME MInv, [Next]_vars, Connected
  PROVE  Connected'
<1>1. made \subseteq made'
  <2>1. ASSUME NEW t \in Thread, Round(t) PROVE made \subseteq made'
    BY <2>1 DEF Round, Begin, Look, UseGlobal, Load, Use, Finish, memory
  <2>2. CASE CreateSteps \/ Connect \/ SendMessage \/ ClearFlag
    BY <2>2 DEF CreateSteps, ReadProperties, MakeSecurity, MakeSemaphores, StartKeepAlive,
                SetFlags, MakeQueues, StartThreads, ClearPointers, Connect, SendMessage,
                ClearFlag, Allocate, memory
  <2>3. CASE DestroySteps
    BY <2>3 DEF DestroySteps, DestroySecurity, Disconnect, FreeProperties, DestroyManager,
                DestroySemaphores, DestroyQueues, Release, memory
  <2>4. CASE Arrive \/ ConnClosed \/ CreateAgain \/ UNCHANGED vars
    BY <2>4 DEF Arrive, ConnClosed, CreateAgain, memory, vars
  <2> QED BY <2>1, <2>2, <2>3, <2>4 DEF Next
<1> QED BY <1>1 DEF Connected

LEMMA HasManager ==
  ASSUME MInv, app = "use", ptr["manager"] # NULL
  PROVE  Connected
<1>1. "manager" \in Own
  BY DEF Own, Lives, Kind
<1>2. <<"manager", client>> \in made /\ client \in Client
  BY <1>1 DEF MInv, Memory, Types, Client
<1> QED BY <1>2 DEF Connected

LEMMA MessagesStep ==
  ASSUME MInv, TInv, Messages, [Next]_vars
  PROVE  Messages'
<1>1. CASE Connected
  BY <1>1, StillConnected DEF Messages
<1>2. CASE ~Connected
  <2>1. thread_conn_flag # 1 /\ queued = {} /\ \A t \in Watched : pc[t] # "work"
    BY <1>2 DEF Messages
  <2>2. CASE Connect
    <3>1. app = "use" /\ ptr["manager"] = NULL
      BY <1>2, <2>2, HasManager DEF Connect, App
    <3>2. client \in Client /\ client' = client /\ made' = made \cup ({"manager"} \X {client'})
      BY <2>2, <3>1 DEF MInv, Types, Client, Connect, Allocate
    <3>3. Connected'
      BY <3>2 DEF Connected
    <3> QED BY <3>3 DEF Messages
  <2>3. CASE SendMessage
    BY <1>2, <2>3, HasManager DEF SendMessage, App
  <2>4. CASE Arrive
    BY <1>2, <2>4 DEF Arrive, Listening, Alive, Connected
  <2>5. ASSUME /\ thread_conn_flag' \in {thread_conn_flag, 0} /\ queued' = queued
               /\ \A t \in Watched : pc'[t] = "work" => pc[t] = "work"
        PROVE  Messages'
    BY <2>1, <2>5 DEF Messages
  <2>6. CASE CreateSteps
    <3>1. thread_conn_flag' \in {thread_conn_flag, 0} /\ queued' \in {queued, {}}
      BY <2>6 DEF CreateSteps, ReadProperties, MakeSecurity, MakeSemaphores, StartKeepAlive,
                  SetFlags, MakeQueues, StartThreads, ClearPointers, flags, memory
    <3>2. \A t \in Watched : pc'[t] = "work" => pc[t] = "work"
      BY <2>6 DEF CreateSteps, ReadProperties, MakeSecurity, MakeSemaphores, StartKeepAlive,
                  SetFlags, MakeQueues, StartThreads, ClearPointers, Thread
    <3> QED BY <2>1, <2>5, <3>1, <3>2
  <2>7. CASE ClearFlag \/ DestroySteps
    BY <2>5, <2>7 DEF ClearFlag, DestroySteps, DestroySecurity, Disconnect, FreeProperties,
                      DestroyManager, DestroySemaphores, DestroyQueues, Release, flags, memory
  <2>8. CASE ConnClosed
    <3>1. \A t \in Watched : pc'[t] = pc[t]
      BY <2>8, Threads DEF ConnClosed, Goto, TInv, Places, Thread
    <3> QED BY <2>5, <2>8, <3>1 DEF ConnClosed, memory
  <2>9. CASE CreateAgain \/ UNCHANGED vars
    BY <2>5, <2>9 DEF CreateAgain, vars, flags, memory
  <2>10. ASSUME NEW t \in Thread, Round(t) PROVE Messages'
    <3>1. CASE Begin(t)
      <4>1. \A u \in Watched : pc'[u] = "work" => pc[u] = "work"
        BY <3>1 DEF Begin, Goto, TInv, Places, Thread
      <4> QED BY <2>5, <3>1, <4>1 DEF Begin, flags, memory
    <3>2. CASE Look(t)
      <4>1. \A u \in Watched : pc'[u] = "work" => pc[u] = "work"
        BY <2>1, <3>2 DEF Look, LookInQueue, LookAtConnection, Goto, TInv, Places, Thread
      <4> QED BY <2>5, <3>2, <4>1 DEF Look, flags, memory
    <3>3. CASE Load(t) \/ Use(t)
      BY <2>5, <3>3 DEF Load, Use, flags, memory
    <3>4. CASE UseGlobal(t) \/ Finish(t)
      <4>1. t = LIB
        BY <2>1, <3>4, Threads DEF UseGlobal, Finish, Working, At
      <4>2. t[1] = "mqtt"
        BY <4>1 DEF LIB
      <4>3. Finish(t) /\ t[1] \notin DOMAIN Queue
        BY <3>4, <4>2 DEF UseGlobal, Direct, Queue
      <4>4. \A u \in Watched : pc'[u] = "work" => pc[u] = "work"
        BY <4>3 DEF Finish, Goto, TInv, Places, Thread
      <4> QED BY <2>5, <4>3, <4>4 DEF Finish, flags
    <3> QED BY <2>10, <3>1, <3>2, <3>3, <3>4 DEF Round
  <2> QED BY <2>2, <2>3, <2>4, <2>6, <2>7, <2>8, <2>9, <2>10 DEF Next
<1> QED BY <1>1, <1>2

\* What destroyIotClient leaves of a client, whatever its threads and the callbacks of
\* the library do meanwhile: the file and the line of readProperties, once for each
\* client there was, and messages only if one of them had a manager
\* (IotClient.c:236-279, 867-931, queue.c:22-32).
THEOREM LifecycleOnlyLeaks == Spec => []OnlyLeaks
<1>1. Init => Messages
  BY Threads DEF Init, Messages, Thread
<1>2. MInv /\ TInv /\ Messages => OnlyLeaks
  <2> SUFFICES ASSUME MInv, TInv, Messages, app = "none"
               PROVE  /\ made \ freed = Local \X (1 .. client)
                      /\ queued # {} => \E c \in Client : <<"manager", c>> \in freed
    BY DEF OnlyLeaks
  <2>1. Own = {}
    BY DEF Own, Lives, Creating, Waiting, Destroying, MInv, Memory, ManagerInTime
  <2>2. made \ freed = Local \X (1 .. client)
    BY <2>1 DEF MInv, Memory
  <2>3. \A c \in Client : <<"manager", c>> \in made => <<"manager", c>> \in freed
    BY <2>2 DEF Local
  <2> QED BY <2>2, <2>3 DEF Messages, Connected
<1> QED BY <1>1, <1>2, TInvAlways, MessagesStep, PTL DEF Spec
=============================================================================
