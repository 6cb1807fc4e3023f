--------------------------- MODULE StartupProofs ---------------------------
(***************************************************************************)
(* Proofs about Startup for any property files and any number of clients,  *)
(* logins and calls: the memory of every exit of the API manager, the token*)
(* its requests carry, the code of a client, and the settings of its file. *)
(***************************************************************************)
EXTENDS Startup, WellFoundedInduction, TLAPS

Manager == {"manager", "protocol"}
Info == Getter \cup {"get_connectioninfo_ita"}
Functions == Info \cup {"do_login", "do_custom"}

\* The blocks a call holds at the step it is in.
Held == Manager \cup Temporaries(call)
          \cup (IF response = "NULL" THEN {} ELSE {"response"})
          \cup (IF step = "take" THEN {"object"} ELSE {})

\* Where a call can be, and what it has: two functions make an object of the
\* response, and they read it only if there is one.
Steps ==
  /\ call = "none" <=> step = "none"
  /\ ~Idle => call \in Functions
  /\ Idle \/ step = "send" => response = "NULL"
  /\ step \in {"parse", "take"} => call \in {"do_login", "get_connectioninfo_ita"}
  /\ step = "take" => response # "NULL"
  /\ step = "hand over" => call \in Getter \cup {"do_custom"}

\* The allocated blocks are known in every state, not only between calls: that
\* is what makes NothingLeaked inductive.
Memory ==
  /\ Idle => heap \in {{}, Manager}
  /\ ~Idle => heap = Held
  /\ ~fault

\* The token of a manager is that of its last successful login, and a request that
\* needs one was made when there was one.
Session ==
  /\ "manager" \in heap => userToken = login
  /\ ~Idle => sent.function = call
  /\ ~Idle /\ call \in Info => sent.token = login /\ login # 0

IInv == Steps /\ Memory /\ Session
-----------------------------------------------------------------------------
(* Facts about the names of blocks and functions, which are finitely many. *)

LEMMA Blocks ==
  ASSUME NEW f
  PROVE  /\ Temporaries(f) \subseteq {"hashed", "header", "service"}
         /\ "response" \notin Temporaries(f) /\ "object" \notin Temporaries(f)
         /\ Temporaries(f) \cap Manager = {}
BY DEF Temporaries, Manager

LEMMA InitIInv == Init => IInv
BY DEF Init, ApiInit, IInv, Steps, Memory, Session, Idle, Manager
-----------------------------------------------------------------------------
(* The functions of the API manager, one lemma each.                       *)

LEMMA CreateInv == ASSUME IInv, NEW prop, Create(prop) PROVE IInv'
<1>1. Idle /\ call' = "none" /\ step' = "none" /\ response' = "NULL"
  BY DEF Create, Return
<1>2. heap \in {{}, Manager} /\ ~fault
  BY <1>1 DEF IInv, Memory
<1>3. heap' \in {{}, Manager} /\ ~fault' /\ ("manager" \in heap' => userToken' = login')
  BY <1>2 DEF Create, Allocated, Manager, IInv, Session
<1> QED BY <1>1, <1>3 DEF IInv, Steps, Memory, Session, Idle

LEMMA DestroyInv == ASSUME IInv, Destroy PROVE IInv'
BY DEF IInv, Destroy, Steps, Memory, Session, Idle, Manager

LEMMA IsLoginedInv == ASSUME IInv, IsLogined PROVE IInv'
BY DEF IInv, IsLogined, Return, Steps, Memory, Session, Idle, Manager

LEMMA BeginInv ==
  ASSUME IInv, NEW f \in Functions, NEW complete \in BOOLEAN, Begin(f, complete)
  PROVE  IInv'
<1>1. CASE Refused(f, complete) /\ Return("FAILURE") /\ UNCHANGED <<heap, fault, sent>>
  BY <1>1 DEF IInv, Begin, Return, Steps, Memory, Session, Idle, Manager
<1>2. CASE /\ ~Refused(f, complete)
           /\ Allocated(Temporaries(f))
           /\ call' = f /\ step' = "send"
           /\ sent' = [function |-> f,
                       token |-> IF f = "do_login" THEN 0 ELSE userToken]
           /\ UNCHANGED <<response, returned>>
  <2>1. f # "none" /\ Idle /\ response = "NULL" /\ UNCHANGED <<userToken, login, response>>
    BY <1>2 DEF Begin, IInv, Steps, Functions, Info, Getter
  <2>2. heap = Manager
    BY <1>2, <2>1 DEF IInv, Memory, Refused, Live, Manager
  <2>3. Steps'
    BY <1>2, <2>1 DEF Steps, Idle
  <2>4. Memory'
    BY <1>2, <2>1, <2>2 DEF IInv, Memory, Allocated, Held, Idle, Temporaries
  <2>5. f \in Info => userToken # 0 /\ sent'.token = userToken
    BY <1>2 DEF Refused, NeedsToken, Info, Getter
  <2>6. Session'
    BY <1>2, <2>1, <2>2, <2>5, Blocks DEF IInv, Session, Allocated, Idle, Manager
  <2> QED BY <2>3, <2>4, <2>6 DEF IInv
<1> QED BY <1>1, <1>2 DEF Begin

LEMMA SendInv == ASSUME IInv, Send PROVE IInv'
<1>1. ~Idle /\ response = "NULL" /\ UNCHANGED <<userToken, call, login, sent>>
  BY DEF Send, IInv, Steps, Idle
<1>2. \/ step' = "hand over" /\ call \in Getter \cup {"do_custom"}
      \/ step' = "parse" /\ call \in {"do_login", "get_connectioninfo_ita"}
  BY <1>1 DEF Send, IInv, Steps, Functions, Info
<1>3. Steps'
  BY <1>1, <1>2 DEF IInv, Steps, Idle
<1>4. Memory'
  <2>1. heap = Manager \cup Temporaries(call) /\ ~fault
    BY <1>1 DEF Send, IInv, Memory, Held
  <2>2. Held' = Manager \cup Temporaries(call)
                  \cup (IF response' = "NULL" THEN {} ELSE {"response"})
    BY <1>1, <1>2 DEF Held, Temporaries
  <2>3. fault' = fault /\ heap' = heap \cup (IF response' = "NULL" THEN {} ELSE {"response"})
    BY DEF Send, Allocated
  <2> QED BY <1>1, <2>1, <2>2, <2>3 DEF Memory, Idle
<1>5. Session'
  BY <1>1, <1>4 DEF IInv, Session, Memory, Held, Idle, Manager
<1> QED BY <1>3, <1>4, <1>5 DEF IInv

LEMMA HandOverInv == ASSUME IInv, HandOver PROVE IInv'
<1>1. ~Idle /\ step # "take" /\ call' = "none" /\ response' = "NULL" /\ step' = "none"
      /\ UNCHANGED <<userToken, login>>
  BY DEF HandOver, IInv, Steps, Idle, Return
<1>2. heap' = Manager /\ ~fault'
  <2>1. heap = Held /\ ~fault
    BY <1>1 DEF IInv, Memory
  <2>2. CASE response = "NULL" /\ Freed(Temporaries(call))
    BY <1>1, <2>1, <2>2, Blocks DEF Held, Freed
  <2>3. CASE response # "NULL" /\ Freed(Temporaries(call) \cup {"response"})
    BY <1>1, <2>1, <2>3, Blocks DEF Held, Freed, Manager
  <2> QED BY <2>2, <2>3 DEF HandOver
<1>3. userToken = login
  BY <1>1 DEF IInv, Memory, Session, Held, Manager
<1> QED BY <1>1, <1>2, <1>3 DEF IInv, Steps, Memory, Session, Idle

LEMMA ParseInv == ASSUME IInv, Parse PROVE IInv'
<1>1. /\ ~Idle /\ step = "parse" /\ heap = Held /\ ~fault /\ userToken = login
      /\ UNCHANGED <<userToken, login, sent>>
  BY DEF Parse, IInv, Steps, Memory, Session, Held, Idle, Manager
<1>2. ASSUME Freed(Temporaries(call) \cup (IF response = "NULL" THEN {} ELSE {"response"})),
             Return("FAILURE")
      PROVE  IInv'
  <2>1. heap' = Manager /\ ~fault'
    BY <1>1, <1>2, Blocks DEF Held, Freed, Manager
  <2> QED BY <1>1, <1>2, <2>1 DEF Return, IInv, Steps, Memory, Session, Idle
<1>3. CASE response = "NULL" /\ Freed(Temporaries(call)) /\ Return("FAILURE")
  BY <1>2, <1>3, Temporaries(call) \cup {} = Temporaries(call)
<1>4. CASE response = "text" /\ Freed(Temporaries(call) \cup {"response"})
           /\ Return("FAILURE")
  BY <1>2, <1>4
<1>5. CASE /\ response \in {"json", "empty", "wanted"}
           /\ Allocated({"object"})
           /\ step' = "take" /\ UNCHANGED <<call, response, returned>>
  <2>1. call \in {"do_login", "get_connectioninfo_ita"}
    BY <1>1 DEF IInv, Steps
  <2>2. Held' = Held \cup {"object"} /\ heap' = heap \cup {"object"} /\ ~fault'
    BY <1>1, <1>5 DEF Held, Allocated, Temporaries
  <2> QED BY <1>1, <1>5, <2>1, <2>2 DEF IInv, Steps, Memory, Session, Idle, Held, Manager
<1> QED BY <1>3, <1>4, <1>5 DEF Parse

\* Both functions that read an object free everything they hold when they have.
LEMMA FreeAllMemory ==
  ASSUME IInv, step = "take", FreeAll PROVE heap' = Manager /\ ~fault'
<1>1. ~Idle /\ heap = Held /\ ~fault /\ response # "NULL"
  BY DEF IInv, Steps, Memory, Idle
<1> QED BY <1>1, Blocks DEF FreeAll, Freed, Held, Manager

LEMMA TakeTokenInv == ASSUME IInv, TakeToken PROVE IInv'
<1>1. heap' = Manager /\ ~fault'
  BY FreeAllMemory DEF TakeToken
<1>2. call' = "none" /\ step' = "none" /\ response' = "NULL"
  BY DEF TakeToken, Return
<1>3. userToken' = login'
  BY DEF TakeToken, IInv, Steps, Memory, Session, Held, Idle, Manager
<1> QED BY <1>1, <1>2, <1>3 DEF IInv, Steps, Memory, Session, Idle

LEMMA TakeInfoInv == ASSUME IInv, TakeInfo PROVE IInv'
<1>1. heap' = Manager /\ ~fault'
  BY FreeAllMemory DEF TakeInfo
<1>2. call' = "none" /\ step' = "none" /\ response' = "NULL"
  BY DEF TakeInfo, Return
<1>3. userToken' = login'
  BY DEF TakeInfo, IInv, Steps, Memory, Session, Held, Idle, Manager
<1> QED BY <1>1, <1>2, <1>3 DEF IInv, Steps, Memory, Session, Idle

LEMMA FreeResponseInv == ASSUME IInv, FreeResponse PROVE IInv'
BY DEF FreeResponse, IInv, Steps, Memory, Session, Held, Idle

LEMMA UnchangedInv == ASSUME IInv, UNCHANGED api PROVE IInv'
BY DEF api, IInv, Steps, Memory, Session, Held, Idle
-----------------------------------------------------------------------------
(* Startup                                                                 *)

LEMMA UseInv == ASSUME IInv, Use PROVE IInv'
<1>1. CASE \E opt \in {"-", "0", "3"} : Create([sslOpts |-> opt])
  BY <1>1, CreateInv
<1>2. CASE Destroy \/ IsLogined
  BY <1>2, DestroyInv, IsLoginedInv
<1>3. CASE \E complete \in BOOLEAN, f \in Functions : Begin(f, complete)
  BY <1>3, BeginInv
<1> QED
  BY <1>1, <1>2, <1>3
  DEF Use, do_login, get_connectioninfo_ita, get_all_rootthings, get_all_edgethings,
      get_direct_edgethings, get_thing_attributes, do_custom, Functions, Info, Getter

LEMMA ContinueInv == ASSUME IInv, Continue PROVE IInv'
BY SendInv, HandOverInv, ParseInv, TakeTokenInv, TakeInfoInv, FreeResponseInv
   DEF Continue, CallSteps

LEMMA NextIInv == IInv /\ [Next]_vars => IInv'
<1> SUFFICES ASSUME IInv, [Next]_vars PROVE IInv'
  OBVIOUS
<1>1. CASE ReadLine \/ Check \/ MakeSecurity \/ MakeThingManager \/ CreateAgain
  BY <1>1, UnchangedInv DEF ReadLine, Check, MakeSecurity, MakeThingManager, CreateAgain
<1>2. CASE ApiCreate
  BY <1>2, CreateInv DEF ApiCreate
<1>3. CASE Login
  BY <1>3, BeginInv DEF Login, do_login, Functions
<1>4. CASE GetInfo
  BY <1>4, BeginInv, UnchangedInv DEF GetInfo, get_connectioninfo_ita, Functions, Info
<1>5. CASE TakeCode
  BY <1>5, DestroyInv, UnchangedInv DEF TakeCode
<1>6. CASE Use
  BY <1>6, UseInv
<1>7. CASE Continue
  BY <1>7, ContinueInv
<1>8. CASE UNCHANGED vars
  BY <1>8, UnchangedInv DEF vars
<1> QED BY <1>1, <1>2, <1>3, <1>4, <1>5, <1>6, <1>7, <1>8 DEF Next

\* Whatever the server answers and wherever a call fails, each exit of the API
\* manager's functions frees exactly what is allocated there
\* (OCPAPIManager.c:205-680).
THEOREM StartupNothingLeaked == Spec => []NothingLeaked
<1>1. IInv => NothingLeaked
  BY DEF IInv, Memory, NothingLeaked, Manager
<1> QED BY <1>1, InitIInv, NextIInv, PTL DEF Spec

\* A request for a thing carries the token of the manager's last successful login
\* (OCPAPIManager.c:243-262, 300).
THEOREM StartupSentWithLogin == Spec => []SentWithLogin
<1>1. IInv => SentWithLogin
  BY DEF IInv, Session, SentWithLogin, Info, Getter
<1> QED BY <1>1, InitIInv, NextIInv, PTL DEF Spec
-----------------------------------------------------------------------------
(* The authorization code of a client.                                     *)

Count == logins \in Nat /\ before \in Nat /\ before <= logins

\* What createIotClient has in hand at each of its steps.  A login it reports as
\* successful, and the token of its second request, are younger than itself.
Stage ==
  /\ pc \in {"read", "api create", "login", "logged in", "code", "security", "made", "exit"}
  /\ pc \in {"read", "api create", "security"} => Idle /\ heap = {}
  /\ pc \in {"api create", "login", "logged in", "code"} => "authCode" \notin given
  /\ pc \in {"api create", "login", "logged in", "code", "security"} =>
       properties.authType = "5"
  /\ pc = "login" => Idle
  /\ pc = "logged in" =>
       /\ call \in {"none", "do_login"}
       /\ ~Idle /\ response = "wanted" => logins > before
       /\ Idle /\ returned = "SUCCESS" /\ userToken # 0 => userToken > before
  /\ pc = "code" =>
       /\ call \in {"none", "get_connectioninfo_ita"}
       /\ ~Idle \/ returned = "SUCCESS" => sent.token > before

\* The code itself, once there is one, and what was made of it.
Code ==
  /\ pc \in {"security", "made"} /\ properties.authType = "5" =>
       /\ authCode.from = IF "authCode" \in given THEN "application" ELSE "server"
       /\ authCode.from = "server" => authCode.session > before
  /\ pc = "made" /\ properties.authType = "5" =>
       /\ securityKey \in {Nobody, authCode}
       /\ thing # NoThing => thing.authCode = authCode
  /\ pc \notin {"made", "exit"} => thing = NoThing

AInv == IInv /\ Count /\ Stage /\ Code

LEMMA InitAInv == Init => AInv
<1> SUFFICES ASSUME Init PROVE AInv
  OBVIOUS
<1>1. Count /\ Stage
  BY DEF Init, ApiInit, Count, Stage, Idle
<1>2. Code
  BY DEF Init, Code
<1> QED BY <1>1, <1>2, InitIInv DEF AInv

LEMMA ReadLineCode == ASSUME AInv, ReadLine PROVE (Count /\ Stage /\ Code)'
BY DEF AInv, ReadLine, Exit, At, Goto, setup, api, Count, Stage, Code, Idle

LEMMA CheckCode == ASSUME AInv, Check PROVE (Count /\ Stage /\ Code)'
<1>1. pc = "read" /\ UNCHANGED <<api, given, properties, before, thing>>
  BY DEF Check, Exit, At, setup
<1>2. Count'
  BY <1>1 DEF AInv, Count, api
<1>3. call = "none" /\ heap = {} /\ thing = NoThing
  BY <1>1 DEF AInv, Stage, Code, Idle
<1>4. \/ pc' = "exit"
      \/ pc' = "made" /\ properties.authType = "6"
      \/ pc' = "security" /\ properties.authType = "5" /\ "authCode" \in given
         /\ authCode' = [from |-> "application", session |-> 0]
      \/ pc' = "api create" /\ properties.authType = "5" /\ "authCode" \notin given
  BY Zenon DEF Check, Exit, Goto
<1>5. Stage'
  BY <1>1, <1>3, <1>4 DEF Stage, Idle, api
<1>6. thing' = NoThing /\ given' = given /\ properties' = properties
  BY <1>1, <1>3
<1>7. Code'
  <2>1. CASE pc' = "exit" \/ pc' = "api create"
    BY <1>6, <2>1 DEF Code
  <2>2. CASE pc' = "made" /\ properties.authType = "6"
    BY <1>6, <2>2 DEF Code
  <2>3. CASE /\ pc' = "security" /\ "authCode" \in given
             /\ authCode' = [from |-> "application", session |-> 0]
    <3>1. authCode'.from = "application"
      BY <2>3
    <3> QED BY <1>6, <2>3, <3>1 DEF Code
  <2> QED BY <1>4, <2>1, <2>2, <2>3
<1> QED BY <1>2, <1>5, <1>7

LEMMA ApiCreateCode == ASSUME AInv, ApiCreate PROVE (Count /\ Stage /\ Code)'
BY DEF AInv, ApiCreate, Create, Return, Exit, At, Goto, setup, Count, Stage, Code, Idle

LEMMA LoginCode == ASSUME AInv, Login PROVE (Count /\ Stage /\ Code)'
BY DEF AInv, IInv, Steps, Login, do_login, Begin, Return, At, Goto, setup, Count, Stage, Code, Idle

LEMMA GetInfoCode == ASSUME AInv, GetInfo PROVE (Count /\ Stage /\ Code)'
<1>1. pc = "logged in" /\ Idle /\ UNCHANGED <<logins, before, properties, given, thing>>
  BY DEF GetInfo, get_connectioninfo_ita, Begin, Exit, At, setup, api
<1>2. CASE Begin("get_connectioninfo_ita", TRUE) /\ Goto("code") /\ returned = "SUCCESS"
  <2>1. CASE Refused("get_connectioninfo_ita", TRUE)
    BY <1>1, <1>2, <2>1 DEF AInv, Begin, Return, Goto, Count, Stage, Code, Idle
  <2>2. CASE ~Refused("get_connectioninfo_ita", TRUE)
    <3>1. userToken > before
      BY <1>1, <1>2, <2>2 DEF AInv, Stage, Refused, NeedsToken
    <3>2. call' = "get_connectioninfo_ita" /\ sent'.token = userToken /\ pc' = "code"
      BY <1>2, <2>2, "get_connectioninfo_ita" # "do_login" DEF Begin, Goto, Refused
    <3> QED BY <1>1, <3>1, <3>2 DEF AInv, Count, Stage, Code, Idle
  <2> QED BY <2>1, <2>2
<1>3. CASE pc' = "exit"
  BY <1>1, <1>3 DEF AInv, Count, Stage, Code
<1> QED BY <1>2, <1>3 DEF GetInfo, get_connectioninfo_ita, Exit, Goto

LEMMA TakeCodeCode == ASSUME AInv, TakeCode PROVE (Count /\ Stage /\ Code)'
<1>1. pc = "code" /\ call = "none" /\ UNCHANGED <<logins, before, given, properties, thing>>
      /\ UNCHANGED <<call, sent>>
  BY DEF TakeCode, Destroy, Exit, At, Idle, setup, api
<1>2. CASE pc' = "exit"
  BY <1>1, <1>2 DEF AInv, Count, Stage, Code
<1>3. CASE /\ pc' = "security" /\ returned = "SUCCESS" /\ Destroy
           /\ authCode' = [from |-> "server", session |-> sent.token]
  <2>1. sent.token > before /\ "authCode" \notin given /\ properties.authType = "5"
        /\ thing = NoThing
    BY <1>1, <1>3 DEF AInv, Stage, Code
  <2>2. heap' = {}
    BY <1>1, <1>3 DEF AInv, IInv, Memory, Manager, Destroy, Idle
  <2> QED BY <1>1, <1>3, <2>1, <2>2 DEF AInv, Count, Stage, Code, Idle
<1> QED BY <1>2, <1>3 DEF TakeCode, Exit, Goto

LEMMA MakeSecurityCode == ASSUME AInv, MakeSecurity PROVE (Count /\ Stage /\ Code)'
BY DEF AInv, MakeSecurity, Exit, At, Goto, setup, api, Count, Stage, Code, Idle

LEMMA MakeThingManagerCode == ASSUME AInv, MakeThingManager PROVE (Count /\ Stage /\ Code)'
<1>1. pc = "made" /\ UNCHANGED <<logins, before, properties, given, pc, authCode, securityKey>>
  BY DEF MakeThingManager, At, setup, api
<1>2. (Count /\ Stage)'
  BY <1>1 DEF AInv, Count, Stage
<1>3. properties.authType = "5" /\ thing' # NoThing => thing'.authCode = authCode
  BY DEF MakeThingManager, At
<1> QED BY <1>1, <1>2, <1>3 DEF AInv, Code

LEMMA CreateAgainCode == ASSUME AInv, CreateAgain PROVE (Count /\ Stage /\ Code)'
<1>1. /\ pc' = "read" /\ heap' = {} /\ call' = "none" /\ thing' = NoThing
      /\ before' = logins /\ logins' = logins
  BY DEF CreateAgain, Goto, api, Idle
<1>2. Count'
  BY <1>1 DEF AInv, Count
<1>3. Stage' /\ Code'
  BY <1>1 DEF Stage, Code, Idle
<1> QED BY <1>2, <1>3

LEMMA UseCode == ASSUME AInv, Use PROVE (Count /\ Stage /\ Code)'
<1>1. pc = "made" /\ UNCHANGED <<before, properties, given, pc, authCode, securityKey, thing>>
  BY DEF Use, At, setup
<1>2. logins' = logins
  BY DEF Use, Create, Destroy, IsLogined, Begin, do_login, get_connectioninfo_ita,
     get_all_rootthings, get_all_edgethings, get_direct_edgethings, get_thing_attributes,
     do_custom
<1> QED BY <1>1, <1>2 DEF AInv, Count, Stage, Code

\* The steps of a call: only in Send the server grants a login, and only where
\* createIotClient has a call under way does that matter to it.
LEMMA ContinueCode == ASSUME AInv, Continue PROVE (Count /\ Stage /\ Code)'
<1>1. UNCHANGED <<before, properties, given, pc, authCode, securityKey, thing, sent>>
  BY DEF Continue, CallSteps, Send, HandOver, Parse, TakeToken, TakeInfo, FreeResponse, setup
<1>2. Code'
  BY <1>1 DEF AInv, Code
<1>3. CASE Send
  <2>1. ~Idle /\ logins' \in {logins, logins + 1} /\ UNCHANGED call
        /\ (call = "do_login" /\ response' = "wanted" => logins' = logins + 1)
    BY <1>3 DEF Send, AInv, IInv, Steps, Idle
  <2>2. Count'
    BY <1>1, <2>1 DEF AInv, Count
  <2>3. pc = "logged in" /\ response' = "wanted" => logins' > before'
    <3>1. pc = "logged in" => call = "do_login"
      BY <2>1 DEF AInv, Stage, Idle
    <3>2. logins + 1 > before
      BY DEF AInv, Count
    <3> QED BY <1>1, <2>1, <3>1, <3>2
  <2> QED BY <1>1, <1>2, <2>1, <2>2, <2>3 DEF AInv, Stage, Idle
<1>4. CASE HandOver
  <2>1. call \in Getter \cup {"do_custom"} /\ call # "none"
    BY <1>4 DEF HandOver, AInv, IInv, Steps, Idle
  <2>2. pc \in {"made", "exit"}
    BY <1>4, <2>1 DEF AInv, Stage, Idle, Getter
  <2>3. logins' = logins
    BY <1>4 DEF HandOver
  <2> QED BY <1>1, <1>2, <2>2, <2>3 DEF AInv, Count, Stage
<1>5. CASE FreeResponse
  <2>1. UNCHANGED <<logins, heap, call, returned, userToken>> /\ Idle
    BY <1>5 DEF FreeResponse
  <2> QED BY <1>1, <1>2, <2>1 DEF AInv, Count, Stage, Idle
<1>6. CASE Parse
  <2>1. /\ ~Idle /\ logins' = logins
        /\ \/ call' = call /\ response' = response
           \/ call' = "none" /\ returned' = "FAILURE"
    BY <1>6 DEF Parse, Return, AInv, IInv, Steps, Idle
  <2> QED BY <1>1, <1>2, <2>1 DEF AInv, Count, Stage, Idle
<1>7. CASE TakeToken
  <2>1. /\ ~Idle /\ call = "do_login" /\ logins' = logins /\ call' = "none"
        /\ \/ response = "wanted" /\ userToken' = logins
           \/ userToken' = 0
           \/ returned' = "FAILURE"
    BY <1>7 DEF TakeToken, Return, Idle
  <2>2. pc \in {"logged in", "made", "exit"}
    BY <2>1 DEF AInv, Stage, Idle
  <2> QED BY <1>1, <1>2, <2>1, <2>2 DEF AInv, Count, Stage, Idle
<1>8. CASE TakeInfo
  <2>1. ~Idle /\ call = "get_connectioninfo_ita" /\ logins' = logins /\ call' = "none"
    BY <1>8 DEF TakeInfo, Return, Idle
  <2>2. pc \in {"code", "made", "exit"}
    BY <2>1 DEF AInv, Stage, Idle
  <2> QED BY <1>1, <1>2, <2>1, <2>2 DEF AInv, Count, Stage, Idle
<1> QED BY <1>3, <1>4, <1>5, <1>6, <1>7, <1>8 DEF Continue, CallSteps

LEMMA NextAInv == AInv /\ [Next]_vars => AInv'
<1> SUFFICES ASSUME AInv, [Next]_vars PROVE AInv'
  OBVIOUS
<1>1. IInv'
  BY NextIInv DEF AInv
<1>2. CASE UNCHANGED vars
  BY <1>1, <1>2 DEF AInv, vars, api, setup, Count, Stage, Code, Idle
<1>3. CASE Next
  BY <1>1, <1>3, ReadLineCode, CheckCode, ApiCreateCode, LoginCode, GetInfoCode,
     TakeCodeCode, MakeSecurityCode, MakeThingManagerCode, CreateAgainCode, UseCode,
     ContinueCode
  DEF Next, AInv
<1> QED BY <1>2, <1>3

\* A client of type 5 connects and encrypts with the code it was given or with one
\* the server gave to its own login, however many clients there were before
\* (IotClient.c:33-160, 1161-1201).
THEOREM StartupAuthCode == Spec => []AuthCodeOfThisClient
<1>1. AInv => AuthCodeOfThisClient
  BY DEF AInv, Stage, Code, AuthCodeOfThisClient
<1> QED BY <1>1, InitAInv, NextAInv, PTL DEF Spec
-----------------------------------------------------------------------------
(* The settings of the file.                                               *)

Value == STRING \cup {Empty}
Line == [texts : Seq(STRING) \ {<<>>}, end : Ending]

\* The settings are those of the lines read so far.
ReadSoFar(k) ==
  \/ \E i \in Lines(k) : /\ i < line /\ Gives(file[i].texts, k, properties[k])
                         /\ \A j \in Lines(k) : j < line => j <= i
  \/ (\A j \in Lines(k) : j >= line) /\ properties[k] = held[k]

\* The reading and the check have come before everything else, and the thing manager
\* was made with what the check has seen.
SInv ==
  /\ file \in File /\ line \in Nat \ {0} /\ properties \in [Key -> Value]
  /\ \A k \in Key : ReadSoFar(k)
  /\ pc \notin {"read", "exit"} => line > Len(file) /\ checkPropertiesAreOkay(properties)
  /\ thing # NoThing => /\ pc = "made" /\ thing.prop = ThingProperties(properties)
                        /\ thing.ssl = SslOptions(thing.prop)

Smaller == {pair \in Nat \X Nat : pair[1] < pair[2]}

\* The least number of a set is the one Min chooses.
LEMMA MinOf ==
  ASSUME NEW S \in SUBSET Nat, S # {}
  PROVE  Min(S) \in S /\ \A y \in S : Min(S) <= y
<1>1. IsWellFoundedOn(Smaller, Nat)
  BY NatLessThanWellFounded DEF OpToRel, Smaller
<1>2. PICK x \in S : \A y \in S : ~(<<y, x>> \in Smaller)
  BY <1>1, WFMin
<1>3. \A y \in S : ~(y < x)
  BY <1>2 DEF Smaller
<1>4. \A y \in S : x <= y
  BY <1>3
<1> QED BY <1>4 DEF Min

\* The tokens of a line with a value: the key is its first text that is not empty, and
\* between the key and the value there are only empty ones.
LEMMA LineTokens ==
  ASSUME NEW x \in Line, ~Skipped(x), ~NoValue(x)
  PROVE  LET t == x.texts  a == KeyAt(x)  b == ValueAt(x) IN
         /\ a \in DOMAIN t /\ b \in DOMAIN t /\ a < b /\ t[a] # Empty
         /\ \A j \in 1 .. b - 1 : j # a => t[j] = Empty
         /\ t[b] = Empty => b = Len(t)
<1> DEFINE t == x.texts
           T == Tokens(x)
           a == KeyAt(x)
           b == ValueAt(x)
<1>1. t \in Seq(STRING) /\ Len(t) \in Nat /\ DOMAIN t = 1 .. Len(t)
  BY DEF Line
<1>2. T = {i \in DOMAIN t : t[i] # Empty \/ (i = Len(t) /\ x.end # Empty)}
  BY DEF Tokens
<1>3. T \in SUBSET Nat /\ T # {}
  BY <1>1, <1>2 DEF NoValue
<1>4. a \in T /\ \A y \in T : a <= y
  BY <1>3, MinOf DEF KeyAt
<1>5. T \ {a} \in SUBSET Nat /\ T \ {a} # {}
  BY <1>3 DEF NoValue
<1>6. b \in T \ {a} /\ \A y \in T \ {a} : b <= y
  BY <1>5, MinOf DEF ValueAt
<1> HIDE DEF T, a, b, t
<1>7. a \in 1 .. Len(t) /\ b \in 1 .. Len(t) /\ a < b
  BY <1>1, <1>2, <1>4, <1>6
<1>8. t[a] # Empty
  BY <1>1, <1>2, <1>4, <1>7
<1>9. ASSUME NEW j \in 1 .. b - 1, j # a PROVE t[j] = Empty
  <2>1. j \in DOMAIN t /\ j < b
    BY <1>1, <1>7
  <2>2. j \notin T
    BY <1>6, <1>7, <1>9, <2>1
  <2> QED BY <1>2, <2>1, <2>2
<1>10. t[b] = Empty => b = Len(t)
  BY <1>2, <1>6
<1> QED BY <1>1, <1>7, <1>8, <1>9, <1>10 DEF t, a, b

LEMMA FileLines ==
  ASSUME NEW f \in File
  PROVE  f \in Seq(Line) /\ Len(f) \in Nat /\ \A i \in 1 .. Len(f) : f[i] \in Line
<1>1. f \in Seq(Line)
  BY StartupAssumption, Zenon DEF Line
<1> QED BY <1>1

LEMMA KeyNotEmpty == Empty \notin Key
BY Zenon DEF Key, Empty

\* A comment or a blank line names no key.
LEMMA SkippedNamesNothing ==
  ASSUME NEW x \in Line, Skipped(x), NEW k \in Key
  PROVE  ~Names(x.texts, k)
<1>1. /\ x.texts \in Seq(STRING) /\ x.texts # <<>> /\ Head(x.texts) = x.texts[1]
      /\ DOMAIN x.texts = 1 .. Len(x.texts) /\ Len(x.texts) \in Nat
  BY DEF Line
<1>2. CASE Head(x.texts) \in Ignored
  <2>1. x.texts[1] # Empty /\ x.texts[1] # k
    BY <1>1, <1>2, SettingsAssumption
  <2>2. ASSUME NEW n \in DOMAIN x.texts, x.texts[n] = k,
               \A m \in 1 .. n - 1 : x.texts[m] = Empty
        PROVE  FALSE
    <3>1. n # 1
      BY <2>1, <2>2
    <3>2. 1 \in 1 .. n - 1
      BY <1>1, <2>2, <3>1
    <3> QED BY <2>1, <2>2, <3>2
  <2> QED BY <2>2 DEF Names
<1>3. CASE x.texts = <<Empty>>
  <2>1. \A n \in DOMAIN x.texts : x.texts[n] = Empty
    BY <1>3
  <2> QED BY <2>1, KeyNotEmpty DEF Names
<1> QED BY <1>2, <1>3 DEF Skipped

\* A line that is read gives the key it names its value, and leaves the others.
LEMMA StoredValue ==
  ASSUME NEW x \in Line, ~NoValue(x), NEW p \in [Key -> Value]
  PROVE  /\ Stored(p, x) \in [Key -> Value]
         /\ \A k \in Key : IF Names(x.texts, k) THEN Gives(x.texts, k, Stored(p, x)[k])
                                               ELSE Stored(p, x)[k] = p[k]
<1>1. CASE Skipped(x)
  BY <1>1, SkippedNamesNothing DEF Stored
<1>2. CASE ~Skipped(x)
  <2> DEFINE t == x.texts
             a == KeyAt(x)
             b == ValueAt(x)
  <2>1. /\ a \in DOMAIN t /\ b \in DOMAIN t /\ a < b /\ t[a] # Empty
        /\ \A j \in 1 .. b - 1 : j # a => t[j] = Empty
        /\ t[b] = Empty => b = Len(t)
    BY <1>2, LineTokens
  <2>2. t \in Seq(STRING) /\ Len(t) \in Nat /\ DOMAIN t = 1 .. Len(t)
    BY DEF Line
  <2>3. Stored(p, x) = IF t[a] \in Key THEN [p EXCEPT ![t[a]] = t[b]] ELSE p
    BY <1>2 DEF Stored
  <2> HIDE DEF t, a, b
  <2>4. Stored(p, x) \in [Key -> Value]
    <3>1. t[b] \in Value
      BY <2>1, <2>2 DEF Value
    <3> QED BY <2>3, <3>1
  <2>5. ASSUME NEW k \in Key PROVE Names(t, k) <=> t[a] = k
    <3>1. ASSUME t[a] = k PROVE Names(t, k)
      <4>1. \A m \in 1 .. a - 1 : t[m] = Empty
        BY <2>1, <2>2
      <4> QED BY <2>1, <3>1, <4>1 DEF Names
    <3>2. ASSUME NEW n \in DOMAIN t, t[n] = k, \A m \in 1 .. n - 1 : t[m] = Empty
          PROVE  n = a
      <4>1. t[n] # Empty
        BY <3>2, KeyNotEmpty
      <4>2. ~(n < a)
        BY <2>1, <2>2, <4>1
      <4>3. ~(a < n)
        BY <2>1, <2>2, <3>2
      <4> QED BY <2>1, <2>2, <4>2, <4>3
    <3> QED BY <3>1, <3>2 DEF Names
  <2>6. ASSUME NEW k \in Key, t[a] = k PROVE Gives(t, k, Stored(p, x)[k])
    <3>1. Stored(p, x)[k] = t[b]
      BY <2>3, <2>6
    <3> QED BY <2>1, <2>6, <3>1 DEF Gives
  <2>7. ASSUME NEW k \in Key, t[a] # k PROVE Stored(p, x)[k] = p[k]
    BY <2>3, <2>7
  <2> QED BY <2>4, <2>5, <2>6, <2>7 DEF t
<1> QED BY <1>1, <1>2

\* The lines stay, and so do what was read of them and what was made of it.
LEMMA KeepSInv ==
  ASSUME SInv, UNCHANGED setup, thing' = thing,
         pc' \notin {"read", "exit"} => line > Len(file) /\ checkPropertiesAreOkay(properties),
         thing # NoThing => pc' = "made"
  PROVE  SInv'
<1>1. UNCHANGED <<file, line, properties, held>> /\ \A k \in Key : Lines(k)' = Lines(k)
  BY DEF setup, Lines
<1>2. \A k \in Key : ReadSoFar(k)'
  BY <1>1 DEF SInv, ReadSoFar
<1> QED BY <1>1, <1>2 DEF SInv

LEMMA ReadLineSInv ==
  ASSUME SInv, ReadLine
  PROVE  SInv'
<1>1. pc = "read" /\ line <= Len(file) /\ thing = NoThing /\ file \in File /\ line \in Nat
  BY DEF ReadLine, At, SInv
<1>2. CASE Exit
  BY <1>1, <1>2, KeepSInv DEF Exit, Goto
<1>3. CASE /\ ~NoValue(file[line])
           /\ properties' = Stored(properties, file[line])
           /\ line' = line + 1
           /\ UNCHANGED <<file, given, pc, authCode, securityKey, thing, errCode,
                          held, before, created, calls>>
  <2> DEFINE x == file[line]
  <2>1. line # 0
    BY DEF SInv
  <2>2. line \in 1 .. Len(file) /\ x \in Line /\ DOMAIN file = 1 .. Len(file)
    BY <1>1, <2>1, FileLines
  <2>3. /\ properties' \in [Key -> Value]
        /\ \A k \in Key : IF Names(x.texts, k) THEN Gives(x.texts, k, properties'[k])
                                              ELSE properties'[k] = properties[k]
    BY <1>3, <2>2, StoredValue DEF SInv
  <2>4. ASSUME NEW k \in Key PROVE ReadSoFar(k)'
    <3>1. /\ Lines(k)' = Lines(k) /\ ReadSoFar(k) /\ \A j \in Lines(k) : j \in Nat
          /\ line \in Lines(k) <=> Names(x.texts, k)
      BY <1>3, <2>2 DEF Lines, SInv
    <3>2. CASE Names(x.texts, k)
      <4>1. line < line' /\ \A j \in Lines(k)' : j < line' => j <= line
        BY <1>1, <1>3, <3>1
      <4>2. line \in Lines(k)' /\ Gives(file'[line].texts, k, properties'[k])
        BY <1>3, <2>3, <3>1, <3>2
      <4> QED BY <4>1, <4>2 DEF ReadSoFar
    <3>3. CASE ~Names(x.texts, k)
      <4>1. \A j \in Lines(k) : j < line + 1 <=> j < line
        BY <1>1, <3>1, <3>3
      <4>2. properties'[k] = properties[k]
        BY <2>3, <3>3
      <4> QED BY <1>1, <1>3, <3>1, <4>1, <4>2 DEF ReadSoFar
    <3> QED BY <3>2, <3>3
  <2> QED BY <1>1, <1>3, <2>3, <2>4 DEF SInv
<1> QED BY <1>2, <1>3 DEF ReadLine

LEMMA CreateAgainSInv == ASSUME SInv, CreateAgain PROVE SInv'
<1>1. /\ file' \in File /\ line' = 1 /\ pc' = "read" /\ thing' = NoThing
      /\ held' \in {Zero, properties} /\ properties' = held'
  BY DEF CreateAgain, Goto
<1>2. Zero \in [Key -> Value]
  BY DEF Zero, Value
<1>3. properties' \in [Key -> Value]
  BY <1>1, <1>2 DEF SInv
<1>4. ASSUME NEW k \in Key PROVE ReadSoFar(k)'
  <2>1. \A j \in Lines(k)' : j >= 1
    BY <1>1, FileLines DEF Lines
  <2> QED BY <1>1, <2>1 DEF ReadSoFar
<1> QED BY <1>1, <1>3, <1>4 DEF SInv

LEMMA MakeThingManagerSInv == ASSUME SInv, MakeThingManager PROVE SInv'
<1>1. /\ pc = "made" /\ pc' = "made" /\ thing = NoThing /\ UNCHANGED setup
      /\ thing' # NoThing => /\ thing'.prop = ThingProperties(properties)
                             /\ thing'.ssl = SslOptions(thing'.prop)
  BY DEF MakeThingManager, At
<1>2. UNCHANGED <<file, line, properties, held>> /\ \A k \in Key : Lines(k)' = Lines(k)
  BY <1>1 DEF setup, Lines
<1>3. \A k \in Key : ReadSoFar(k)'
  BY <1>2 DEF SInv, ReadSoFar
<1> QED BY <1>1, <1>2, <1>3 DEF SInv

LEMMA NextSInv ==
  ASSUME SInv, [Next]_vars
  PROVE  SInv'
<1>1. CASE Check
  <2>1. /\ pc = "read" /\ line > Len(file) /\ thing' = thing /\ UNCHANGED setup
        /\ pc' = "exit" \/ checkPropertiesAreOkay(properties)
    <3>1. CASE Exit
      BY <1>1, <3>1 DEF Check, At, Exit, Goto
    <3>2. CASE ~Exit
      BY <1>1, <3>2, Zenon DEF Check, At
    <3> QED BY <3>1, <3>2
  <2> QED BY <2>1, KeepSInv DEF SInv
<1>2. CASE ApiCreate \/ Login \/ GetInfo \/ TakeCode \/ MakeSecurity
  <2>1. /\ pc \notin {"read", "exit", "made"} /\ thing' = thing /\ UNCHANGED setup
    BY <1>2 DEF ApiCreate, Login, GetInfo, TakeCode, MakeSecurity, At, Exit
  <2> QED BY <2>1, KeepSInv DEF SInv
<1>3. CASE Use \/ Continue \/ UNCHANGED vars
  <2>1. pc' = pc /\ thing' = thing /\ UNCHANGED setup
    BY <1>3 DEF Use, Continue, vars
  <2> QED BY <2>1, KeepSInv DEF SInv
<1> QED BY <1>1, <1>2, <1>3, ReadLineSInv, CreateAgainSInv, MakeThingManagerSInv DEF Next

LEMMA InitSInv == Init => SInv
<1> SUFFICES ASSUME Init PROVE SInv
  OBVIOUS
<1>1. /\ file \in File /\ line = 1 /\ pc = "read" /\ thing = NoThing
      /\ properties = Zero /\ held = Zero
  BY DEF Init
<1>2. Zero \in [Key -> Value]
  BY DEF Zero, Value
<1>3. ASSUME NEW k \in Key PROVE ReadSoFar(k)
  <2>1. \A j \in Lines(k) : j >= 1
    BY <1>1, FileLines DEF Lines
  <2> QED BY <1>1, <2>1 DEF ReadSoFar
<1> QED BY <1>1, <1>2, <1>3 DEF SInv

\* What the library is given of a record the check let through.
LEMMA CheckedConnects ==
  ASSUME NEW p, checkPropertiesAreOkay(p)
  PROVE  LET prop == ThingProperties(p) IN ConnectsWith(p, prop.sslOpts, SslOptions(prop))
<1> DEFINE prop == ThingProperties(p)
           ssl == SslOptions(prop)
<1>1. /\ p.authType \in {"5", "6"} /\ p.thingSslOpts \in {"0", "1", "2"}
      /\ p.thingSslOpts \in {"1", "2"} => p.thingTrustStore # Empty
      /\ p.thingSslOpts = "2" => p.keyStore # Empty
  BY Zenon DEF checkPropertiesAreOkay
<1>2. /\ prop.sslOpts = IF p.authType = "5" THEN p.thingSslOpts ELSE "2"
      /\ prop.trustStore = p.thingTrustStore
      /\ prop.keyStore = IF p.authType = "5" THEN Empty ELSE p.keyStore
  BY DEF ThingProperties
<1>3. prop.sslOpts \in {"0", "1", "2"}
  BY <1>1, <1>2
<1> HIDE DEF prop
<1> DEFINE trusted == prop.sslOpts # "0" /\ prop.trustStore \in Existing
           keyed == prop.sslOpts = "2" /\ prop.keyStore \in Existing
<1>4. /\ ssl.trustStore = IF trusted THEN prop.trustStore ELSE Empty
      /\ ssl.keyStore = IF keyed THEN prop.keyStore ELSE Empty
  BY DEF SslOptions
<1>5. ~ssl.enableServerCertAuth => trusted \/ keyed
  <2>1. ssl.enableServerCertAuth = IF prop.sslOpts = "1" THEN ~trusted ELSE ~keyed
    BY Zenon DEF SslOptions
  <2> QED BY <2>1, Zenon
<1> HIDE DEF ssl
<1>6. ssl.trustStore = IF prop.sslOpts = "0" THEN Empty ELSE Opened(p.thingTrustStore)
  BY <1>2, <1>4 DEF Opened
<1>7. ssl.keyStore = IF p.authType = "5" THEN Empty ELSE Opened(p.keyStore)
  BY <1>2, <1>4 DEF Opened
<1>8. ~ssl.enableServerCertAuth => ssl.trustStore # Empty \/ ssl.keyStore # Empty
  <2>1. trusted => ssl.trustStore # Empty
    BY <1>4, SettingsAssumption
  <2>2. keyed => ssl.keyStore # Empty
    BY <1>4, SettingsAssumption
  <2> QED BY <1>5, <2>1, <2>2, Zenon
<1>9. /\ prop.sslOpts # "0" /\ prop.sslOpts = p.thingSslOpts => p.thingTrustStore # Empty
      /\ prop.sslOpts = "2" /\ prop.sslOpts = p.thingSslOpts => p.keyStore # Empty
  BY <1>1
<1>10. ConnectsWith(p, prop.sslOpts, ssl)
  BY <1>2, <1>6, <1>7, <1>8, <1>9, Zenon DEF ConnectsWith
<1> QED BY <1>10 DEF prop, ssl

\* A client that was made has read its file as it is written, wherever the lines stand
\* and whatever their ends, and its connection uses exactly those settings
\* (IotClient.c:859-952, 1009-1155, 281-313; OCPProtocolMqtt.c:156-223).
THEOREM StartupSettings == Spec => []SettingsReachConnection
<1>1. SInv => SettingsReachConnection
  <2> SUFFICES ASSUME SInv PROVE SettingsReachConnection
    OBVIOUS
  <2>1. ASSUME pc \notin {"read", "exit"} PROVE ReadAsWritten
    <3> SUFFICES ASSUME NEW k \in Key
                 PROVE  IF Lines(k) = {} THEN properties[k] = held[k]
                        ELSE \E i \in Lines(k) : /\ \A j \in Lines(k) : j <= i
                                                 /\ Gives(file[i].texts, k, properties[k])
      BY DEF ReadAsWritten
    <3>1. ReadSoFar(k) /\ file \in File /\ line > Len(file) /\ line \in Nat
      BY <2>1 DEF SInv
    <3>2. \A j \in Lines(k) : j \in Nat /\ j < line
      BY <3>1, FileLines DEF Lines
    <3>3. CASE \E i \in Lines(k) : /\ i < line /\ Gives(file[i].texts, k, properties[k])
                                   /\ \A j \in Lines(k) : j < line => j <= i
      BY <3>2, <3>3
    <3>4. CASE (\A j \in Lines(k) : j >= line) /\ properties[k] = held[k]
      BY <3>1, <3>2, <3>4
    <3> QED BY <3>1, <3>3, <3>4 DEF ReadSoFar
  <2>2. ASSUME thing # NoThing PROVE ConnectsWith(properties, thing.prop.sslOpts, thing.ssl)
    <3>1. /\ thing.prop = ThingProperties(properties) /\ thing.ssl = SslOptions(thing.prop)
          /\ checkPropertiesAreOkay(properties)
      BY <2>2 DEF SInv
    <3> QED BY <3>1, CheckedConnects
  <2> QED BY <2>1, <2>2 DEF SettingsReachConnection
<1>2. SInv /\ [Next]_vars => SInv'
  BY NextSInv
<1> QED BY <1>1, <1>2, InitSInv, PTL DEF Spec
=============================================================================
