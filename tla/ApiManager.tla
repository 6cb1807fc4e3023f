----------------------------- MODULE ApiManager -----------------------------
(***************************************************************************)
(* src/sdk/manager/OCPAPIManager.c on src/sdk/protocol/OCPProtocolCurl.c:  *)
(* one API manager, its token, and the memory its functions allocate and   *)
(* free.  A call runs in steps, so that every exit has to free exactly what*)
(* is allocated there: Begin builds the request, Send is the blocking      *)
(* request, Parse makes an object of the response where the function needs *)
(* one, and TakeToken or TakeInfo reads it.                                *)
(*                                                                         *)
(* A token is the number of the login it came from; 0 is the empty string. *)
(* The server is external: it answers anything to anything.                *)
(***************************************************************************)
EXTENDS Naturals, FiniteSets

CONSTANT MaxLogin  \* bound of the model: successful logins of one manager

ASSUME ApiAssumption == MaxLogin \in Nat

\* The functions that send a request and hand its response to the caller.
Getter == {"get_all_rootthings", "get_all_edgethings", "get_direct_edgethings",
           "get_thing_attributes"}

VARIABLES heap,        \* the blocks that are allocated
          fault,       \* a block was freed or used that is not allocated
          userToken,   \* of the manager
          call, step,  \* the function that runs, or "none"; where it is
          response,    \* what OCPProtocolCurl_send returned
          returned,    \* what the last call returned
          kept,        \* responses the caller got and has not freed
          logins,      \* logins the server has granted
          login,       \* the last one that do_login reported, or 0
          sent         \* the last request: its function and the token in it

api == <<heap, fault, userToken, call, step, response, returned, kept, logins,
         login, sent>>

ApiInit ==
  /\ heap = {} /\ fault = FALSE /\ userToken = 0
  /\ call = "none" /\ step = "none" /\ response = "NULL" /\ returned = "nothing"
  /\ kept = 0 /\ logins = 0 /\ login = 0
  /\ sent = [function |-> "none", token |-> 0]

Live == "manager" \in heap /\ "protocol" \in heap
Idle == call = "none"

\* free of the blocks of a set, and malloc of some
Freed(blocks) ==
  /\ heap' = heap \ blocks
  /\ fault' = (fault \/ ~(blocks \subseteq heap))
Allocated(blocks) == heap' = heap \cup blocks /\ UNCHANGED fault

\* The call ends: its local variables are gone.
Return(value) ==
  /\ call' = "none" /\ step' = "none" /\ response' = "NULL"
  /\ returned' = value
-----------------------------------------------------------------------------
\* OCPAPIManager_create: OCPProtocolCurl_create takes every option, a character, up
\* to "2"; with one beyond it, for which "3" stands, what was allocated goes again.
Create(prop) ==
  /\ Idle
  /\ \/ /\ "manager" \notin heap /\ prop.sslOpts # "3"
        /\ Allocated({"manager", "protocol"})
        /\ userToken' = 0 /\ login' = 0
        /\ Return("SUCCESS")
     \/ /\ "manager" \notin heap /\ prop.sslOpts = "3"
        /\ Return("FAILURE") /\ UNCHANGED <<heap, fault, userToken, login>>
     \/ /\ "manager" \in heap
        /\ Return("FAILURE") /\ UNCHANGED <<heap, fault, userToken, login>>
  /\ UNCHANGED <<kept, logins, sent>>

\* OCPAPIManager_destroy
Destroy ==
  /\ Idle
  /\ heap' = heap \ {"manager", "protocol"}
  /\ userToken' = 0
  /\ UNCHANGED <<fault, call, step, response, returned, kept, logins, login, sent>>

\* OCPAPIManager_islogined
IsLogined ==
  /\ Idle
  /\ Return(IF Live /\ userToken # 0 THEN "SUCCESS" ELSE "FAILURE")
  /\ UNCHANGED <<heap, fault, userToken, kept, logins, login, sent>>
-----------------------------------------------------------------------------
\* The temporaries a function allocates before its request.
Temporaries(f) ==
  CASE f = "do_login" -> {"hashed"}
    [] f = "do_custom" -> {"header"}
    [] OTHER -> {"header", "service"}

\* Mutant of NeedsToken: only the getters look at the token.
NeedsToken_getters(f) == f \in Getter

\* if(ocpAPIManager->userToken[0] == 0 || ...): not in do_login and do_custom.
NeedsToken(f) == f \in Getter \cup {"get_connectioninfo_ita"}

\* The early returns of a function called with or without its arguments.
Refused(f, complete) ==
  \/ ~Live
  \/ NeedsToken(f) /\ userToken = 0
  \/ f # "do_custom" /\ ~complete

Begin(f, complete) ==
  /\ Idle
  /\ \/ /\ Refused(f, complete)
        /\ Return("FAILURE") /\ UNCHANGED <<heap, fault, sent>>
     \/ /\ ~Refused(f, complete)
        /\ Allocated(Temporaries(f))
        /\ call' = f /\ step' = "send"
        /\ sent' = [function |-> f, token |-> IF f = "do_login" THEN 0 ELSE userToken]
        /\ UNCHANGED <<response, returned>>
  /\ UNCHANGED <<userToken, kept, logins, login>>

do_login(complete) == Begin("do_login", complete)
get_connectioninfo_ita(complete) == Begin("get_connectioninfo_ita", complete)
get_all_rootthings(complete) == Begin("get_all_rootthings", complete)
get_all_edgethings(complete) == Begin("get_all_edgethings", complete)
get_direct_edgethings(complete) == Begin("get_direct_edgethings", complete)
get_thing_attributes(complete) == Begin("get_thing_attributes", complete)
do_custom(complete) == Begin("do_custom", complete)

\* OCPProtocolCurl_send: without a handle of the library or when the request
\* fails there is no response; else the response is a block the caller owns.
\* JSON may lack the field the caller wants, or have it with an empty value.
Send ==
  /\ step = "send"
  /\ \/ /\ response' = "NULL" /\ UNCHANGED <<heap, fault, logins>>
     \/ /\ response' \in {"text", "json", "empty", "wanted"}
        /\ response' = "wanted" /\ call = "do_login" => logins < MaxLogin
        /\ logins' = IF response' = "wanted" /\ call = "do_login" THEN logins + 1
                                                                   ELSE logins
        /\ Allocated({"response"})
  /\ step' = IF call \in Getter \cup {"do_custom"} THEN "hand over" ELSE "parse"
  /\ UNCHANGED <<userToken, call, returned, kept, login, sent>>

\* The getters and do_custom free what they allocated and return the response,
\* which is the caller's from then on.
HandOver ==
  /\ step = "hand over"
  /\ \/ /\ response = "NULL"
        /\ Freed(Temporaries(call)) /\ UNCHANGED kept
     \/ /\ response # "NULL"
        /\ Freed(Temporaries(call) \cup {"response"}) /\ kept' = kept + 1
  /\ Return(IF response = "NULL" THEN "NULL" ELSE "response")
  /\ UNCHANGED <<userToken, logins, login, sent>>

\* Mutant of Parse: a response that is not JSON is not freed.
Parse_keeps_response ==
  /\ step = "parse"
  /\ \/ /\ response \in {"NULL", "text"}
        /\ Freed(Temporaries(call))
        /\ Return("FAILURE")
     \/ /\ response \in {"json", "empty", "wanted"}
        /\ Allocated({"object"})
        /\ step' = "take" /\ UNCHANGED <<call, response, returned>>
  /\ UNCHANGED <<userToken, kept, logins, login, sent>>

\* do_login and get_connectioninfo_ita: no response, or one that is not JSON.
Parse ==
  /\ step = "parse"
  /\ \/ /\ response = "NULL"
        /\ Freed(Temporaries(call))
        /\ Return("FAILURE")
     \/ /\ response = "text"
        /\ Freed(Temporaries(call) \cup {"response"})
        /\ Return("FAILURE")
     \/ /\ response \in {"json", "empty", "wanted"}
        /\ Allocated({"object"})
        /\ step' = "take" /\ UNCHANGED <<call, response, returned>>
  /\ UNCHANGED <<userToken, kept, logins, login, sent>>

\* The end of a call with an object: everything it allocated is freed.
FreeAll == Freed(Temporaries(call) \cup {"response", "object"})

\* do_login: the token is copied out of the object before that is freed.  A login
\* without a token keeps the old one; one with an empty token succeeds and leaves
\* none.
TakeToken ==
  /\ step = "take" /\ call = "do_login" /\ FreeAll
  /\ \/ /\ response \in {"wanted", "empty"}
        /\ userToken' = IF response = "wanted" THEN logins ELSE 0
        /\ login' = userToken'
        /\ Return("SUCCESS")
     \/ /\ response = "json"
        /\ Return("FAILURE") /\ UNCHANGED <<userToken, login>>
  /\ UNCHANGED <<kept, logins, sent>>

\* get_connectioninfo_ita: the fields there are, copied into the structure it
\* returns; SUCCESS means that the authorization code is not empty.
TakeInfo ==
  /\ step = "take" /\ call = "get_connectioninfo_ita" /\ FreeAll
  /\ Return(IF response = "wanted" THEN "SUCCESS" ELSE "FAILURE")
  /\ UNCHANGED <<userToken, kept, logins, login, sent>>

CallSteps == Send \/ HandOver \/ Parse \/ TakeToken \/ TakeInfo

\* The caller frees a response it was given.
FreeResponse ==
  /\ Idle /\ kept > 0
  /\ kept' = kept - 1
  /\ UNCHANGED <<heap, fault, userToken, call, step, response, returned, logins, login,
                 sent>>
-----------------------------------------------------------------------------
\* Whatever fails, and wherever: no function frees a block twice or uses a freed
\* one, and between two calls nothing is allocated but the manager itself with
\* its protocol (what the caller was given is his).
NothingLeaked ==
  /\ ~fault
  /\ Idle => heap \in {{}, {"manager", "protocol"}}

\* A request for a thing carries the token of the last login that succeeded on
\* this manager: none is sent before, none with the token of a manager that was
\* destroyed, and a login that failed takes nothing away.
SentWithLogin ==
  sent.function \in Getter \cup {"get_connectioninfo_ita"} /\ ~Idle
    => sent.token = login /\ login # 0
=============================================================================
