------------------------------- MODULE Service -------------------------------
(***************************************************************************)
(* What the receiving side of the client promises the application and the  *)
(* server, without its threads, steps and error paths: accepted messages   *)
(* are settled one at a time in the order of their arrival; a message the  *)
(* client cannot use is dropped before anything is made of it, any other   *)
(* one is answered, if it asks for an answer, and then given, exactly      *)
(* once; what the application sends because of it comes later still.       *)
(***************************************************************************)
EXTENDS Naturals, Sequences

VARIABLES running,    \* the process has not ended
          listener,   \* there is an application to give messages to
          requests,   \* the messages that arrived: do they ask for an answer,
                      \* can the client use them
          queue,      \* the accepted ones not settled yet, oldest first
          answered,   \* those an answer was made for
          delivered,  \* those the application was given, in order
          replied,    \* those the application reacted to
          out         \* answers and reactions, in the order they leave in

svars == <<running, listener, requests, queue, answered, delivered, replied, out>>

Request == [asks : BOOLEAN, usable : BOOLEAN]

Init ==
  /\ running = TRUE /\ listener \in BOOLEAN
  /\ requests = <<>> /\ queue = <<>> /\ answered = {} /\ delivered = <<>>
  /\ replied = {} /\ out = <<>>

\* A message that finds the queue full is not accepted.
Arrive(r) ==
  /\ running
  /\ requests' = Append(requests, r)
  /\ queue' \in {queue, Append(queue, Len(requests) + 1)}
  /\ UNCHANGED <<running, listener, answered, delivered, replied, out>>

\* An answer or a reaction that finds the send queue full is lost.
Emit(what, m) == out' \in {out, Append(out, [what |-> what, to |-> m])}

Drop ==
  /\ running /\ queue # <<>>
  /\ ~requests[Head(queue)].usable /\ Head(queue) \notin answered
  /\ queue' = Tail(queue)
  /\ UNCHANGED <<running, listener, requests, answered, delivered, replied, out>>

Answer ==
  /\ running /\ queue # <<>>
  /\ LET m == Head(queue) IN
       /\ requests[m].asks /\ requests[m].usable /\ m \notin answered
       /\ answered' = answered \cup {m}
       /\ Emit("answer", m)
  /\ UNCHANGED <<running, listener, requests, queue, delivered, replied>>

Give ==
  /\ running /\ queue # <<>>
  /\ requests[Head(queue)].usable
  /\ requests[Head(queue)].asks => Head(queue) \in answered
  /\ delivered' = IF listener THEN Append(delivered, Head(queue)) ELSE delivered
  /\ queue' = Tail(queue)
  /\ UNCHANGED <<running, listener, requests, answered, replied, out>>

React(m) ==
  /\ running /\ m \notin replied
  /\ \E i \in DOMAIN delivered : delivered[i] = m
  /\ replied' = replied \cup {m}
  /\ Emit("reply", m)
  /\ UNCHANGED <<running, listener, requests, queue, answered, delivered>>

End ==
  /\ running' = FALSE
  /\ UNCHANGED <<listener, requests, queue, answered, delivered, replied, out>>

Next ==
  \/ \E r \in Request : Arrive(r)
  \/ Drop \/ Answer \/ Give \/ End
  \/ \E m \in DOMAIN requests : React(m)

Spec == Init /\ [][Next]_svars
=============================================================================
