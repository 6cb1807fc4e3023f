----------------------------- MODULE QueueRace -----------------------------
(***************************************************************************)
(* add_queue and delete_queue of src/sdk/iotclient/queue.c as they really  *)
(* run: without a lock, on several threads, one access to the shared QUEUE *)
(* at a time.  The producers are the application's threads, the MQTT       *)
(* callback thread, thread_receiver and thread_keep_alive; the consumer is *)
(* the loop of thread_sender (or thread_receiver, for the receive queue).  *)
(*                                                                         *)
(* The compiler is given no optimisation level (src/sdk/CMakeLists.txt),   *)
(* so every access in the text is a load or a store, and size++ and size-- *)
(* are a load followed by a store.  A dereference of NULL or of a freed    *)
(* node stops the model in a state that names the fault.                   *)
(*                                                                         *)
(* The QUEUE, its nodes and its limit are those of MsgQueue, whose calls   *)
(* take one step each.  Here the queue is open throughout.                 *)
(***************************************************************************)
EXTENDS MsgQueue, Integers, FiniteSets

CONSTANTS Producer,
          Consumer,       \* the one thread that deletes
          Quotas          \* bounds: how many messages each producer may add

ASSUME RaceAssumption ==
  Consumer \notin Producer /\ Quotas \subseteq [Producer -> Nat]

\* What the producers queue: the messages of each of them, numbered.
ASSUME NumberedMessages ==
  \A q \in Quotas, p \in Producer : {p} \X (1..q[p]) \subseteq Msg

Thread == Producer \cup {Consumer}

VARIABLES quota,     \* the messages each producer adds in this behaviour
          pc,        \* what each thread executes next
          node,      \* "new" of add_queue, "temp" of delete_queue
          ptr,       \* the pointer loaded last: last in add, next_node in delete
          count,     \* the value of size loaded by size++ or size--
          added,     \* how many messages each producer has finished adding
          accepted,  \* the messages add_queue did not drop
          handled,   \* the messages the consumer read from first, in order
          fault,     \* "none", "null" or "freed": what was dereferenced
          overlap    \* history: two calls have been in the queue at once

queue == <<heap, message, next, first, last, size>>

raceVars == <<state, heap, message, next, first, last, size, quota, pc, node, ptr,
              count, added, accepted, handled, fault, overlap>>

RaceInit ==
  /\ state = "open"
  /\ heap = {} /\ message = [n \in Node |-> NULL]
  /\ next = [n \in Node |-> NULL]
  /\ first = NULL /\ last = NULL /\ size = 0
  /\ pc = [t \in Thread |-> "idle"]
  /\ node = [t \in Thread |-> NULL]
  /\ ptr = [t \in Thread |-> NULL]
  /\ count = [t \in Thread |-> 0]
  /\ added = [p \in Producer |-> 0] /\ quota \in Quotas
  /\ accepted = {} /\ handled = <<>>
  /\ fault = "none" /\ overlap = FALSE

\* A fault ends the program.
At(t, label) == fault = "none" /\ pc[t] = label
Goto(t, from, to) == At(t, from) /\ pc' = [pc EXCEPT ![t] = to]

\* Dereferencing n: a fault unless n is an allocated node.
Live(n) == n \in heap
Fault(n) == /\ fault' = IF n = NULL THEN "null" ELSE "freed"
            /\ UNCHANGED <<heap, message, next, first, last, size, pc, node, ptr,
                           count, added, accepted, handled>>
-----------------------------------------------------------------------------
(* add_queue *)

Current(p) == <<p, added[p] + 1>>

\* The test of a full queue; a full queue drops the message.
AddTest(p) ==
  /\ added[p] < quota[p]
  /\ \/ /\ size >= MaxQueueSize
        /\ At(p, "idle")
        /\ added' = [added EXCEPT ![p] = @ + 1]
        /\ UNCHANGED <<pc, accepted>>
     \/ /\ size < MaxQueueSize
        /\ Goto(p, "idle", "malloc")
        /\ accepted' = accepted \cup {Current(p)}
        /\ UNCHANGED added
  /\ UNCHANGED <<queue, node, ptr, count, handled, fault>>

AddMalloc(p) ==
  /\ Goto(p, "malloc", "link")
  /\ \E new \in Node \ heap :
       /\ heap' = heap \cup {new}
       /\ message' = [message EXCEPT ![new] = Current(p)]
       /\ next' = [next EXCEPT ![new] = NULL]
       /\ node' = [node EXCEPT ![p] = new]
  /\ UNCHANGED <<first, last, size, ptr, count, added, accepted, handled, fault>>

\* Mutant of AddBranch: whether the list is empty is read off last, which
\* delete_queue leaves at the node it has freed.
AddBranch_by_last(p) ==
  /\ IF last = NULL THEN Goto(p, "link", "first") ELSE Goto(p, "link", "tail")
  /\ UNCHANGED <<queue, node, ptr, count, added, accepted, handled, fault>>

\* if(size == 0): the load that decides which pointers are written.
AddBranch(p) ==
  /\ IF size = 0 THEN Goto(p, "link", "first") ELSE Goto(p, "link", "tail")
  /\ UNCHANGED <<queue, node, ptr, count, added, accepted, handled, fault>>

AddFirst(p) ==
  /\ Goto(p, "first", "last")
  /\ first' = node[p]
  /\ UNCHANGED <<heap, message, next, last, size, node, ptr, count, added,
                 accepted, handled, fault>>

AddTail(p) ==
  /\ Goto(p, "tail", "next")
  /\ ptr' = [ptr EXCEPT ![p] = last]
  /\ UNCHANGED <<queue, node, count, added, accepted, handled, fault>>

\* Mutant of AddNext: the new node goes in front of the list.
AddNext_in_front(p) ==
  /\ Goto(p, "next", "last")
  /\ next' = [next EXCEPT ![node[p]] = first]
  /\ first' = node[p]
  /\ UNCHANGED <<heap, message, last, size, node, ptr, count, added, accepted,
                 handled, fault>>

\* last->next_node = new
AddNext(p) ==
  /\ At(p, "next")
  /\ \/ /\ Live(ptr[p])
        /\ Goto(p, "next", "last")
        /\ next' = [next EXCEPT ![ptr[p]] = node[p]]
        /\ UNCHANGED <<heap, message, first, last, size, node, ptr, count,
                       added, accepted, handled, fault>>
     \/ ~Live(ptr[p]) /\ Fault(ptr[p])

AddLast(p) ==
  /\ Goto(p, "last", "load")
  /\ last' = node[p]
  /\ UNCHANGED <<heap, message, next, first, size, node, ptr, count, added,
                 accepted, handled, fault>>

AddLoad(p) ==
  /\ Goto(p, "load", "store")
  /\ count' = [count EXCEPT ![p] = size]
  /\ UNCHANGED <<queue, node, ptr, added, accepted, handled, fault>>

AddStore(p) ==
  /\ Goto(p, "store", "idle")
  /\ size' = count[p] + 1
  /\ added' = [added EXCEPT ![p] = @ + 1]
  /\ UNCHANGED <<heap, message, next, first, last, node, ptr, count, accepted,
                 handled, fault>>
-----------------------------------------------------------------------------
(* The consumer: if(size > 0) read first->message, use it, delete_queue.   *)

\* the message is read through first
Take ==
  /\ At(Consumer, "idle") /\ size > 0
  /\ \/ /\ Live(first)
        /\ Goto(Consumer, "idle", "delete")
        /\ handled' = Append(handled, message[first])
        /\ UNCHANGED <<queue, node, ptr, count, added, accepted, fault>>
     \/ ~Live(first) /\ Fault(first)

\* Mutant of DeleteTest: the two branches are swapped.
DeleteTest_inverted ==
  /\ IF size # 0 THEN Goto(Consumer, "delete", "idle")
                  ELSE Goto(Consumer, "delete", "temp")
  /\ UNCHANGED <<queue, node, ptr, count, added, accepted, handled, fault>>

\* delete_queue tests size again: 0 only prints a warning.
DeleteTest ==
  /\ IF size = 0 THEN Goto(Consumer, "delete", "idle")
                 ELSE Goto(Consumer, "delete", "temp")
  /\ UNCHANGED <<queue, node, ptr, count, added, accepted, handled, fault>>

DeleteTemp ==
  /\ Goto(Consumer, "temp", "next")
  /\ node' = [node EXCEPT ![Consumer] = first]
  /\ UNCHANGED <<queue, ptr, count, added, accepted, handled, fault>>

DeleteNext ==
  /\ At(Consumer, "next")
  /\ \/ /\ Live(node[Consumer])
        /\ Goto(Consumer, "next", "unlink")
        /\ ptr' = [ptr EXCEPT ![Consumer] = next[node[Consumer]]]
        /\ UNCHANGED <<queue, node, count, added, accepted, handled, fault>>
     \/ ~Live(node[Consumer]) /\ Fault(node[Consumer])

DeleteUnlink ==
  /\ Goto(Consumer, "unlink", "free")
  /\ first' = ptr[Consumer]
  /\ UNCHANGED <<heap, message, next, last, size, node, ptr, count, added,
                 accepted, handled, fault>>

DeleteFree ==
  /\ Goto(Consumer, "free", "load")
  /\ heap' = heap \ {node[Consumer]}
  /\ UNCHANGED <<message, next, first, last, size, node, ptr, count, added,
                 accepted, handled, fault>>

\* (size)--: the load
DeleteLoad ==
  /\ Goto(Consumer, "load", "store")
  /\ count' = [count EXCEPT ![Consumer] = size]
  /\ UNCHANGED <<queue, node, ptr, added, accepted, handled, fault>>

DeleteStore ==
  /\ Goto(Consumer, "store", "idle")
  /\ size' = count[Consumer] - 1
  /\ UNCHANGED <<heap, message, next, first, last, node, ptr, count, added,
                 accepted, handled, fault>>
-----------------------------------------------------------------------------
Add(p) == AddTest(p) \/ AddMalloc(p) \/ AddBranch(p) \/ AddFirst(p)
            \/ AddTail(p) \/ AddNext(p) \/ AddLast(p) \/ AddLoad(p) \/ AddStore(p)
Delete == DeleteTest \/ DeleteTemp \/ DeleteNext \/ DeleteUnlink \/ DeleteFree
            \/ DeleteLoad \/ DeleteStore

RaceNext ==
  /\ Take \/ Delete \/ \E p \in Producer : Add(p)
  /\ overlap' = (overlap \/ \E t, u \in Thread :
                             t # u /\ "idle" \notin {pc'[t], pc'[u]})
  /\ UNCHANGED <<state, quota>>

RaceSpec == RaceInit /\ [][RaceNext]_raceVars
-----------------------------------------------------------------------------
\* Only one thread ever adds messages.
OneProducer == \A p, q \in Producer : p # q => quota[p] = 0 \/ quota[q] = 0

\* However the unlocked calls overlap, and even when addresses are reused,
\* no message is handed to the consumer twice: a node is linked once, by the
\* thread that allocated it, and is never reachable again after it was freed
\* (queue.c:46-52, 64-66).  Since both consumers free what they take, the
\* opposite would be a double free.
AtMostOnce == \A i, j \in DOMAIN handled : handled[i] = handled[j] => i = j

\* With one producer the messages that do arrive arrive in the order in which
\* they were added, overlaps or not; those in between may be lost.  (With two
\* producers not even that: both may write first, queue.c:46-48.)
InOrder == OneProducer =>
  \A i, j \in DOMAIN handled :
    i < j /\ handled[i][1] = handled[j][1] => handled[i][2] < handled[j][2]

\* The list from first to last holds exactly the messages of S, counted by size.
Holds(S) ==
  \E chain \in [1..size -> heap] :
    /\ size > 0 => chain[1] = first /\ chain[size] = last
    /\ \A i \in 1..size - 1 : next[chain[i]] = chain[i + 1]
    /\ S = {message[chain[i]] : i \in 1..size}
    /\ Cardinality(S) = size

Quiet == \A t \in Thread : pc[t] = "idle"

\* What the missing lock costs, and no more: as long as no two calls have been
\* in the queue at the same time, on whichever threads they ran, NULL or a freed
\* node is never followed, and between calls the list holds, and counts, exactly
\* the accepted messages the consumer has not taken yet (queue.c:34-71).
LossNeedsOverlap ==
  ~overlap => /\ fault = "none"
              /\ Quiet => Holds(accepted \ {handled[i] : i \in DOMAIN handled})
=============================================================================
