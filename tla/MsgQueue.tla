------------------------------ MODULE MsgQueue ------------------------------
(***************************************************************************)
(* The message queue of src/sdk/iotclient/queue.c: a singly linked list    *)
(* with pointers to its first and last node and a separate counter.  Every *)
(* function of queue.c is an action (destroy_queue, which loops, is        *)
(* three); the module is about the pointers when calls do not overlap.     *)
(*                                                                         *)
(* The consumers read first->message whenever size > 0, so the counter     *)
(* must never disagree with the list, in particular after the list ran     *)
(* empty: delete_queue leaves "last" pointing to freed memory then, and    *)
(* malloc may hand out the same address again.                             *)
(***************************************************************************)
EXTENDS Naturals, Sequences

CONSTANTS Node,          (* the addresses malloc can return for a NODE *)
          Msg,           (* the message pointers callers may queue     *)
          NULL,
          MaxQueueSize   (* MAX_QUEUE_SIZE                             *)

ASSUME QueueAssumption == NULL \notin Node /\ MaxQueueSize \in Nat \ {0}

VARIABLES state,    (* "none", "open", or "closing" inside destroy_queue     *)
          heap,     (* the nodes malloc has returned and free has not taken  *)
          message,  (* the two fields of a NODE; memory keeps its contents   *)
          next,     (*   after a free                                        *)
          first,
          last,
          size

vars == <<state, heap, message, next, first, last, size>>

Init ==
  /\ state = "none"
  /\ heap = {}
  /\ message \in [Node -> Msg]
  /\ next = [n \in Node |-> NULL]
  /\ first = NULL /\ last = NULL /\ size = 0

create_queue ==
  /\ state = "none"
  /\ state' = "open"
  /\ size' = 0 /\ first' = NULL /\ last' = NULL
  /\ UNCHANGED <<heap, message, next>>

\* Mutant of add_queue: the new node is linked in at the front.
add_queue_at_front(m) ==
  /\ state = "open"
  /\ size < MaxQueueSize
  /\ \E new \in Node \ heap :
       /\ heap' = heap \cup {new}
       /\ message' = [message EXCEPT ![new] = m]
       /\ next' = [next EXCEPT ![new] = IF size = 0 THEN NULL ELSE first]
       /\ first' = new
       /\ last' = IF size = 0 THEN new ELSE last
  /\ size' = size + 1
  /\ UNCHANGED state

\* Mutant of add_queue: the limit is compared with > instead of >=.
add_queue_past_limit(m) ==
  /\ state = "open"
  /\ size <= MaxQueueSize
  /\ \E new \in Node \ heap :
       /\ heap' = heap \cup {new}
       /\ message' = [message EXCEPT ![new] = m]
       /\ next' = IF size = 0 THEN [next EXCEPT ![new] = NULL]
                  ELSE [next EXCEPT ![new] = NULL, ![last] = new]
       /\ first' = IF size = 0 THEN new ELSE first
       /\ last' = new
  /\ size' = size + 1
  /\ UNCHANGED state

\* A full queue only prints a line (the caller is not told), so the guard
\* size < MaxQueueSize leaves out nothing but a stuttering step.
add_queue(m) ==
  /\ state = "open"
  /\ size < MaxQueueSize
  /\ \E new \in Node \ heap :
       /\ heap' = heap \cup {new}
       /\ message' = [message EXCEPT ![new] = m]
       /\ \/ /\ size = 0
             /\ first' = new
             /\ next' = [next EXCEPT ![new] = NULL]
          \/ /\ size # 0
             /\ next' = [next EXCEPT ![new] = NULL, ![last] = new]
             /\ UNCHANGED first
       /\ last' = new
  /\ size' = size + 1
  /\ UNCHANGED state

\* Mutant of unlink_first: the unlinked node is never freed.
unlink_first_leaks ==
  /\ size # 0
  /\ first' = next[first]
  /\ size' = size - 1
  /\ UNCHANGED <<state, heap, message, next, last>>

\* size = 0 only prints a warning: again a stuttering step.
unlink_first ==
  /\ size # 0
  /\ first' = next[first]
  /\ heap' = heap \ {first}
  /\ size' = size - 1
  /\ UNCHANGED <<state, message, next, last>>

delete_queue == state = "open" /\ unlink_first

\* destroy_queue: while(size > 0) delete_queue, then free the QUEUE object.
\* It frees nodes, never the messages they point to.
destroy_begin ==
  /\ state = "open"
  /\ state' = "closing"
  /\ UNCHANGED <<heap, message, next, first, last, size>>

destroy_loop == state = "closing" /\ unlink_first

destroy_end ==
  /\ state = "closing" /\ size = 0
  /\ state' = "none"
  /\ UNCHANGED <<heap, message, next, first, last, size>>

Next ==
  \/ create_queue
  \/ \E m \in Msg : add_queue(m)
  \/ delete_queue
  \/ destroy_begin \/ destroy_loop \/ destroy_end

Spec == Init /\ [][Next]_vars
-----------------------------------------------------------------------------
TypeOK ==
  /\ state \in {"none", "open", "closing"}
  /\ heap \in SUBSET Node
  /\ message \in [Node -> Msg]
  /\ next \in [Node -> Node \cup {NULL}]
  /\ first \in Node \cup {NULL} /\ last \in Node \cup {NULL}
  /\ size \in 0..MaxQueueSize
  /\ state = "none" => size = 0

\* The sequences of nodes a reader meets that starts at "first" and follows
\* next_node "size" times.
Walks ==
  {s \in [1..size -> Node] :
     /\ size > 0 => s[1] = first
     /\ \A i \in 1..size - 1 : s[i + 1] = next[s[i]]}

IsList(s) ==
  /\ \A i, j \in 1..size : s[i] = s[j] => i = j
  /\ heap = {s[i] : i \in 1..size}
  /\ size > 0 => s[size] = last /\ next[last] = NULL

\* The counter, the two end pointers and the allocated nodes describe one and
\* the same list: "size" distinct nodes, all allocated and all of them on the
\* list (nothing leaked, nothing freed is reachable), starting at first, ending
\* at last, and closed by NULL.  This is what lets thread_sender and
\* thread_receiver dereference first->message after testing size > 0, and
\* add_queue write through last (queue.c:46-54).
ListWellFormed == \E s \in Walks : IsList(s)

\* The messages on the list, read through the pointers, oldest first.
Contents == LET s == CHOOSE s \in Walks : TRUE
            IN  [i \in 1..size |-> message[s[i]]]

\* The pointer structure implements a bounded first-in first-out queue:
\* messages leave in the order in which they were accepted, none twice, none
\* altered, and a full queue drops the newcomer (queue.c:34-71).
Fifo == INSTANCE BoundedFifo WITH
          Capacity <- MaxQueueSize, open <- (state # "none"), q <- Contents

FifoSpec == Fifo!Spec
=============================================================================
