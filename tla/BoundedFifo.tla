---------------------------- MODULE BoundedFifo ----------------------------
(***************************************************************************)
(* What queue.c promises to its callers: a first-in first-out queue of at  *)
(* most Capacity message pointers.  Adding to a full queue changes nothing *)
(* (the caller is not told), deleting removes the oldest message, and a    *)
(* queue can be destroyed and created again empty.                         *)
(***************************************************************************)
EXTENDS Naturals, Sequences

CONSTANTS Msg,      (* the message pointers that may be queued *)
          Capacity  (* how many messages the queue holds       *)

VARIABLES open,     (* TRUE between create and destroy         *)
          q         (* the queued messages, oldest first       *)

vars == <<open, q>>

Init == open = FALSE /\ q = <<>>

Create == ~open /\ open' = TRUE /\ q' = <<>>

Add(m) == open /\ Len(q) < Capacity /\ q' = Append(q, m) /\ UNCHANGED open

Delete == open /\ q # <<>> /\ q' = Tail(q) /\ UNCHANGED open

Destroy == open /\ open' = FALSE /\ q' = <<>>

Next == Create \/ Destroy \/ Delete \/ \E m \in Msg : Add(m)

Spec == Init /\ [][Next]_vars
=============================================================================
