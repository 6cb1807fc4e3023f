---------------------------- MODULE QueueProofs ----------------------------
(***************************************************************************)
(* Proofs about MsgQueue, for every set of addresses, every set of messages *)
(* and every maximal size: the list is always well formed, and the pointer *)
(* structure implements BoundedFifo.                                       *)
(*                                                                         *)
(* Then proofs about QueueRace: what survives add_queue and delete_queue   *)
(* without a lock, for any producers, any heap, any limit and any number   *)
(* of messages.  The invariant comes in layers: who refers to which node;  *)
(* the order of the numbers with one producer; and, as long as no two      *)
(* calls overlap, the list itself.                                         *)
(***************************************************************************)
EXTENDS QueueRace, SequenceTheorems, FiniteSetTheorems, WellFoundedInduction, TLAPS

(* The least-number principle, from which the proofs argue by induction    *)
(* over positions of the list.                                             *)

\* Every non-empty set of natural numbers has a least element.
LEMMA LeastNumber ==
  ASSUME NEW T \in SUBSET Nat, T # {}
  PROVE  \E x \in T : \A y \in T : x <= y
<1> DEFINE F == {1..n : n \in T}
<1>1. F \subseteq FiniteSubsetsOf(Nat) /\ F # {}
  <2>1. ASSUME NEW n \in T PROVE IsFiniteSet(1..n) /\ 1..n \in SUBSET Nat
    BY FS_Interval
  <2> QED BY <2>1 DEF FiniteSubsetsOf
<1>2. \E s \in F : \A t \in F : <<t, s>> \notin StrictSubsetOrdering(Nat)
  BY <1>1, FS_StrictSubsetOrderingWellFounded, WFMin
<1>3. PICK x \in T : \A y \in T : <<1..y, 1..x>> \notin StrictSubsetOrdering(Nat)
  BY <1>2
<1>4. ASSUME NEW y \in T, y < x PROVE FALSE
  <2>1. 1..y \in SUBSET Nat /\ 1..x \in SUBSET Nat /\ 1..y \subseteq 1..x
    BY <1>4
  <2>2. x \in 1..x /\ x \notin 1..y
    BY <1>4
  <2>3. <<1..y, 1..x>> \in StrictSubsetOrdering(Nat)
    BY <2>1, <2>2 DEF StrictSubsetOrdering
  <2> QED BY <1>3, <2>3
<1> QED BY <1>4
-----------------------------------------------------------------------------

USE QueueAssumption

\* The inductive invariant: type correctness and well-formedness need each
\* other (next[first] is only defined because first is on the list).
Inv == TypeOK /\ ListWellFormed

-----------------------------------------------------------------------------
(* Walks are unique, so CHOOSE in Contents picks the list.                 *)

\* Following next_node from first is deterministic: there is one walk.
LEMMA WalkUnique ==
  ASSUME size \in Nat, NEW s \in Walks, NEW t \in Walks
  PROVE  s = t
<1> DEFINE D == {i \in 1..size : s[i] # t[i]}
<1>1. CASE D = {}
  BY <1>1 DEF Walks
<1>2. CASE D # {}
  <2>1. PICK i \in D : \A j \in D : i <= j
    <3>1. D \in SUBSET Nat
      OBVIOUS
    <3> HIDE DEF D
    <3> QED BY <1>2, <3>1, LeastNumber
  <2>2. i # 1
    BY <2>1 DEF Walks
  <2>3. i - 1 \in 1..size - 1 /\ i - 1 \notin D /\ (i - 1) + 1 = i
    BY <2>1, <2>2
  <2>4. s[i] = next[s[i-1]] /\ t[i] = next[t[i-1]]
    BY <2>3 DEF Walks
  <2> QED BY <2>1, <2>3, <2>4
<1> QED BY <1>1, <1>2

\* The queued messages are those of any walk.
LEMMA ContentsOfWalk ==
  ASSUME size \in Nat, NEW s \in Walks
  PROVE  Contents = [i \in 1..size |-> message[s[i]]]
<1> DEFINE c == CHOOSE t \in Walks : TRUE
<1>1. c \in Walks
  OBVIOUS
<1>2. c = s
  BY <1>1, WalkUnique
<1> QED BY <1>2 DEF Contents

\* The same as one formula, which also holds of the next state.
LEMMA ContentsOfWalks ==
  size \in Nat => \A w \in Walks : Contents = [i \in 1..size |-> message[w[i]]]
BY ContentsOfWalk

-----------------------------------------------------------------------------
(* The two operations that change the list.                                *)

LEMMA AddStep ==
  ASSUME Inv, NEW m \in Msg, add_queue(m), NEW s \in Walks, IsList(s)
  PROVE  \E new \in Node : \E t :
           /\ t = [i \in 1..size + 1 |-> IF i = size + 1 THEN new ELSE s[i]]
           /\ t \in Walks' /\ IsList(t)'
           /\ message' = [message EXCEPT ![new] = m]
           /\ \A i \in 1..size : s[i] # new
<1> USE DEF Inv, TypeOK
<1>1. PICK new \in Node \ heap :
        /\ heap' = heap \cup {new}
        /\ message' = [message EXCEPT ![new] = m]
        /\ \/ /\ size = 0
              /\ first' = new
              /\ next' = [next EXCEPT ![new] = NULL]
           \/ /\ size # 0
              /\ next' = [next EXCEPT ![new] = NULL, ![last] = new]
              /\ UNCHANGED first
        /\ last' = new
  BY DEF add_queue
<1>2. size' = size + 1 /\ size \in Nat
  BY DEF add_queue
<1>. PICK t : t = [i \in 1..size + 1 |-> IF i = size + 1 THEN new ELSE s[i]]
  OBVIOUS
<1>3. \A i \in 1..size : s[i] \in heap /\ s[i] \in Node /\ s[i] # new
  BY <1>1 DEF IsList, Walks
<1>4. t \in [1..size' -> Node] /\ t[size + 1] = new
      /\ \A i \in 1..size : t[i] = s[i]
  BY <1>2, <1>3
<1>5. size > 0 => last = s[size] /\ last \in Node /\ last # new
  BY <1>2, <1>3 DEF IsList
<1>6. next'[new] = NULL
  BY <1>1, <1>5
<1>7. \A i \in 1..size : next'[t[i]] = t[i + 1]
  <2> SUFFICES ASSUME NEW i \in 1..size PROVE next'[t[i]] = t[i + 1]
    OBVIOUS
  <2>1. size > 0 /\ next' = [next EXCEPT ![new] = NULL, ![last] = new]
    BY <1>1, <1>2
  <2>2. CASE i = size
    BY <2>1, <2>2, <1>4, <1>5
  <2>3. CASE i # size
    <3>1. i \in 1..size - 1 /\ i + 1 \in 1..size
      BY <2>3, <1>2
    <3>2. s[i] # last
      BY <3>1, <1>5, <1>2, <2>3 DEF IsList
    <3>3. next'[s[i]] = next[s[i]]
      BY <2>1, <3>2, <1>3
    <3> QED BY <3>1, <3>3, <1>4 DEF Walks
  <2> QED BY <2>2, <2>3
<1>8. t[1] = first'
  BY <1>1, <1>2, <1>4 DEF Walks
<1>9. t \in Walks'
  <2>1. \A i \in 1..size' - 1 : t[i + 1] = next'[t[i]]
    <3>1. size' - 1 = size
      BY <1>2
    <3> QED BY <1>7, <3>1
  <2> QED BY <1>4, <1>8, <2>1 DEF Walks
<1>10. IsList(t)'
  <2>1. \A i, j \in 1..size' : t[i] = t[j] => i = j
    BY <1>2, <1>3, <1>4 DEF IsList
  <2>2. heap' = {t[i] : i \in 1..size'}
    <3>1. heap = {s[i] : i \in 1..size}
      BY DEF IsList
    <3> QED BY <3>1, <1>1, <1>2, <1>4
  <2>3. t[size'] = last' /\ next'[last'] = NULL
    BY <1>1, <1>2, <1>4, <1>6
  <2> QED BY <2>1, <2>2, <2>3 DEF IsList
<1> QED BY <1>1, <1>3, <1>9, <1>10

LEMMA UnlinkStep ==
  ASSUME Inv, unlink_first, NEW s \in Walks, IsList(s)
  PROVE  \E t : /\ t = [i \in 1..size - 1 |-> s[i + 1]]
                /\ t \in Walks' /\ IsList(t)'
<1> USE DEF Inv, TypeOK
<1>. PICK t : t = [i \in 1..size - 1 |-> s[i + 1]]
  OBVIOUS
<1>1. size \in Nat /\ size > 0 /\ size' = size - 1 /\ size' \in Nat
  BY DEF unlink_first
<1>2. s[1] = first /\ first \in Node
  BY <1>1 DEF Walks
<1>3. \A i \in 1..size' : t[i] = s[i + 1] /\ i + 1 \in 1..size
  BY <1>1
<1>4. t \in [1..size' -> Node]
  BY <1>1 DEF Walks
<1>5. size' > 0 => t[1] = first'
  BY <1>1, <1>2 DEF Walks, unlink_first
<1>6. t \in Walks'
  BY <1>1, <1>3, <1>4, <1>5 DEF Walks, unlink_first
<1>7. IsList(t)'
  <2>1. \A i, j \in 1..size' : t[i] = t[j] => i = j
    BY <1>1, <1>3 DEF IsList
  <2>2. heap' = {t[i] : i \in 1..size'}
    <3>1. \A i \in 1..size : i = 1 \/ (i - 1 \in 1..size' /\ s[i] = t[i - 1])
      BY <1>1
    <3>2. \A i \in 1..size' : t[i] # first
      BY <1>1, <1>2, <1>3 DEF IsList
    <3>3. heap' = {s[i] : i \in 1..size} \ {first}
      BY DEF IsList, unlink_first
    <3>4. ASSUME NEW n \in heap' PROVE n \in {t[i] : i \in 1..size'}
      <4>1. PICK i \in 1..size : n = s[i]
        BY <3>3, <3>4
      <4>2. i # 1 /\ i - 1 \in 1..size' /\ n = s[(i - 1) + 1]
        BY <1>2, <3>1, <3>3, <3>4, <4>1
      <4> QED BY <1>3, <4>2
    <3>5. ASSUME NEW i \in 1..size' PROVE t[i] \in heap'
      <4>1. i + 1 \in 1..size /\ t[i] = s[i + 1]
        BY <1>3
      <4> QED BY <3>2, <3>3, <4>1
    <3> QED BY <3>4, <3>5
  <2>3. size' > 0 => t[size'] = last' /\ next'[last'] = NULL
    BY <1>1, <1>3 DEF IsList, unlink_first
  <2> QED BY <2>1, <2>2, <2>3 DEF IsList
<1> QED BY <1>6, <1>7

\* add_queue keeps the invariant.
LEMMA AddInv ==
  ASSUME Inv, NEW m \in Msg, add_queue(m)
  PROVE  Inv'
<1>1. PICK s \in Walks : IsList(s)
  BY DEF Inv, ListWellFormed
<1>2. ListWellFormed'
  BY <1>1, AddStep DEF ListWellFormed
<1>3. TypeOK'
  BY DEF Inv, TypeOK, add_queue
<1> QED BY <1>2, <1>3 DEF Inv

\* delete_queue, and each round of destroy_queue, keeps the invariant.
LEMMA UnlinkInv ==
  ASSUME Inv, unlink_first
  PROVE  Inv'
<1>1. PICK s \in Walks : IsList(s)
  BY DEF Inv, ListWellFormed
<1>2. ListWellFormed'
  BY <1>1, UnlinkStep DEF ListWellFormed
<1>3. first \in Node
  BY <1>1 DEF Inv, TypeOK, Walks, unlink_first
<1>4. TypeOK'
  BY <1>3 DEF Inv, TypeOK, unlink_first
<1> QED BY <1>2, <1>4 DEF Inv

\* A step that leaves the list alone keeps it well formed.
LEMMA FrameInv ==
  ASSUME Inv, UNCHANGED <<heap, message, next, first, last, size>>
  PROVE  ListWellFormed' /\ Contents' = Contents
<1>1. Walks' = Walks
  BY DEF Walks
<1>2. \A s : IsList(s)' = IsList(s)
  BY DEF IsList
<1> QED BY <1>1, <1>2 DEF Inv, ListWellFormed, Contents

\* Creating a queue resets first and last, on a list that is already empty.
LEMMA CreateInv ==
  ASSUME Inv, create_queue
  PROVE  Inv' /\ Contents' = Contents
<1>1. size = 0 /\ size' = 0
  BY DEF Inv, TypeOK, create_queue
<1>2. Walks' = Walks
  BY <1>1 DEF Walks
<1>3. \A s : IsList(s)' = IsList(s)
  BY <1>1 DEF IsList, create_queue
<1>4. ListWellFormed'
  BY <1>2, <1>3 DEF Inv, ListWellFormed
<1>5. TypeOK'
  BY DEF Inv, TypeOK, create_queue
<1>6. Contents' = Contents
  BY <1>1, <1>2 DEF Contents, create_queue
<1> QED BY <1>4, <1>5, <1>6 DEF Inv

LEMMA InitInv == Init => Inv
<1> SUFFICES ASSUME Init PROVE Inv
  OBVIOUS
<1>1. TypeOK
  BY DEF Init, TypeOK
<1>2. PICK s : s = [i \in 1..0 |-> NULL]
  OBVIOUS
<1>3. s \in Walks /\ IsList(s)
  BY <1>2 DEF Init, Walks, IsList
<1> QED BY <1>1, <1>3 DEF Inv, ListWellFormed

LEMMA NextInv == Inv /\ [Next]_vars => Inv'
<1> SUFFICES ASSUME Inv, [Next]_vars PROVE Inv'
  OBVIOUS
<1>1. CASE create_queue
  BY <1>1, CreateInv
<1>2. ASSUME NEW m \in Msg, add_queue(m) PROVE Inv'
  BY <1>2, AddInv
<1>3. CASE delete_queue
  BY <1>3, UnlinkInv DEF delete_queue
<1>4. CASE destroy_begin
  BY <1>4, FrameInv DEF destroy_begin, Inv, TypeOK
<1>5. CASE destroy_loop
  BY <1>5, UnlinkInv DEF destroy_loop
<1>6. CASE destroy_end
  BY <1>6, FrameInv DEF destroy_end, Inv, TypeOK
<1>7. CASE UNCHANGED vars
  BY <1>7, FrameInv DEF vars, Inv, TypeOK
<1> QED BY <1>1, <1>2, <1>3, <1>4, <1>5, <1>6, <1>7 DEF Next

LEMMA SpecInv == Spec => []Inv
BY InitInv, NextInv, PTL DEF Spec

\* The variables of queue.c keep their types: size never exceeds
\* MAX_QUEUE_SIZE and never goes below zero.
THEOREM QueueTypeCorrect == Spec => []TypeOK
<1>1. Inv => TypeOK
  BY DEF Inv
<1> QED BY <1>1, SpecInv, PTL

\* After any sequence of calls, the counter, first, last and the allocated
\* nodes describe one list without leak, cycle or dangling node.
THEOREM QueueWellFormed == Spec => []ListWellFormed
<1>1. Inv => ListWellFormed
  BY DEF Inv
<1> QED BY <1>1, SpecInv, PTL

-----------------------------------------------------------------------------
(* Refinement of BoundedFifo.                                              *)

LEMMA ContentsSeq ==
  ASSUME Inv
  PROVE  Contents \in Seq(Msg) /\ Len(Contents) = size
<1>1. PICK s \in Walks : IsList(s)
  BY DEF Inv, ListWellFormed
<1>2. size \in Nat /\ Contents = [i \in 1..size |-> message[s[i]]]
  BY <1>1, ContentsOfWalk DEF Inv, TypeOK
<1>3. \A i \in 1..size : message[s[i]] \in Msg
  BY <1>1 DEF Inv, TypeOK, Walks
<1> QED BY <1>2, <1>3

LEMMA AddAppends ==
  ASSUME Inv, NEW m \in Msg, add_queue(m)
  PROVE  Contents' = Append(Contents, m)
<1>1. PICK s \in Walks : IsList(s)
  BY DEF Inv, ListWellFormed
<1>1a. PICK new \in Node : \E t :
        /\ t = [i \in 1..size + 1 |-> IF i = size + 1 THEN new ELSE s[i]]
        /\ t \in Walks' /\ IsList(t)'
        /\ message' = [message EXCEPT ![new] = m]
        /\ \A i \in 1..size : s[i] # new
  BY <1>1, AddStep
<1>2. PICK t :
        /\ t = [i \in 1..size + 1 |-> IF i = size + 1 THEN new ELSE s[i]]
        /\ t \in Walks' /\ IsList(t)'
        /\ message' = [message EXCEPT ![new] = m]
        /\ \A i \in 1..size : s[i] # new
  BY <1>1a
<1>3. size' = size + 1 /\ size \in Nat /\ size' \in Nat
  BY DEF add_queue, Inv, TypeOK
<1>4. Contents = [i \in 1..size |-> message[s[i]]]
  BY <1>1, <1>3, ContentsOfWalk
<1>5. (\A w \in Walks : Contents = [i \in 1..size |-> message[w[i]]])'
  <2>1. (size \in Nat)'
    BY <1>3
  <2> QED BY <2>1, ContentsOfWalks, PTL
<1>6. Contents' = [i \in 1..size' |-> message'[t[i]]]
  BY <1>2, <1>5
<1>7. \A i \in 1..size : message'[t[i]] = message[s[i]]
  BY <1>1, <1>2 DEF Inv, TypeOK, Walks
<1>8. message'[t[size + 1]] = m
  BY <1>2, <1>3 DEF Inv, TypeOK
<1>9. Contents \in Seq(Msg) /\ Len(Contents) = size
  BY ContentsSeq
<1> QED BY <1>3, <1>4, <1>6, <1>7, <1>8, <1>9

LEMMA UnlinkTails ==
  ASSUME Inv, unlink_first
  PROVE  Contents # <<>> /\ Contents' = Tail(Contents)
<1>1. PICK s \in Walks : IsList(s)
  BY DEF Inv, ListWellFormed
<1>2. PICK t : /\ t = [i \in 1..size - 1 |-> s[i + 1]]
               /\ t \in Walks' /\ IsList(t)'
  BY <1>1, UnlinkStep
<1>3. size' = size - 1 /\ size \in Nat /\ size' \in Nat /\ size > 0
  BY DEF unlink_first, Inv, TypeOK
<1>4. Contents = [i \in 1..size |-> message[s[i]]]
  BY <1>1, <1>3, ContentsOfWalk
<1>5. (\A w \in Walks : Contents = [i \in 1..size |-> message[w[i]]])'
  <2>1. (size \in Nat)'
    BY <1>3
  <2> QED BY <2>1, ContentsOfWalks, PTL
<1>6. Contents' = [i \in 1..size' |-> message[t[i]]]
  BY <1>2, <1>5 DEF unlink_first
<1>7. Contents \in Seq(Msg) /\ Len(Contents) = size
  BY ContentsSeq
<1> QED BY <1>2, <1>3, <1>4, <1>6, <1>7

\* Every call of queue.c is a step of the bounded FIFO queue, or none.
THEOREM QueueImplementsFifo == Spec => FifoSpec
<1> USE DEF Fifo!vars, Fifo!Next, Fifo!Create, Fifo!Destroy, Fifo!Add, Fifo!Delete
<1>1. Init => Fifo!Init
  <2> SUFFICES ASSUME Init PROVE Fifo!Init
    OBVIOUS
  <2>1. Contents \in Seq(Msg) /\ Len(Contents) = 0
    BY InitInv, ContentsSeq DEF Init
  <2>2. Contents = <<>>
    BY <2>1
  <2> QED BY <2>2 DEF Init, Fifo!Init
<1>2. Inv /\ [Next]_vars => [Fifo!Next]_(Fifo!vars)
  <2> SUFFICES ASSUME Inv, [Next]_vars PROVE [Fifo!Next]_(Fifo!vars)
    OBVIOUS
  <2>0. Contents \in Seq(Msg) /\ Len(Contents) = size /\ size \in Nat
    BY ContentsSeq DEF Inv, TypeOK
  <2>1. CASE create_queue
    <3>1. Contents = <<>> /\ Contents' = Contents
      BY <2>0, <2>1, CreateInv DEF create_queue, Inv, TypeOK
    <3> QED BY <2>1, <3>1 DEF create_queue
  <2>2. ASSUME NEW m \in Msg, add_queue(m) PROVE [Fifo!Next]_(Fifo!vars)
    BY <2>0, <2>2, AddAppends DEF add_queue
  <2>3. CASE delete_queue
    BY <2>3, UnlinkTails DEF delete_queue, unlink_first
  <2>4. CASE destroy_begin
    BY <2>4, FrameInv DEF destroy_begin
  <2>5. CASE destroy_loop
    BY <2>5, UnlinkTails DEF destroy_loop, unlink_first
  <2>6. CASE destroy_end
    <3>1. Contents = <<>> /\ Contents' = Contents
      BY <2>0, <2>6, FrameInv DEF destroy_end
    <3> QED BY <2>6, <3>1 DEF destroy_end
  <2>7. CASE UNCHANGED vars
    BY <2>7, FrameInv DEF vars
  <2> QED BY <2>1, <2>2, <2>3, <2>4, <2>5, <2>6, <2>7 DEF Next
<1> QED BY <1>1, <1>2, SpecInv, PTL DEF Spec, FifoSpec, Fifo!Spec

USE RaceAssumption
-----------------------------------------------------------------------------
(* Who refers to which node.                                               *)

Numbered == Producer \X (Nat \ {0})
Adding == {"idle", "malloc", "link", "first", "tail", "next", "last", "load", "store"}
Deleting == {"idle", "delete", "temp", "next", "unlink", "free", "load", "store"}

\* The types of the state.
Types ==
  /\ heap \subseteq Node
  /\ message \in [Node -> Numbered \cup {NULL}] /\ next \in [Node -> Node \cup {NULL}]
  /\ first \in Node \cup {NULL} /\ last \in Node \cup {NULL}
  /\ pc \in [Thread -> Adding \cup Deleting]
  /\ pc[Consumer] \in Deleting /\ \A p \in Producer : pc[p] \in Adding
  /\ node \in [Thread -> Node \cup {NULL}] /\ ptr \in [Thread -> Node \cup {NULL}]
  /\ added \in [Producer -> Nat] /\ quota \in [Producer -> Nat]
  /\ handled \in Seq(Numbered)

\* Only the consumer lets size go down, so that it cannot find 0 once it was positive.
Sizes ==
  /\ size \in Nat /\ count \in [Thread -> Nat]
  /\ pc[Consumer] \in {"delete", "temp", "next", "unlink", "free", "load"} => size > 0
  /\ pc[Consumer] = "store" => count[Consumer] > 0

\* The producers whose node is not linked yet.
Pending == {p \in Producer : pc[p] \in {"link", "first", "tail", "next"}}

\* The nodes whose next pointer counts: not that of the node being removed.
Linked == {x \in heap : pc[Consumer] \in {"unlink", "free"} => x # node[Consumer]}

\* At most one pointer refers to a node, and the node is allocated.
Cells ==
  /\ first # NULL => first \in heap
  /\ \A x \in Linked : next[x] # NULL =>
       /\ next[x] \in heap /\ next[x] # first
       /\ \A y \in Linked : next[y] = next[x] => y = x
       /\ \A p \in Pending : node[p] # next[x]
  /\ \A p \in Pending :
       /\ node[p] \in heap /\ node[p] # first
       /\ \A q \in Pending : node[q] = node[p] => q = p

\* The same of the two pointers delete_queue has in hand.
Temp ==
  /\ pc[Consumer] \in {"delete", "temp"} => first # NULL
  /\ pc[Consumer] \in {"next", "unlink", "free"} =>
       /\ node[Consumer] \in heap
       /\ \A x \in Linked : next[x] # node[Consumer]
       /\ \A p \in Pending : node[p] # node[Consumer]
  /\ pc[Consumer] = "unlink" /\ ptr[Consumer] # NULL =>
       /\ ptr[Consumer] \in heap /\ ptr[Consumer] # node[Consumer]
       /\ ptr[Consumer] # first
       /\ \A x \in Linked : next[x] # ptr[Consumer]
       /\ \A p \in Pending : node[p] # ptr[Consumer]
  /\ pc[Consumer] = "free" => first # node[Consumer]

Started(p) == IF pc[p] \in {"idle", "malloc"} THEN added[p] ELSE added[p] + 1
Known(m) == m \in Numbered /\ m[2] <= Started(m[1])
Handled == {handled[i] : i \in DOMAIN handled}

\* Every node has a message of its own.
Messages ==
  /\ \A n \in heap : Known(message[n])
  /\ \A n, m \in heap : message[n] = message[m] => n = m
  /\ \A p \in Pending : message[node[p]] = Current(p)
  /\ \A m \in Handled : Known(m)

\* From the read of the message until first is set, first is not to be trusted.
InTaking == pc[Consumer] \in {"delete", "temp", "next", "unlink"}

\* What a pointer refers to has not been handled.
Fresh ==
  /\ \A x \in Linked : next[x] # NULL => message[next[x]] \notin Handled
  /\ \A p \in Pending : message[node[p]] \notin Handled
  /\ pc[Consumer] = "unlink" /\ ptr[Consumer] # NULL => message[ptr[Consumer]] \notin Handled
  /\ ~InTaking /\ first # NULL => message[first] \notin Handled

Shape == Cells /\ Temp /\ Messages /\ Fresh
NodeInv == Types /\ Sizes /\ Shape /\ AtMostOnce
-----------------------------------------------------------------------------
(* The order of the numbers, with one producer.                            *)

\* A thread without messages never begins a call.
Active == \A p \in Producer : quota[p] = 0 => pc[p] = "idle" /\ added[p] = 0

Above(n) == \A m \in Handled : m[2] < message[n][2]

Ordered ==
  /\ \A x \in Linked : next[x] # NULL /\ next[x] # x => message[x][2] < message[next[x]][2]
  /\ ~InTaking /\ first # NULL => Above(first)
  /\ pc[Consumer] \in {"delete", "temp"} => \A m \in Handled : m[2] <= message[first][2]
  /\ pc[Consumer] = "next" => \A m \in Handled : m[2] <= message[node[Consumer]][2]
  /\ pc[Consumer] = "unlink" /\ ptr[Consumer] # NULL => Above(ptr[Consumer])

OrderInv == Active /\ (OneProducer => Ordered) /\ InOrder
-----------------------------------------------------------------------------
(* The list, as long as no two calls overlap.                              *)

Unhandled == accepted \ Handled

\* c is the list from first on, n nodes long.
Chain(c, n) ==
  /\ c \in [1..n -> heap]
  /\ \A i, j \in 1..n : c[i] = c[j] => i = j
  /\ n > 0 => c[1] = first
  /\ \A i \in 1..n - 1 : next[c[i]] = c[i + 1]

Content(c, n) == {message[c[i]] : i \in 1..n}
Ends(c, n, l) == n > 0 => c[n] = l

ListIs(n, S) ==
  \E c \in [1..n -> heap] : Chain(c, n) /\ Content(c, n) = S /\ Ends(c, n, last)

Alone(t) == \A u \in Thread : u # t => pc[u] = "idle"

\* What a call of add_queue has done to the list so far.
Producing(p) ==
  /\ pc[p] # "idle" => Current(p) \in accepted
  /\ pc[p] \in {"malloc", "link", "first", "tail", "next"} =>
       ListIs(size, Unhandled \ {Current(p)})
  /\ pc[p] = "first" => size = 0
  /\ pc[p] \in {"tail", "next"} => size > 0
  /\ pc[p] = "next" => ptr[p] = last
  /\ pc[p] = "last" =>
       \E c \in [1..size + 1 -> heap] :
         Chain(c, size + 1) /\ Content(c, size + 1) = Unhandled /\ c[size + 1] = node[p]
  /\ pc[p] \in {"load", "store"} => ListIs(size + 1, Unhandled)
  /\ pc[p] = "store" => count[p] = size

\* And what the consumer has done.
Consuming ==
  /\ InTaking => \E c \in [1..size -> heap] :
       /\ Chain(c, size) /\ Ends(c, size, last)
       /\ Unhandled = Content(c, size) \ {message[first]}
  /\ pc[Consumer] \in {"next", "unlink"} => node[Consumer] = first
  /\ pc[Consumer] = "unlink" => ptr[Consumer] = next[first]
  /\ pc[Consumer] = "free" => \E c \in [1..size - 1 -> heap] :
       /\ Chain(c, size - 1) /\ Ends(c, size - 1, last)
       /\ Content(c, size - 1) = Unhandled
       /\ \A i \in 1..size - 1 : c[i] # node[Consumer]
  /\ pc[Consumer] \in {"load", "store"} => ListIs(size - 1, Unhandled)
  /\ pc[Consumer] = "store" => count[Consumer] = size

\* Whatever was accepted belongs to a call that has begun.
Begun(p) == IF pc[p] = "idle" THEN added[p] ELSE added[p] + 1
Counted == \A m \in accepted : m \in Numbered /\ m[2] <= Begun(m[1])

\* One call after the other.
InTurn ==
  /\ fault = "none"
  /\ \A t \in Thread : pc[t] # "idle" => Alone(t)
  /\ Quiet => ListIs(size, Unhandled)
  /\ \A p \in Producer : Producing(p)
  /\ Consuming

ListInv == Counted /\ (~overlap => InTurn)
IInv == NodeInv /\ OrderInv /\ ListInv
-----------------------------------------------------------------------------
(* The nodes.                                                              *)

\* A thread that is not the consumer, and the consumer, are different.
LEMMA ProducerIsNotConsumer ==
  ASSUME NEW p \in Producer
  PROVE  p \in Thread /\ p # Consumer /\ Consumer \in Thread
  BY DEF Thread

\* A step that follows NULL or a freed node changes nothing but fault.
LEMMA FaultKeepsNodes ==
  ASSUME NodeInv, NEW n, Fault(n), UNCHANGED quota
  PROVE  NodeInv'
<1>1. UNCHANGED <<heap, message, next, first, last, size, pc, node, ptr, count,
                  added, accepted, handled, quota>>
  BY DEF Fault
<1>2. Types' /\ Sizes' /\ AtMostOnce'
  BY <1>1 DEF NodeInv, Types, Sizes, AtMostOnce
<1>3. Pending' = Pending /\ Linked' = Linked /\ Handled' = Handled
  BY <1>1 DEF Pending, Linked, Handled
<1>4. \A m : Known(m)' <=> Known(m)
  BY <1>1 DEF Known, Started
<1>5. Shape'
  BY <1>1, <1>3, <1>4 DEF NodeInv, Shape, Cells, Temp, Messages, Fresh, InTaking, Current
<1> QED BY <1>2, <1>5 DEF NodeInv

\* Steps of add_queue that write neither a node nor first.
Aside(p) ==
  /\ UNCHANGED <<heap, message, next, first, node, handled>>
  /\ pc'[Consumer] = pc[Consumer] /\ ptr'[Consumer] = ptr[Consumer]
  /\ Pending' = Pending
  /\ \A q \in Producer : q # p => pc'[q] = pc[q] /\ added'[q] = added[q]
  /\ Started(p)' >= Started(p)
  /\ p \in Pending => added'[p] = added[p]

LEMMA AsideKeepsShape ==
  ASSUME NodeInv, NEW p \in Producer, Aside(p), Types'
  PROVE  Shape'
<1>1. /\ UNCHANGED <<heap, message, next, first, node, handled>>
      /\ pc'[Consumer] = pc[Consumer] /\ ptr'[Consumer] = ptr[Consumer]
      /\ Pending' = Pending
  BY DEF Aside
<1>2. Linked' = Linked /\ Handled' = Handled /\ InTaking' = InTaking
  BY <1>1 DEF Linked, Handled, InTaking
<1>3. Cells' BY <1>1, <1>2 DEF NodeInv, Shape, Cells
<1>4. Temp' BY <1>1, <1>2 DEF NodeInv, Shape, Temp
<1>5. Fresh' BY <1>1, <1>2 DEF NodeInv, Shape, Fresh
<1>6. ASSUME NEW m, Known(m) PROVE Known(m)'
  <2>1. m \in Numbered /\ m[1] \in Producer /\ m[2] \in Nat /\ m[2] <= Started(m[1])
    BY <1>6 DEF Known, Numbered
  <2>2. \A q \in Producer : Started(q) \in Nat /\ Started(q)' \in Nat
    BY DEF NodeInv, Types, Started
  <2>3. \A q \in Producer : Started(q)' >= Started(q)
    BY <2>2 DEF Aside, Started
  <2> QED BY <2>1, <2>2, <2>3 DEF Known
<1>7. \A q \in Pending : Current(q)' = Current(q)
  BY DEF Aside, Current, Pending
<1>8. Messages' BY <1>1, <1>2, <1>6, <1>7 DEF NodeInv, Shape, Messages
<1> QED BY <1>3, <1>4, <1>5, <1>8 DEF Shape

LEMMA AsideSteps ==
  ASSUME NodeInv, NEW p \in Producer, UNCHANGED quota,
         AddTest(p) \/ AddBranch(p) \/ AddTail(p) \/ AddLast(p) \/ AddLoad(p) \/ AddStore(p)
  PROVE  NodeInv'
<1> USE ProducerIsNotConsumer
<1>1. CASE AddTest(p)
  <2>1. /\ UNCHANGED <<heap, message, next, first, last, size, node, ptr, count, handled>>
        /\ pc[p] = "idle"
        /\ \/ added' = [added EXCEPT ![p] = @ + 1] /\ pc' = pc
           \/ pc' = [pc EXCEPT ![p] = "malloc"] /\ added' = added
    BY <1>1 DEF AddTest, At, Goto, queue
  <2>a. /\ pc' \in [Thread -> Adding \cup Deleting]
        /\ pc'[Consumer] = pc[Consumer] /\ \A q \in Producer : pc'[q] \in Adding
    <3>1. CASE pc' = pc BY <3>1 DEF NodeInv, Types
    <3>2. CASE pc' = [pc EXCEPT ![p] = "malloc"] BY <3>2 DEF NodeInv, Types, Adding
    <3> QED BY <2>1, <3>1, <3>2
  <2>b. added' \in [Producer -> Nat]
    <3>1. added \in [Producer -> Nat] BY DEF NodeInv, Types
    <3>2. [added EXCEPT ![p] = @ + 1] \in [Producer -> Nat] BY <3>1
    <3> QED BY <2>1, <3>1, <3>2
  <2>2. Types' BY <2>1, <2>a, <2>b DEF NodeInv, Types
  <2>3. Sizes' BY <2>1 DEF NodeInv, Types, Sizes
  <2>4. Aside(p)
    BY <2>1 DEF NodeInv, Types, Aside, Pending, Started
  <2>5. AtMostOnce' BY <2>1 DEF NodeInv, AtMostOnce
  <2> QED BY <2>2, <2>3, <2>4, <2>5, AsideKeepsShape DEF NodeInv
<1>2. CASE AddBranch(p)
  <2>1. /\ UNCHANGED <<heap, message, next, first, last, size, node, ptr, count, added, handled>>
        /\ pc[p] = "link"
        /\ pc' = [pc EXCEPT ![p] = "first"] \/ pc' = [pc EXCEPT ![p] = "tail"]
    BY <1>2 DEF AddBranch, At, Goto, queue
  <2>2. Types' BY <2>1 DEF NodeInv, Types, Adding
  <2>3. Sizes' BY <2>1 DEF NodeInv, Types, Sizes
  <2>4. Aside(p)
    BY <2>1 DEF NodeInv, Types, Aside, Pending, Started
  <2>5. AtMostOnce' BY <2>1 DEF NodeInv, AtMostOnce
  <2> QED BY <2>2, <2>3, <2>4, <2>5, AsideKeepsShape DEF NodeInv
<1>3. CASE AddTail(p)
  <2>1. /\ UNCHANGED <<heap, message, next, first, last, size, node, count, added, handled>>
        /\ pc[p] = "tail" /\ pc' = [pc EXCEPT ![p] = "next"]
        /\ ptr' = [ptr EXCEPT ![p] = last]
    BY <1>3 DEF AddTail, At, Goto, queue
  <2>2. Types' BY <2>1 DEF NodeInv, Types, Adding
  <2>3. Sizes' BY <2>1 DEF NodeInv, Types, Sizes
  <2>4. Aside(p)
    BY <2>1 DEF NodeInv, Types, Aside, Pending, Started
  <2>5. AtMostOnce' BY <2>1 DEF NodeInv, AtMostOnce
  <2> QED BY <2>2, <2>3, <2>4, <2>5, AsideKeepsShape DEF NodeInv
<1>4. CASE AddLast(p)
  <2>1. /\ UNCHANGED <<heap, message, next, first, size, node, ptr, count, added, handled>>
        /\ pc[p] = "last" /\ pc' = [pc EXCEPT ![p] = "load"]
        /\ last' = node[p]
    BY <1>4 DEF AddLast, At, Goto
  <2>2. Types' BY <2>1 DEF NodeInv, Types, Adding
  <2>3. Sizes' BY <2>1 DEF NodeInv, Types, Sizes
  <2>4. Aside(p)
    BY <2>1 DEF NodeInv, Types, Aside, Pending, Started
  <2>5. AtMostOnce' BY <2>1 DEF NodeInv, AtMostOnce
  <2> QED BY <2>2, <2>3, <2>4, <2>5, AsideKeepsShape DEF NodeInv
<1>5. CASE AddLoad(p)
  <2>1. /\ UNCHANGED <<heap, message, next, first, last, size, node, ptr, added, handled>>
        /\ pc[p] = "load" /\ pc' = [pc EXCEPT ![p] = "store"]
        /\ count' = [count EXCEPT ![p] = size]
    BY <1>5 DEF AddLoad, At, Goto, queue
  <2>2. Types' BY <2>1 DEF NodeInv, Types, Adding
  <2>3. Sizes' BY <2>1 DEF NodeInv, Types, Sizes
  <2>4. Aside(p)
    BY <2>1 DEF NodeInv, Types, Aside, Pending, Started
  <2>5. AtMostOnce' BY <2>1 DEF NodeInv, AtMostOnce
  <2> QED BY <2>2, <2>3, <2>4, <2>5, AsideKeepsShape DEF NodeInv
<1>6. CASE AddStore(p)
  <2>1. /\ UNCHANGED <<heap, message, next, first, last, node, ptr, count, handled>>
        /\ pc[p] = "store" /\ pc' = [pc EXCEPT ![p] = "idle"]
        /\ size' = count[p] + 1 /\ added' = [added EXCEPT ![p] = @ + 1]
    BY <1>6 DEF AddStore, At, Goto
  <2>2. Types' BY <2>1 DEF NodeInv, Types, Adding
  <2>3. Sizes' BY <2>1 DEF NodeInv, Types, Sizes
  <2>4. Aside(p)
    BY <2>1 DEF NodeInv, Types, Aside, Pending, Started
  <2>5. AtMostOnce' BY <2>1 DEF NodeInv, AtMostOnce
  <2> QED BY <2>2, <2>3, <2>4, <2>5, AsideKeepsShape DEF NodeInv
<1> QED BY <1>1, <1>2, <1>3, <1>4, <1>5, <1>6

LEMMA MallocKeepsNodes ==
  ASSUME NodeInv, NEW p \in Producer, AddMalloc(p), UNCHANGED quota
  PROVE  NodeInv'
<1> USE ProducerIsNotConsumer
<1>1. PICK new \in Node \ heap :
        /\ heap' = heap \cup {new}
        /\ message' = [message EXCEPT ![new] = Current(p)]
        /\ next' = [next EXCEPT ![new] = NULL]
        /\ node' = [node EXCEPT ![p] = new]
  BY DEF AddMalloc
<1>2. /\ UNCHANGED <<first, last, size, ptr, count, added, handled, quota>>
      /\ pc[p] = "malloc" /\ pc' = [pc EXCEPT ![p] = "link"]
  BY DEF AddMalloc, At, Goto
<1>3. /\ Types /\ Sizes /\ Cells /\ Temp /\ Messages /\ Fresh
  BY DEF NodeInv, Shape
<1>4. Current(p) \in Numbered /\ Current(p)[1] = p /\ Current(p)[2] = added[p] + 1
  BY <1>3 DEF Types, Current, Numbered
<1>5. Types'
  <2>1. message' \in [Node -> Numbered \cup {NULL}] BY <1>1, <1>3, <1>4 DEF Types
  <2>2. next' \in [Node -> Node \cup {NULL}] /\ heap' \subseteq Node
        /\ node' \in [Thread -> Node \cup {NULL}]
    BY <1>1, <1>3 DEF Types
  <2>3. /\ pc' \in [Thread -> Adding \cup Deleting]
        /\ pc'[Consumer] = pc[Consumer] /\ \A q \in Producer : pc'[q] \in Adding
    BY <1>2, <1>3 DEF Types, Adding
  <2> QED BY <1>2, <1>3, <2>1, <2>2, <2>3 DEF Types
<1>6. Sizes' BY <1>2, <1>3 DEF Types, Sizes
<1>7. pc'[Consumer] = pc[Consumer] /\ node'[Consumer] = node[Consumer]
  BY <1>1, <1>2, <1>3 DEF Types
<1>8. Pending' = Pending \cup {p} /\ p \notin Pending
  BY <1>2, <1>3 DEF Types, Pending
<1>9. Linked' = Linked \cup {new}
  BY <1>1, <1>3, <1>7 DEF Linked, Temp
<1>10. Handled' = Handled /\ InTaking' = InTaking
  BY <1>2, <1>7 DEF Handled, InTaking
<1>11. /\ \A x \in heap : x # new /\ next'[x] = next[x] /\ message'[x] = message[x]
       /\ next'[new] = NULL /\ message'[new] = Current(p)
       /\ \A q \in Pending : q # p /\ q \in Thread /\ node'[q] = node[q]
       /\ node'[p] = new
       /\ Linked \subseteq heap /\ new \notin heap /\ new # NULL /\ NULL \notin heap
  BY <1>1, <1>3, <1>8, Zenon DEF Types, Linked, Pending, Thread
<1>12. Cells'
  BY <1>1, <1>2, <1>3, <1>8, <1>9, <1>11 DEF Cells
<1>13. Temp'
  <2>1. /\ ptr' = ptr /\ first' = first /\ heap \subseteq heap'
        /\ pc'[Consumer] = pc[Consumer] /\ node'[Consumer] = node[Consumer]
    BY <1>1, <1>2, <1>7
  <2>2. ASSUME NEW n \in heap, \A x \in Linked : next[x] # n, \A q \in Pending : node[q] # n
        PROVE  (\A x \in Linked' : next'[x] # n) /\ \A q \in Pending' : node'[q] # n
    BY <1>8, <1>9, <1>11, <2>2
  <2> QED BY <1>3, <2>1, <2>2 DEF Temp
<1>14. \A m : Known(m) => Known(m)'
  <2>1. \A q \in Producer : Started(q) \in Nat /\ Started(q)' \in Nat /\ Started(q) <= Started(q)'
    BY <1>2, <1>3 DEF Types, Started
  <2> QED BY <2>1 DEF Known, Numbered
<1>15. ~Known(Current(p)) /\ Known(Current(p))'
  BY <1>2, <1>3, <1>4 DEF Known, Started, Types, Current
<1>16. \A q \in Pending' : Current(q)' = Current(q)
  BY <1>2 DEF Current, Pending
<1>17. Messages'
  <2>1. \A n \in heap : message[n] # Current(p)
    BY <1>3, <1>15 DEF Messages
  <2>2. \A n \in heap' : Known(message[n])'
    <3>1. Current(p)' = Current(p) BY <1>2 DEF Current
    <3>2. ASSUME NEW n \in heap PROVE Known(message[n])'
      <4>1. message'[n] = message[n] /\ Known(message[n]) BY <1>3, <1>11 DEF Messages
      <4> QED BY <1>14, <4>1
    <3>3. Known(message[new])' BY <1>11, <1>15, <3>1
    <3> QED BY <1>1, <3>2, <3>3
  <2>3. \A n, m \in heap' : message'[n] = message'[m] => n = m
    BY <1>1, <1>3, <1>11, <2>1 DEF Messages
  <2>4. \A q \in Pending' : message'[node'[q]] = Current(q)'
    BY <1>3, <1>8, <1>11, <1>16 DEF Messages, Cells
  <2> QED BY <1>3, <1>10, <1>14, <2>2, <2>3, <2>4 DEF Messages
<1>18. Fresh'
  <2>1. Current(p) \notin Handled BY <1>3, <1>15 DEF Messages
  <2> QED BY <1>2, <1>3, <1>7, <1>8, <1>9, <1>10, <1>11, <2>1 DEF Fresh, Cells, Temp
<1>19. AtMostOnce' BY <1>2 DEF NodeInv, AtMostOnce
<1> QED BY <1>5, <1>6, <1>12, <1>13, <1>17, <1>18, <1>19 DEF NodeInv, Shape

\* What the two steps that link a node have in common.
LEMMA LinkKeepsNodes ==
  ASSUME NodeInv, NEW p \in Producer, AddFirst(p) \/ AddNext(p), UNCHANGED <<quota, fault>>
  PROVE  NodeInv'
<1> USE ProducerIsNotConsumer
<1>1. /\ UNCHANGED <<heap, message, last, size, node, ptr, count, added, handled, quota>>
      /\ p \in Pending /\ pc' = [pc EXCEPT ![p] = "last"]
      /\ \/ first' = node[p] /\ next' = next
         \/ ptr[p] \in heap /\ next' = [next EXCEPT ![ptr[p]] = node[p]] /\ first' = first
  <2>1. CASE AddFirst(p) BY <2>1 DEF AddFirst, At, Goto, Pending
  <2>2. CASE AddNext(p)
    <3>1. fault = "none" /\ pc[p] = "next" BY <2>2 DEF AddNext, At
    <3>2. ~Fault(ptr[p]) BY <3>1 DEF Fault
    <3> QED BY <2>2, <3>1, <3>2 DEF AddNext, Goto, At, Live, Pending
  <2> QED BY <2>1, <2>2
<1>2. /\ Types /\ Sizes /\ Cells /\ Temp /\ Messages /\ Fresh
  BY DEF NodeInv, Shape
<1>3. node[p] \in heap /\ node[p] # NULL BY <1>1, <1>2 DEF Cells, Types
<1>4. Types'
  <2>1. first' \in Node \cup {NULL} /\ next' \in [Node -> Node \cup {NULL}]
    BY <1>1, <1>2, <1>3 DEF Types
  <2>2. /\ pc' \in [Thread -> Adding \cup Deleting]
        /\ pc'[Consumer] = pc[Consumer] /\ \A q \in Producer : pc'[q] \in Adding
    BY <1>1, <1>2 DEF Types, Adding
  <2> QED BY <1>1, <1>2, <2>1, <2>2 DEF Types
<1>5. Sizes' BY <1>1, <1>2 DEF Types, Sizes
<1>6. pc'[Consumer] = pc[Consumer] BY <1>1, <1>2 DEF Types
<1>7. Pending' = Pending \ {p} BY <1>1, <1>2 DEF Types, Pending
<1>8. Linked' = Linked /\ Handled' = Handled /\ InTaking' = InTaking
  BY <1>1, <1>6 DEF Linked, Handled, InTaking
<1>9. /\ \A x \in heap : next'[x] = next[x] \/ next'[x] = node[p]
      /\ \A x, y \in heap : next'[x] = node[p] /\ next'[y] = node[p]
                              /\ x \in Linked /\ y \in Linked => x = y
      /\ first' = first \/ first' = node[p]
      /\ first' = node[p] => \A x \in Linked : next'[x] = next[x]
      /\ Linked \subseteq heap
  <2>1. Linked \subseteq heap /\ \A x \in heap : x \in Node BY <1>2 DEF Linked, Types
  <2>2. \A x \in Linked : next[x] # node[p] BY <1>1, <1>2, <1>3 DEF Cells
  <2>3. CASE first' = node[p] /\ next' = next BY <2>1, <2>2, <2>3
  <2>4. CASE ptr[p] \in heap /\ next' = [next EXCEPT ![ptr[p]] = node[p]] /\ first' = first
    <3>1. \A x \in heap : next'[x] = IF x = ptr[p] THEN node[p] ELSE next[x]
      BY <1>2, <2>1, <2>4 DEF Types
    <3>2. first # node[p] BY <1>1, <1>2 DEF Cells
    <3> QED BY <2>1, <2>2, <2>4, <3>1, <3>2
  <2> QED BY <1>1, <2>3, <2>4
<1>10. Cells'
  <2>1. ASSUME NEW x \in Linked, next'[x] # NULL
        PROVE  /\ next'[x] \in heap /\ next'[x] # first'
               /\ \A y \in Linked : next'[y] = next'[x] => y = x
               /\ \A q \in Pending' : node[q] # next'[x]
    BY <1>1, <1>2, <1>3, <1>7, <1>9, <2>1 DEF Cells
  <2> QED BY <1>1, <1>2, <1>3, <1>7, <1>8, <1>9, <2>1 DEF Cells
<1>11. Temp' BY <1>1, <1>2, <1>3, <1>6, <1>7, <1>8, <1>9 DEF Temp
<1>12. Messages'
  <2>1. \A m : Known(m) => Known(m)'
    BY <1>1, <1>2 DEF Known, Started, Types, Pending
  <2> QED BY <1>1, <1>2, <1>7, <1>8, <2>1 DEF Messages, Current
<1>13. Fresh' BY <1>1, <1>2, <1>6, <1>7, <1>8, <1>9 DEF Fresh
<1>14. AtMostOnce' BY <1>1 DEF NodeInv, AtMostOnce
<1> QED BY <1>4, <1>5, <1>10, <1>11, <1>12, <1>13, <1>14 DEF NodeInv, Shape

\* What the steps of the consumer have in common.
LEMMA ConsumerTypes ==
  ASSUME NodeInv, NEW label \in Deleting, pc' = [pc EXCEPT ![Consumer] = label],
         UNCHANGED <<message, next, last, added, quota>>,
         heap' \subseteq heap, first' \in Node \cup {NULL},
         node' \in [Thread -> Node \cup {NULL}], ptr' \in [Thread -> Node \cup {NULL}],
         handled' \in Seq(Numbered)
  PROVE  /\ Types' /\ pc'[Consumer] = label
         /\ Pending' = Pending /\ Pending \subseteq Thread \ {Consumer}
         /\ \A m : Known(m)' <=> Known(m)
         /\ \A p \in Pending : Current(p)' = Current(p)
<1> USE ProducerIsNotConsumer
<1>1. /\ pc'[Consumer] = label /\ pc' \in [Thread -> Adding \cup Deleting]
      /\ \A q \in Producer : pc'[q] = pc[q] /\ pc'[q] \in Adding
  <2>1. pc \in [Thread -> Adding \cup Deleting] /\ \A q \in Producer : pc[q] \in Adding
    BY DEF NodeInv, Types
  <2>2. Consumer \in Thread /\ \A q \in Producer : q \in Thread /\ q # Consumer
    BY DEF Thread
  <2> QED BY <2>1, <2>2
<1>2. Types' BY <1>1 DEF NodeInv, Types
<1>3. Pending' = Pending /\ Pending \subseteq Thread \ {Consumer}
  BY <1>1 DEF Pending
<1>4. \A m : Known(m)' <=> Known(m)
  BY <1>1 DEF Known, Started, Numbered
<1> QED BY <1>1, <1>2, <1>3, <1>4 DEF Current

LEMMA TakeKeepsNodes ==
  ASSUME NodeInv, Take, UNCHANGED <<quota, fault>>
  PROVE  NodeInv'
<1>1. /\ UNCHANGED <<heap, message, next, first, last, size, node, ptr, count, added, quota>>
      /\ pc[Consumer] = "idle" /\ pc' = [pc EXCEPT ![Consumer] = "delete"]
      /\ size > 0 /\ first \in heap /\ handled' = Append(handled, message[first])
  <2>1. fault = "none" /\ pc[Consumer] = "idle" BY DEF Take, At
  <2>2. ~Fault(first) BY <2>1 DEF Fault
  <2> QED BY <2>1, <2>2 DEF Take, Goto, At, Live, queue
<1>2. /\ Types /\ Sizes /\ Cells /\ Temp /\ Messages /\ Fresh
  BY DEF NodeInv, Shape
<1>3. message[first] \in Numbered BY <1>1, <1>2 DEF Messages, Known
<1>4. handled' \in Seq(Numbered) /\ Handled' = Handled \cup {message[first]}
  <2>1. handled \in Seq(Numbered) BY <1>2 DEF Types
  <2>2. /\ handled' \in Seq(Numbered) /\ Len(handled') = Len(handled) + 1
        /\ \A i \in 1..Len(handled) : handled'[i] = handled[i]
        /\ handled'[Len(handled) + 1] = message[first]
    BY <1>1, <1>3, <2>1
  <2>3. DOMAIN handled = 1..Len(handled) /\ DOMAIN handled' = 1..Len(handled) + 1
        /\ Len(handled) \in Nat
    BY <2>1, <2>2
  <2> QED BY <2>2, <2>3 DEF Handled
<1>5. /\ Types' /\ pc'[Consumer] = "delete"
      /\ Pending' = Pending /\ \A m : Known(m)' <=> Known(m)
      /\ \A p \in Pending : Current(p)' = Current(p)
  BY <1>1, <1>2, <1>4, ConsumerTypes DEF Types, Deleting
<1>6. Sizes' BY <1>1, <1>2, <1>5 DEF Sizes
<1>7. Linked' = heap /\ Linked = heap BY <1>1, <1>5 DEF Linked
<1>8. Cells' BY <1>1, <1>2, <1>5, <1>7 DEF Cells
<1>9. NULL \notin heap BY <1>2 DEF Types
<1>10. Temp' BY <1>1, <1>5, <1>9 DEF Temp
<1>11. Messages' BY <1>1, <1>2, <1>4, <1>5 DEF Messages
<1>12. message[first] \notin Handled BY <1>1, <1>2, <1>9 DEF Fresh, InTaking
<1>13. Fresh'
  <2>1. \A x \in heap : next[x] # NULL => message[next[x]] # message[first]
    BY <1>1, <1>2, <1>7 DEF Cells, Messages
  <2>2. \A p \in Pending : message[node[p]] # message[first]
    BY <1>1, <1>2 DEF Cells, Messages
  <2> QED BY <1>1, <1>2, <1>4, <1>5, <1>7, <2>1, <2>2 DEF Fresh, InTaking
<1>14. AtMostOnce'
  BY <1>1, <1>2, <1>3, <1>12 DEF NodeInv, Types, AtMostOnce, Handled
<1> QED BY <1>5, <1>6, <1>8, <1>10, <1>11, <1>13, <1>14 DEF NodeInv, Shape

LEMMA DeleteKeepsNodes ==
  ASSUME NodeInv, Delete, UNCHANGED <<quota, fault>>
  PROVE  NodeInv'
<1>0. /\ Types /\ Sizes /\ Cells /\ Temp /\ Messages /\ Fresh /\ AtMostOnce
  BY DEF NodeInv, Shape
<1>n. NULL \notin heap BY <1>0 DEF Types
<1>1. CASE DeleteTest
  <2>1. /\ UNCHANGED <<heap, message, next, first, last, size, node, ptr, count, added, handled>>
        /\ pc[Consumer] = "delete" /\ pc' = [pc EXCEPT ![Consumer] = "temp"]
    BY <1>0, <1>1 DEF DeleteTest, At, Goto, queue, Sizes
  <2>2. /\ Types' /\ pc'[Consumer] = "temp"
        /\ Pending' = Pending /\ \A m : Known(m)' <=> Known(m)
        /\ \A p \in Pending : Current(p)' = Current(p)
    BY <2>1, <1>0, ConsumerTypes DEF Types, Deleting
  <2>3. Linked' = Linked /\ Handled' = Handled BY <2>1, <2>2 DEF Linked, Handled
  <2>4. Sizes' BY <1>0, <2>1, <2>2 DEF Sizes
  <2>5. Cells' BY <1>0, <2>1, <2>2, <2>3 DEF Cells
  <2>6. Temp' BY <1>0, <2>1, <2>2 DEF Temp
  <2>7. Messages' BY <1>0, <2>1, <2>2, <2>3 DEF Messages
  <2>8. Fresh' BY <1>0, <2>1, <2>2, <2>3 DEF Fresh, InTaking
  <2>9. AtMostOnce' BY <1>0, <2>1 DEF AtMostOnce
  <2> QED BY <2>2, <2>4, <2>5, <2>6, <2>7, <2>8, <2>9 DEF NodeInv, Shape
<1>2. CASE DeleteTemp
  <2>1. /\ UNCHANGED <<heap, message, next, first, last, size, ptr, count, added, handled>>
        /\ pc[Consumer] = "temp" /\ pc' = [pc EXCEPT ![Consumer] = "next"]
        /\ node' = [node EXCEPT ![Consumer] = first]
    BY <1>2 DEF DeleteTemp, At, Goto, queue
  <2>2. /\ Types' /\ pc'[Consumer] = "next"
        /\ Pending' = Pending /\ Pending \subseteq Thread \ {Consumer}
        /\ \A m : Known(m)' <=> Known(m)
        /\ \A p \in Pending : Current(p)' = Current(p)
    BY <2>1, <1>0, ConsumerTypes DEF Types, Deleting
  <2>3. Linked' = heap /\ Linked = heap /\ Handled' = Handled
    BY <2>1, <2>2 DEF Linked, Handled
  <2>a. node'[Consumer] = first /\ first \in heap
    BY <1>0, <2>1 DEF Types, Thread, Temp, Cells
  <2>b. \A p \in Pending : node'[p] = node[p] BY <1>0, <2>1, <2>2 DEF Types
  <2>4. Sizes' BY <1>0, <2>1, <2>2 DEF Sizes
  <2>5. Cells' BY <1>0, <2>1, <2>2, <2>3, <2>b DEF Cells
  <2>6. Temp' BY <1>0, <1>n, <2>1, <2>2, <2>3, <2>a, <2>b DEF Temp, Cells
  <2>7. Messages' BY <1>0, <2>1, <2>2, <2>3, <2>b DEF Messages
  <2>8. Fresh' BY <1>0, <2>1, <2>2, <2>3, <2>b DEF Fresh, InTaking
  <2>9. AtMostOnce' BY <1>0, <2>1 DEF AtMostOnce
  <2> QED BY <2>2, <2>4, <2>5, <2>6, <2>7, <2>8, <2>9 DEF NodeInv, Shape
<1>3. CASE DeleteNext
  <2>1. /\ UNCHANGED <<heap, message, next, first, last, size, node, count, added, handled>>
        /\ pc[Consumer] = "next" /\ pc' = [pc EXCEPT ![Consumer] = "unlink"]
        /\ ptr' = [ptr EXCEPT ![Consumer] = next[node[Consumer]]]
        /\ node[Consumer] \in heap
    <3>1. fault = "none" /\ pc[Consumer] = "next" BY <1>3 DEF DeleteNext, At
    <3>2. ~Fault(node[Consumer]) BY <3>1 DEF Fault
    <3> QED BY <1>3, <3>1, <3>2 DEF DeleteNext, Goto, At, Live, queue
  <2>c. next[node[Consumer]] \in Node \cup {NULL} BY <1>0, <2>1 DEF Types
  <2>2. /\ Types' /\ pc'[Consumer] = "unlink"
        /\ Pending' = Pending /\ Pending \subseteq Thread \ {Consumer}
        /\ \A m : Known(m)' <=> Known(m)
        /\ \A p \in Pending : Current(p)' = Current(p)
    <3>1. ptr' \in [Thread -> Node \cup {NULL}] BY <1>0, <2>1, <2>c DEF Types
    <3> QED BY <2>1, <3>1, <1>0, ConsumerTypes DEF Types, Deleting
  <2>3. Linked' = heap \ {node[Consumer]} /\ Linked = heap /\ Handled' = Handled
    BY <2>1, <2>2 DEF Linked, Handled
  <2>a. ptr'[Consumer] = next[node[Consumer]] BY <1>0, <2>1 DEF Types, Thread
  <2>4. Sizes' BY <1>0, <2>1, <2>2 DEF Sizes
  <2>5. Cells' BY <1>0, <2>1, <2>2, <2>3 DEF Cells
  <2>6. Temp'
    <3>1. \A x \in heap : next[x] # node[Consumer] BY <1>0, <2>1, <2>3 DEF Temp
    <3>2. ASSUME next[node[Consumer]] # NULL
          PROVE  /\ next[node[Consumer]] \in heap
                 /\ next[node[Consumer]] # first
                 /\ \A x \in heap \ {node[Consumer]} : next[x] # next[node[Consumer]]
                 /\ \A p \in Pending : node[p] # next[node[Consumer]]
      BY <1>0, <2>1, <2>3, <3>2 DEF Cells
    <3>3. \A p \in Pending : node[p] # node[Consumer] BY <1>0, <2>1 DEF Temp
    <3> QED BY <2>1, <2>2, <2>3, <2>a, <3>1, <3>2, <3>3 DEF Temp
  <2>7. Messages' BY <1>0, <2>1, <2>2, <2>3 DEF Messages
  <2>8. Fresh' BY <1>0, <2>1, <2>2, <2>3, <2>a DEF Fresh, InTaking
  <2>9. AtMostOnce' BY <1>0, <2>1 DEF AtMostOnce
  <2> QED BY <2>2, <2>4, <2>5, <2>6, <2>7, <2>8, <2>9 DEF NodeInv, Shape
<1>4. CASE DeleteUnlink
  <2>1. /\ UNCHANGED <<heap, message, next, last, size, node, ptr, count, added, handled>>
        /\ pc[Consumer] = "unlink" /\ pc' = [pc EXCEPT ![Consumer] = "free"]
        /\ first' = ptr[Consumer]
    BY <1>4 DEF DeleteUnlink, At, Goto
  <2>2. /\ Types' /\ pc'[Consumer] = "free"
        /\ Pending' = Pending /\ \A m : Known(m)' <=> Known(m)
        /\ \A p \in Pending : Current(p)' = Current(p)
    <3>1. first' \in Node \cup {NULL} BY <1>0, <2>1 DEF Types, Thread
    <3> QED BY <2>1, <3>1, <1>0, ConsumerTypes DEF Types, Deleting
  <2>3. Linked' = Linked /\ Handled' = Handled BY <2>1, <2>2 DEF Linked, Handled
  <2>4. Sizes' BY <1>0, <2>1, <2>2 DEF Sizes
  <2>5. Cells' BY <1>0, <1>n, <2>1, <2>2, <2>3 DEF Cells, Temp
  <2>6. Temp' BY <1>0, <1>n, <2>1, <2>2, <2>3 DEF Temp
  <2>7. Messages' BY <1>0, <2>1, <2>2, <2>3 DEF Messages
  <2>8. Fresh' BY <1>0, <2>1, <2>2, <2>3 DEF Fresh, InTaking
  <2>9. AtMostOnce' BY <1>0, <2>1 DEF AtMostOnce
  <2> QED BY <2>2, <2>4, <2>5, <2>6, <2>7, <2>8, <2>9 DEF NodeInv, Shape
<1>5. CASE DeleteFree
  <2>1. /\ UNCHANGED <<message, next, first, last, size, node, ptr, count, added, handled>>
        /\ pc[Consumer] = "free" /\ pc' = [pc EXCEPT ![Consumer] = "load"]
        /\ heap' = heap \ {node[Consumer]}
    BY <1>5 DEF DeleteFree, At, Goto
  <2>2. /\ Types' /\ pc'[Consumer] = "load"
        /\ Pending' = Pending /\ \A m : Known(m)' <=> Known(m)
        /\ \A p \in Pending : Current(p)' = Current(p)
    BY <2>1, <1>0, ConsumerTypes DEF Types, Deleting
  <2>3. Linked' = Linked /\ Handled' = Handled BY <2>1, <2>2 DEF Linked, Handled
  <2>4. Sizes' BY <1>0, <2>1, <2>2 DEF Sizes
  <2>5. Cells' BY <1>0, <1>n, <2>1, <2>2, <2>3 DEF Cells, Temp
  <2>6. Temp' BY <1>0, <2>1, <2>2 DEF Temp
  <2>7. Messages' BY <1>0, <2>1, <2>2, <2>3 DEF Messages
  <2>8. Fresh' BY <1>0, <2>1, <2>2, <2>3 DEF Fresh, InTaking
  <2>9. AtMostOnce' BY <1>0, <2>1 DEF AtMostOnce
  <2> QED BY <2>2, <2>4, <2>5, <2>6, <2>7, <2>8, <2>9 DEF NodeInv, Shape
<1>6. CASE DeleteLoad \/ DeleteStore
  <2>1. /\ UNCHANGED <<heap, message, next, first, last, node, ptr, added, handled>>
        /\ \/ /\ pc[Consumer] = "load" /\ pc' = [pc EXCEPT ![Consumer] = "store"]
              /\ count' = [count EXCEPT ![Consumer] = size] /\ size' = size
           \/ /\ pc[Consumer] = "store" /\ pc' = [pc EXCEPT ![Consumer] = "idle"]
              /\ size' = count[Consumer] - 1 /\ count' = count
    BY <1>6 DEF DeleteLoad, DeleteStore, At, Goto, queue
  <2>2. /\ Types' /\ pc'[Consumer] \in {"idle", "store"}
        /\ pc'[Consumer] = "idle" => pc[Consumer] = "store"
        /\ Pending' = Pending /\ \A m : Known(m)' <=> Known(m)
        /\ \A p \in Pending : Current(p)' = Current(p)
    BY <2>1, <1>0, ConsumerTypes DEF Types, Deleting
  <2>3. Linked' = Linked /\ Handled' = Handled BY <2>1, <2>2 DEF Linked, Handled
  <2>4. Sizes'
    <3>1. Consumer \in Thread BY DEF Thread
    <3>2. pc'[Consumer] = "idle" <=> pc[Consumer] = "store" BY <1>0, <2>1, <3>1 DEF Types
    <3>3. CASE pc[Consumer] = "load" BY <1>0, <2>1, <2>2, <3>1, <3>3 DEF Sizes
    <3>4. CASE pc[Consumer] = "store"
      <4>1. count[Consumer] \in Nat /\ count[Consumer] > 0 BY <1>0, <3>1, <3>4 DEF Sizes
      <4> QED BY <1>0, <2>1, <3>2, <3>4, <4>1 DEF Sizes
    <3> QED BY <2>1, <3>3, <3>4
  <2>5. Cells' BY <1>0, <2>1, <2>2, <2>3 DEF Cells
  <2>6. Temp' BY <2>2 DEF Temp
  <2>7. Messages' BY <1>0, <2>1, <2>2, <2>3 DEF Messages
  <2>8. Fresh' BY <1>0, <2>1, <2>2, <2>3 DEF Fresh, InTaking
  <2>9. AtMostOnce' BY <1>0, <2>1 DEF AtMostOnce
  <2> QED BY <2>2, <2>4, <2>5, <2>6, <2>7, <2>8, <2>9 DEF NodeInv, Shape
<1> QED BY <1>1, <1>2, <1>3, <1>4, <1>5, <1>6 DEF Delete

LEMMA StartKeepsNodes == RaceInit => NodeInv
<1> SUFFICES ASSUME RaceInit PROVE NodeInv OBVIOUS
<1>1. Types /\ Sizes
  BY DEF RaceInit, Types, Sizes, Adding, Deleting, Thread
<1>2. heap = {} /\ first = NULL /\ Pending = {} /\ Linked = {} /\ Handled = {}
      /\ pc[Consumer] = "idle"
  BY DEF RaceInit, Pending, Linked, Handled, Thread
<1>3. Shape BY <1>2 DEF Shape, Cells, Temp, Messages, Fresh, InTaking
<1>4. AtMostOnce BY DEF RaceInit, AtMostOnce
<1> QED BY <1>1, <1>3, <1>4 DEF NodeInv

LEMMA StepKeepsNodes ==
  ASSUME NodeInv, [RaceNext]_raceVars
  PROVE  NodeInv'
<1>1. CASE UNCHANGED raceVars
  BY <1>1 DEF raceVars, NodeInv, Types, Sizes, AtMostOnce, Shape, Cells, Temp, Messages, Fresh,
              InTaking, Pending, Linked, Handled, Known, Started, Current
<1>2. CASE RaceNext
  <2>0. UNCHANGED quota BY <1>2 DEF RaceNext
  <2>1. CASE Take /\ ~UNCHANGED fault
    BY <2>0, <2>1, FaultKeepsNodes DEF Take
  <2>2. CASE Delete /\ ~UNCHANGED fault
    BY <2>0, <2>2, FaultKeepsNodes
    DEF Delete, DeleteTest, DeleteTemp, DeleteNext, DeleteUnlink, DeleteFree, DeleteLoad, DeleteStore
  <2>3. ASSUME NEW p \in Producer, Add(p) PROVE NodeInv'
    <3>1. CASE AddNext(p) /\ ~UNCHANGED fault
      BY <2>0, <3>1, FaultKeepsNodes DEF AddNext
    <3>2. CASE (AddFirst(p) \/ AddNext(p)) /\ UNCHANGED fault
      BY <2>0, <3>2, LinkKeepsNodes
    <3>3. AddFirst(p) => UNCHANGED fault BY DEF AddFirst
    <3> QED BY <2>0, <2>3, <3>1, <3>2, <3>3, MallocKeepsNodes, AsideSteps DEF Add
  <2>4. CASE Take /\ UNCHANGED fault BY <2>0, <2>4, TakeKeepsNodes
  <2>5. CASE Delete /\ UNCHANGED fault BY <2>0, <2>5, DeleteKeepsNodes
  <2> QED BY <1>2, <2>1, <2>2, <2>3, <2>4, <2>5 DEF RaceNext
<1> QED BY <1>1, <1>2

\* However the calls overlap and whatever addresses are reused, no message is handed
\* to the consumer twice (queue.c:46-52, 64-66).
THEOREM RaceAtMostOnce == RaceSpec => []AtMostOnce
<1>1. NodeInv => AtMostOnce BY DEF NodeInv
<1> QED BY StartKeepsNodes, StepKeepsNodes, <1>1, PTL DEF RaceSpec
-----------------------------------------------------------------------------
(* The order.                                                              *)

\* With one producer every message there is is that of the one that adds.
LEMMA OneSender ==
  ASSUME NodeInv, Active, OneProducer, NEW p \in Producer, pc[p] # "idle", NEW m, Known(m)
  PROVE  m[1] = p /\ m[2] \in Nat /\ m[2] <= Started(p)
<1>1. m[1] \in Producer /\ m[2] \in Nat \ {0} /\ m[2] <= Started(m[1])
  BY DEF Known, Numbered
<1>2. quota[p] # 0 BY DEF Active
<1>3. quota[m[1]] = 0 => Started(m[1]) = 0 BY <1>1 DEF Active, Started
<1>4. quota[m[1]] # 0 BY <1>1, <1>3
<1> QED BY <1>1, <1>2, <1>4 DEF OneProducer

\* A node not linked yet has a higher number than any message there is.
LEMMA PendingIsNewest ==
  ASSUME NodeInv, Active, OneProducer, NEW p \in Pending
  PROVE  /\ Above(node[p])
         /\ \A n \in heap : n # node[p] => message[n][2] < message[node[p]][2]
<1>1. /\ p \in Producer /\ pc[p] \notin {"idle", "malloc"} /\ node[p] \in heap
      /\ message[node[p]] = Current(p) /\ Current(p) = <<p, added[p] + 1>>
      /\ added[p] \in Nat
  BY DEF NodeInv, Shape, Types, Pending, Cells, Messages, Current
<1>2. Started(p) = added[p] + 1 BY <1>1 DEF Started
<1>3. ASSUME NEW m, Known(m), m # Current(p) PROVE m[2] < added[p] + 1
  <2>1. m[1] = p /\ m[2] \in Nat /\ m[2] <= added[p] + 1 BY <1>1, <1>2, <1>3, OneSender
  <2>2. m = <<m[1], m[2]>> BY <1>3 DEF Known, Numbered
  <2> QED BY <1>1, <1>3, <2>1, <2>2
<1>4. \A m \in Handled : Known(m) /\ m # Current(p)
  BY <1>1 DEF NodeInv, Shape, Messages, Fresh
<1>5. \A n \in heap : Known(message[n]) /\ (n # node[p] => message[n] # Current(p))
  BY <1>1 DEF NodeInv, Shape, Messages
<1> QED BY <1>1, <1>3, <1>4, <1>5 DEF Above

LEMMA AddKeepsOrdered ==
  ASSUME NodeInv, Active, OneProducer, Ordered, NEW p \in Producer, Add(p), UNCHANGED <<quota, fault>>
  PROVE  Ordered'
<1> USE ProducerIsNotConsumer
<1>0. /\ Types /\ Cells /\ Temp /\ Messages
  BY DEF NodeInv, Shape
<1>n. NULL \notin heap /\ Linked \subseteq heap BY <1>0 DEF Types, Linked
<1>1. pc'[Consumer] = pc[Consumer] /\ ptr'[Consumer] = ptr[Consumer]
      /\ node'[Consumer] = node[Consumer] /\ InTaking' = InTaking
      /\ handled' = handled /\ Handled' = Handled
  <2>1. handled' = handled
    BY DEF Add, AddTest, AddMalloc, AddBranch, AddFirst, AddTail, AddNext, AddLast, AddLoad,
           AddStore, Fault
  <2>2. pc' = pc \/ \E label \in Adding : pc' = [pc EXCEPT ![p] = label]
    BY DEF Add, AddTest, AddMalloc, AddBranch, AddFirst, AddTail, AddNext, AddLast, AddLoad,
           AddStore, Fault, Goto, Adding
  <2>3. ptr' = ptr \/ ptr' = [ptr EXCEPT ![p] = last]
    BY DEF Add, AddTest, AddMalloc, AddBranch, AddFirst, AddTail, AddNext, AddLast, AddLoad,
           AddStore, Fault
  <2>4. node' = node \/ \E new \in Node : node' = [node EXCEPT ![p] = new]
    BY DEF Add, AddTest, AddMalloc, AddBranch, AddFirst, AddTail, AddNext, AddLast, AddLoad,
           AddStore, Fault
  <2>5. pc'[Consumer] = pc[Consumer] BY <1>0, <2>2 DEF Types
  <2>6. ptr'[Consumer] = ptr[Consumer] BY <1>0, <2>3 DEF Types
  <2>7. node'[Consumer] = node[Consumer] BY <1>0, <2>4 DEF Types
  <2> QED BY <2>1, <2>5, <2>6, <2>7 DEF Handled, InTaking
<1>2. CASE AddMalloc(p)
  <2>1. PICK new \in Node \ heap :
          /\ heap' = heap \cup {new}
          /\ message' = [message EXCEPT ![new] = Current(p)]
          /\ next' = [next EXCEPT ![new] = NULL]
    BY <1>2 DEF AddMalloc
  <2>2. first' = first BY <1>2 DEF AddMalloc
  <2>3. /\ \A x \in heap : next'[x] = next[x] /\ message'[x] = message[x]
        /\ next'[new] = NULL
    BY <1>0, <2>1 DEF Types
  <2>4. \A x \in Linked' : x \in Linked \/ x = new
    BY <1>1, <2>1 DEF Linked
  <2>5. \A x \in Linked' : next'[x] # NULL /\ next'[x] # x => message'[x][2] < message'[next'[x]][2]
    BY <1>0, <1>n, <2>3, <2>4 DEF Ordered, Cells
  <2>6. \A n \in heap : Above(n)' <=> Above(n)
    BY <1>1, <2>3 DEF Above
  <2>7. pc[Consumer] \in {"delete", "temp"} => first \in heap
    BY <1>0 DEF Temp, Cells
  <2>8. ~InTaking' /\ first' # NULL => Above(first)'
    BY <1>0, <1>1, <2>2, <2>6 DEF Ordered, Cells, Above
  <2>9. pc'[Consumer] \in {"delete", "temp"} => \A m \in Handled' : m[2] <= message'[first'][2]
    BY <1>1, <2>2, <2>3, <2>7 DEF Ordered
  <2>10. pc'[Consumer] = "next" => \A m \in Handled' : m[2] <= message'[node'[Consumer]][2]
    BY <1>0, <1>1, <2>3 DEF Ordered, Temp
  <2>11. pc'[Consumer] = "unlink" /\ ptr'[Consumer] # NULL => Above(ptr[Consumer])'
    BY <1>0, <1>1, <2>3 DEF Ordered, Temp, Above
  <2> QED BY <2>5, <2>8, <2>9, <2>10, <2>11, <1>1 DEF Ordered, Above
<1>3. CASE AddFirst(p) \/ AddNext(p)
  <2>1. /\ UNCHANGED <<heap, message, node, ptr>> /\ p \in Pending
        /\ \/ first' = node[p] /\ next' = next
           \/ ptr[p] \in heap /\ next' = [next EXCEPT ![ptr[p]] = node[p]] /\ first' = first
    <3>1. CASE AddFirst(p) BY <3>1 DEF AddFirst, At, Goto, Pending
    <3>2. CASE AddNext(p)
      <4>1. fault = "none" /\ pc[p] = "next" BY <3>2 DEF AddNext, At
      <4>2. ~Fault(ptr[p]) BY <4>1 DEF Fault
      <4> QED BY <3>2, <4>1, <4>2 DEF AddNext, Goto, At, Live, Pending
    <3> QED BY <1>3, <3>1, <3>2
  <2>2. /\ Above(node[p])
        /\ \A n \in heap : n # node[p] => message[n][2] < message[node[p]][2]
    BY <2>1, PendingIsNewest
  <2>3. Linked' = Linked BY <1>1, <2>1 DEF Linked
  <2>4. \A x \in Linked : next'[x] = next[x] \/ next'[x] = node[p]
    BY <1>0, <1>n, <2>1 DEF Types
  <2>5. \A x \in Linked : next'[x] # NULL /\ next'[x] # x => message[x][2] < message[next'[x]][2]
    BY <1>n, <2>2, <2>4 DEF Ordered
  <2>6. \A n : Above(n)' <=> Above(n) BY <1>1, <2>1 DEF Above
  <2>7. Above(node[p]) => \A m \in Handled : m[2] <= message[node[p]][2]
    <3>1. \A m \in Handled : m[2] \in Nat BY <1>0 DEF Messages, Known, Numbered
    <3>2. message[node[p]][2] \in Nat BY <1>0, <2>1 DEF Cells, Messages, Known, Numbered
    <3> QED BY <3>1, <3>2 DEF Above
  <2>8. first' = first \/ first' = node[p] BY <2>1
  <2> QED BY <1>1, <2>1, <2>2, <2>3, <2>5, <2>6, <2>7, <2>8 DEF Ordered
<1>4. CASE ~(AddMalloc(p) \/ AddFirst(p) \/ AddNext(p))
  <2>1. UNCHANGED <<heap, message, next, first>>
    BY <1>4 DEF Add, AddTest, AddBranch, AddTail, AddLast, AddLoad, AddStore, queue
  <2>2. Linked' = Linked BY <1>1, <2>1 DEF Linked
  <2> QED BY <1>1, <2>1, <2>2 DEF Ordered, Above
<1> QED BY <1>2, <1>3, <1>4

\* A read of the message goes on from it: what was handled before is lower.
LEMMA TakeKeepsOrdered ==
  ASSUME NodeInv, OneProducer, Ordered, InOrder, Take, UNCHANGED <<quota, fault>>
  PROVE  Ordered' /\ InOrder'
<1>1. /\ UNCHANGED <<heap, message, next, first, node, ptr>>
      /\ pc[Consumer] = "idle" /\ pc' = [pc EXCEPT ![Consumer] = "delete"]
      /\ first \in heap /\ handled' = Append(handled, message[first])
  <2>1. fault = "none" /\ pc[Consumer] = "idle" BY DEF Take, At
  <2>2. ~Fault(first) BY <2>1 DEF Fault
  <2> QED BY <2>1, <2>2 DEF Take, Goto, At, Live, queue
<1>2. Types /\ NULL \notin heap /\ message[first] \in Numbered /\ handled \in Seq(Numbered)
  BY <1>1 DEF NodeInv, Shape, Types, Messages, Known
<1>3. pc'[Consumer] = "delete" BY <1>1, <1>2 DEF Types, Thread
<1>4. Above(first) BY <1>1, <1>2 DEF Ordered, InTaking
<1>5. /\ DOMAIN handled = 1..Len(handled) /\ DOMAIN handled' = 1..Len(handled) + 1
      /\ \A i \in 1..Len(handled) : handled'[i] = handled[i]
      /\ handled'[Len(handled) + 1] = message[first] /\ Len(handled) \in Nat
  BY <1>1, <1>2
<1>6. \A i \in 1..Len(handled) : handled[i][2] < message[first][2]
  BY <1>4, <1>5 DEF Above, Handled
<1>7. InOrder'
  <2>1. SUFFICES ASSUME NEW i \in DOMAIN handled', NEW j \in DOMAIN handled', i < j,
                        handled'[i][1] = handled'[j][1]
                 PROVE  handled'[i][2] < handled'[j][2]
    BY DEF InOrder, OneProducer
  <2>2. CASE j = Len(handled) + 1
    <3>1. i \in 1..Len(handled) BY <1>5, <2>1, <2>2
    <3> QED BY <1>5, <1>6, <2>2, <3>1
  <2>3. CASE j # Len(handled) + 1
    <3>1. i \in 1..Len(handled) /\ j \in 1..Len(handled) BY <1>5, <2>1, <2>3
    <3> QED BY <1>5, <2>1, <3>1 DEF InOrder
  <2> QED BY <2>2, <2>3
<1>8. Linked' = Linked BY <1>1, <1>3 DEF Linked
<1>9. \A m \in Handled' : m[2] <= message[first][2]
  <2>1. ASSUME NEW m \in Handled' PROVE m \in Handled \/ m = message[first]
    BY <1>5 DEF Handled
  <2>2. \A m \in Handled : m[2] \in Nat
    BY DEF NodeInv, Shape, Messages, Known, Numbered
  <2>3. message[first][2] \in Nat BY <1>2 DEF Numbered
  <2> QED BY <1>4, <2>1, <2>2, <2>3 DEF Above
<1>10. Ordered' BY <1>1, <1>3, <1>8, <1>9 DEF Ordered, InTaking
<1> QED BY <1>7, <1>10

LEMMA DeleteKeepsOrdered ==
  ASSUME NodeInv, OneProducer, Ordered, Delete, UNCHANGED <<quota, fault>>
  PROVE  Ordered'
<1>0. /\ Types /\ Sizes /\ Cells /\ Temp /\ Messages
  BY DEF NodeInv, Shape
<1>n. NULL \notin heap /\ Consumer \in Thread BY <1>0 DEF Types, Thread
<1>1. /\ UNCHANGED <<message, next, handled>> /\ Handled' = Handled
      /\ \A n : Above(n)' <=> Above(n)
  <2>1. UNCHANGED <<message, next, handled>>
    BY DEF Delete, DeleteTest, DeleteTemp, DeleteNext, DeleteUnlink, DeleteFree, DeleteLoad,
           DeleteStore, queue, Fault
  <2> QED BY <2>1 DEF Handled, Above
<1>2. CASE DeleteTest
  <2>1. /\ UNCHANGED <<heap, first, node, ptr>>
        /\ pc[Consumer] = "delete" /\ pc'[Consumer] = "temp"
    BY <1>0, <1>n, <1>2 DEF DeleteTest, At, Goto, queue, Sizes, Types
  <2>2. Linked' = Linked BY <2>1 DEF Linked
  <2> QED BY <1>1, <2>1, <2>2 DEF Ordered, InTaking
<1>3. CASE DeleteTemp
  <2>1. /\ UNCHANGED <<heap, first, ptr>> /\ node'[Consumer] = first
        /\ pc[Consumer] = "temp" /\ pc'[Consumer] = "next"
    BY <1>0, <1>n, <1>3 DEF DeleteTemp, At, Goto, queue, Types
  <2>2. Linked' = Linked BY <2>1 DEF Linked
  <2> QED BY <1>1, <2>1, <2>2 DEF Ordered, InTaking
<1>4. CASE DeleteNext
  <2>1. /\ UNCHANGED <<heap, first, node>> /\ ptr'[Consumer] = next[node[Consumer]]
        /\ pc[Consumer] = "next" /\ pc'[Consumer] = "unlink"
    <3>1. fault = "none" /\ pc[Consumer] = "next" BY <1>4 DEF DeleteNext, At
    <3>2. ~Fault(node[Consumer]) BY <3>1 DEF Fault
    <3> QED BY <1>0, <1>n, <1>4, <3>1, <3>2 DEF DeleteNext, Goto, At, queue, Types
  <2>2. Linked' \subseteq Linked /\ node[Consumer] \in Linked /\ next[node[Consumer]] # node[Consumer]
    BY <1>0, <2>1 DEF Linked, Temp
  <2>3. \A m \in Handled : m[2] \in Nat /\ m[2] <= message[node[Consumer]][2]
    BY <1>0, <2>1 DEF Ordered, Messages, Known, Numbered
  <2>4. ASSUME next[node[Consumer]] # NULL PROVE Above(next[node[Consumer]])
    <3>1. message[node[Consumer]][2] \in Nat /\ message[next[node[Consumer]]][2] \in Nat
      BY <1>0, <2>1, <2>2, <2>4 DEF Temp, Cells, Messages, Known, Numbered
    <3>2. message[node[Consumer]][2] < message[next[node[Consumer]]][2]
      BY <2>2, <2>4 DEF Ordered
    <3> QED BY <2>3, <3>1, <3>2 DEF Above
  <2> QED BY <1>1, <2>1, <2>2, <2>4 DEF Ordered, InTaking
<1>5. CASE DeleteUnlink
  <2>1. /\ UNCHANGED <<heap, node, ptr>> /\ first' = ptr[Consumer]
        /\ pc[Consumer] = "unlink" /\ pc'[Consumer] = "free"
    BY <1>0, <1>n, <1>5 DEF DeleteUnlink, At, Goto, Types
  <2>2. Linked' = Linked BY <2>1 DEF Linked
  <2> QED BY <1>1, <2>1, <2>2 DEF Ordered, InTaking
<1>6. CASE DeleteFree
  <2>1. /\ UNCHANGED <<first, node, ptr>> /\ heap' = heap \ {node[Consumer]}
        /\ pc[Consumer] = "free" /\ pc'[Consumer] = "load"
    BY <1>0, <1>n, <1>6 DEF DeleteFree, At, Goto, Types
  <2>2. Linked' = Linked BY <2>1 DEF Linked
  <2> QED BY <1>1, <2>1, <2>2 DEF Ordered, InTaking
<1>7. CASE DeleteLoad \/ DeleteStore
  <2>1. /\ UNCHANGED <<heap, first, node, ptr>>
        /\ pc[Consumer] \in {"load", "store"} /\ pc'[Consumer] \in {"idle", "store"}
    BY <1>0, <1>n, <1>7 DEF DeleteLoad, DeleteStore, At, Goto, queue, Types
  <2>2. Linked' = Linked BY <2>1 DEF Linked
  <2> QED BY <1>1, <2>1, <2>2 DEF Ordered, InTaking
<1> QED BY <1>2, <1>3, <1>4, <1>5, <1>6, <1>7 DEF Delete

LEMMA StepKeepsOrder ==
  ASSUME NodeInv, OrderInv, [RaceNext]_raceVars
  PROVE  OrderInv'
<1>1. CASE UNCHANGED raceVars
  BY <1>1 DEF raceVars, OrderInv, Active, OneProducer, Ordered, Above, Handled, Linked, InTaking,
              InOrder
<1>2. CASE RaceNext
  <2>0. UNCHANGED quota /\ (OneProducer' <=> OneProducer) BY <1>2 DEF RaceNext, OneProducer
  <2>1. CASE Take
    <3>1. Active' BY <2>0, <2>1, ProducerIsNotConsumer
                  DEF NodeInv, Types, OrderInv, Active, Take, Goto, Fault
    <3>2. CASE UNCHANGED fault
      BY <2>0, <2>1, <3>1, <3>2, TakeKeepsOrdered DEF OrderInv, InOrder
    <3>3. CASE ~UNCHANGED fault
      <4>1. UNCHANGED <<heap, message, next, first, pc, node, ptr, handled>>
        BY <2>1, <3>3 DEF Take, Fault
      <4> QED BY <2>0, <3>1, <4>1
              DEF OrderInv, Ordered, Above, Handled, Linked, InTaking, InOrder
    <3> QED BY <3>2, <3>3
  <2>2. CASE Delete
    <3>1. handled' = handled /\ added' = added /\ \A p \in Producer : pc'[p] = pc[p]
      BY <2>2, ProducerIsNotConsumer
      DEF NodeInv, Types, Delete, DeleteTest, DeleteTemp, DeleteNext, DeleteUnlink, DeleteFree,
          DeleteLoad, DeleteStore, Goto, Fault
    <3>2. Active' /\ InOrder' BY <2>0, <3>1 DEF OrderInv, Active, InOrder
    <3>3. CASE UNCHANGED fault
      BY <2>0, <2>2, <3>2, <3>3, DeleteKeepsOrdered DEF OrderInv
    <3>4. CASE ~UNCHANGED fault
      <4>1. UNCHANGED <<heap, message, next, first, pc, node, ptr, handled>>
        BY <2>2, <3>4
        DEF Delete, DeleteTest, DeleteTemp, DeleteNext, DeleteUnlink, DeleteFree, DeleteLoad,
            DeleteStore, Fault
      <4> QED BY <2>0, <3>2, <4>1 DEF OrderInv, Ordered, Above, Handled, Linked, InTaking
    <3> QED BY <3>3, <3>4
  <2>3. ASSUME NEW p \in Producer, Add(p) PROVE OrderInv'
    <3>1. \A q \in Producer : q # p => pc'[q] = pc[q] /\ added'[q] = added[q]
      <4>1. added' = added \/ added' = [added EXCEPT ![p] = @ + 1]
        BY <2>3 DEF Add, AddTest, AddMalloc, AddBranch, AddFirst, AddTail, AddNext, AddLast, AddLoad,
           AddStore, Fault
      <4>2. pc' = pc \/ \E label \in Adding : pc' = [pc EXCEPT ![p] = label]
        BY <2>3 DEF Add, AddTest, AddMalloc, AddBranch, AddFirst, AddTail, AddNext, AddLast, AddLoad,
           AddStore, Fault, Goto, Adding
      <4> QED BY <4>1, <4>2, ProducerIsNotConsumer DEF NodeInv, Types
    <3>2. quota[p] # 0
      <4>1. AddTest(p) => added[p] < quota[p] BY DEF AddTest
      <4>2. ~AddTest(p) => pc[p] # "idle"
        BY <2>3 DEF Add, AddMalloc, AddBranch, AddFirst, AddTail, AddNext, AddLast, AddLoad,
                AddStore, Goto, At
      <4>3. added[p] \in Nat BY DEF NodeInv, Types
      <4> QED BY <4>1, <4>2, <4>3 DEF OrderInv, Active
    <3>3. Active' BY <2>0, <3>1, <3>2 DEF OrderInv, Active
    <3>4. handled' = handled
      BY <2>3 DEF Add, AddTest, AddMalloc, AddBranch, AddFirst, AddTail, AddNext, AddLast, AddLoad,
         AddStore, Fault
    <3>5. InOrder' BY <2>0, <3>4 DEF OrderInv, InOrder
    <3>6. CASE UNCHANGED fault
      BY <2>0, <2>3, <3>3, <3>5, <3>6, AddKeepsOrdered DEF OrderInv
    <3>7. CASE ~UNCHANGED fault
      <4>1. UNCHANGED <<heap, message, next, first, pc, node, ptr, handled>>
        BY <2>3, <3>7
        DEF Add, AddTest, AddMalloc, AddBranch, AddFirst, AddTail, AddNext, AddLast, AddLoad,
            AddStore, Fault
      <4> QED BY <2>0, <3>3, <3>5, <4>1 DEF OrderInv, Ordered, Above, Handled, Linked, InTaking
    <3> QED BY <3>6, <3>7
  <2> QED BY <1>2, <2>1, <2>2, <2>3 DEF RaceNext
<1> QED BY <1>1, <1>2

LEMMA StartKeepsOrder == RaceInit => OrderInv
  BY DEF RaceInit, OrderInv, Active, Ordered, InOrder, Linked, InTaking, Thread

\* With one producer the messages that arrive arrive in the order in which they were
\* added, overlaps or not (queue.c:46-48).
THEOREM RaceInOrder == RaceSpec => []InOrder
<1>1. RaceInit => NodeInv /\ OrderInv BY StartKeepsNodes, StartKeepsOrder
<1>2. NodeInv /\ OrderInv /\ [RaceNext]_raceVars => NodeInv' /\ OrderInv'
  BY StepKeepsNodes, StepKeepsOrder
<1>3. OrderInv => InOrder BY DEF OrderInv
<1> QED BY <1>1, <1>2, <1>3, PTL DEF RaceSpec
-----------------------------------------------------------------------------
(* The list.                                                               *)

\* Two calls that do not overlap: all other threads are outside.
LEMMA NoOverlap ==
  ASSUME RaceNext, ~overlap'
  PROVE  ~overlap /\ \A t, u \in Thread : t # u => pc'[t] = "idle" \/ pc'[u] = "idle"
  BY DEF RaceNext

\* What has to be shown of a step of add_queue, and of one of the consumer.
LEMMA ProducersTurn ==
  ASSUME NEW p \in Producer, fault' = "none", \A t \in Thread \ {p} : pc'[t] = "idle",
         Producing(p)', pc'[p] = "idle" => ListIs(size, Unhandled)'
  PROVE  InTurn'
<1>1. \A q \in Producer : q \in Thread BY DEF Thread
<1>2. Consumer \in Thread \ {p} BY ProducerIsNotConsumer
<1>3. Consuming' BY <1>2 DEF Consuming, InTaking
<1>4. \A q \in Producer : Producing(q)' BY <1>1 DEF Producing
<1>5. \A t \in Thread : pc'[t] # "idle" => Alone(t)' BY DEF Alone
<1>6. Quiet' => ListIs(size, Unhandled)' BY <1>1 DEF Quiet
<1> QED BY <1>3, <1>4, <1>5, <1>6 DEF InTurn

LEMMA ConsumersTurn ==
  ASSUME fault' = "none", \A p \in Producer : pc'[p] = "idle",
         Consuming', pc'[Consumer] = "idle" => ListIs(size, Unhandled)'
  PROVE  InTurn'
<1>1. Consumer \in Thread /\ \A t \in Thread : t \in Producer \/ t = Consumer BY DEF Thread
<1>2. \A q \in Producer : Producing(q)' BY DEF Producing
<1>3. \A t \in Thread : pc'[t] # "idle" => Alone(t)' BY <1>1 DEF Alone
<1>4. Quiet' => ListIs(size, Unhandled)' BY <1>1 DEF Quiet
<1> QED BY <1>2, <1>3, <1>4 DEF InTurn

\* A list stays one while the nodes and first do.
LEMMA ChainStays ==
  ASSUME NEW c, NEW n, UNCHANGED <<heap, message, next, first>>
  PROVE  Chain(c, n)' = Chain(c, n) /\ Content(c, n)' = Content(c, n)
  BY DEF Chain, Content

LEMMA ListStays ==
  ASSUME NEW n, NEW S, UNCHANGED <<heap, message, next, first, last>>
  PROVE  ListIs(n, S)' <=> ListIs(n, S)
  BY DEF ListIs, Chain, Content, Ends

LEMMA StepKeepsCounted ==
  ASSUME NodeInv, Counted, [RaceNext]_raceVars
  PROVE  Counted'
<1>0. Types BY DEF NodeInv
<1>1. CASE UNCHANGED raceVars BY <1>1 DEF raceVars, Counted, Begun
<1>2. CASE Take \/ Delete
  <2>1. accepted' = accepted /\ added' = added /\ \A p \in Producer : pc'[p] = pc[p]
    BY <1>0, <1>2, ProducerIsNotConsumer
    DEF Types, Take, Delete, DeleteTest, DeleteTemp, DeleteNext, DeleteUnlink, DeleteFree,
        DeleteLoad, DeleteStore, Goto, Fault
  <2> QED BY <2>1 DEF Counted, Begun, Numbered
<1>3. ASSUME NEW p \in Producer, Add(p) PROVE Counted'
  <2>1. \/ pc[p] = "idle" /\ added' = [added EXCEPT ![p] = @ + 1] /\ pc' = pc
           /\ accepted' = accepted
        \/ pc[p] = "idle" /\ added' = added /\ pc' = [pc EXCEPT ![p] = "malloc"]
           /\ accepted' = accepted \cup {Current(p)}
        \/ pc[p] # "idle" /\ added' = [added EXCEPT ![p] = @ + 1]
           /\ pc' = [pc EXCEPT ![p] = "idle"] /\ accepted' = accepted
        \/ pc[p] # "idle" /\ added' = added /\ accepted' = accepted
           /\ (pc' = pc \/ \E label \in Adding \ {"idle"} : pc' = [pc EXCEPT ![p] = label])
    <3>1. CASE AddTest(p) BY <3>1 DEF AddTest, At, Goto
    <3>2. CASE AddStore(p) BY <3>2 DEF AddStore, At, Goto
    <3>3. CASE AddMalloc(p) \/ AddBranch(p) \/ AddFirst(p) \/ AddTail(p) \/ AddNext(p)
               \/ AddLast(p) \/ AddLoad(p)
      BY <3>3 DEF AddMalloc, AddBranch, AddFirst, AddTail, AddNext, AddLast, AddLoad,
                  At, Goto, Fault, Adding
    <3> QED BY <1>3, <3>1, <3>2, <3>3 DEF Add
  <2>2. ASSUME NEW q \in Producer PROVE Begun(q) \in Nat /\ Begun(q)' \in Nat /\ Begun(q) <= Begun(q)'
    BY <1>0, <2>1, ProducerIsNotConsumer DEF Types, Begun
  <2>3. \A m \in accepted : m \in Numbered /\ m[1] \in Producer /\ m[2] \in Nat /\ m[2] <= Begun(m[1])'
    BY <2>2 DEF Counted, Numbered
  <2>4. accepted' # accepted => Current(p) \in Numbered /\ Current(p)[1] = p
                                /\ Current(p)[2] <= Begun(p)'
    BY <1>0, <2>1, ProducerIsNotConsumer DEF Types, Begun, Current, Numbered
  <2> QED BY <2>1, <2>3, <2>4 DEF Counted
<1> QED BY <1>1, <1>2, <1>3 DEF RaceNext

\* A full queue drops the message whatever the other threads are at.
LEMMA DropKeepsTurn ==
  ASSUME InTurn, Types, NEW p \in Producer, pc[p] = "idle", added' = [added EXCEPT ![p] = @ + 1],
         UNCHANGED <<queue, pc, node, ptr, count, accepted, handled, fault>>
  PROVE  InTurn'
<1>1. UNCHANGED <<heap, message, next, first, last, size>> BY DEF queue
<1>2. Unhandled' = Unhandled BY DEF Unhandled, Handled
<1>3. \A q \in Producer : q # p => Current(q)' = Current(q) BY DEF Types, Current
<1>4. Quiet' => ListIs(size, Unhandled)'
  BY <1>1, <1>2 DEF InTurn, Quiet, ListIs, Chain, Content, Ends
<1>5. ASSUME NEW q \in Producer PROVE Producing(q)'
  <2>1. CASE q = p BY <2>1 DEF Producing
  <2>2. CASE q # p
    BY <1>1, <1>2, <1>3, <2>2 DEF InTurn, Producing, ListIs, Chain, Content, Ends
  <2> QED BY <2>1, <2>2
<1>6. Consuming'
  BY <1>1, <1>2 DEF InTurn, Consuming, InTaking, ListIs, Chain, Content, Ends
<1> QED BY <1>4, <1>5, <1>6 DEF InTurn, Alone

\* A call that begins while all others are outside.
LEMMA BeginKeepsTurn ==
  ASSUME NodeInv, Counted, InTurn, NEW p \in Producer, AddTest(p), pc' # pc,
         \A t, u \in Thread : t # u => pc'[t] = "idle" \/ pc'[u] = "idle"
  PROVE  InTurn'
<1> USE ProducerIsNotConsumer
<1>0. Types BY DEF NodeInv
<1>1. /\ UNCHANGED <<heap, message, next, first, last, size, added, handled, fault>>
      /\ pc[p] = "idle" /\ pc' = [pc EXCEPT ![p] = "malloc"]
      /\ accepted' = accepted \cup {Current(p)} /\ fault = "none"
  BY DEF AddTest, At, Goto, queue
<1>2. pc'[p] = "malloc" /\ \A t \in Thread \ {p} : pc'[t] = "idle" /\ pc[t] = "idle"
  BY <1>0, <1>1 DEF Types
<1>3. ListIs(size, Unhandled) BY <1>1, <1>2 DEF InTurn, Quiet
<1>4. Current(p) \notin accepted
  BY <1>0, <1>1 DEF Counted, Begun, Current, Types
<1>5. Unhandled' \ {Current(p)} = Unhandled /\ Current(p)' = Current(p)
  BY <1>1, <1>4 DEF Unhandled, Handled, Current
<1>6. ListIs(size, Unhandled \ {Current(p)})'
  BY <1>1, <1>3, <1>5, ListStays
<1>7. Producing(p)' BY <1>1, <1>2, <1>5, <1>6 DEF Producing
<1> QED BY <1>1, <1>2, <1>7, ProducersTurn

LEMMA MallocKeepsTurn ==
  ASSUME NodeInv, InTurn, NEW p \in Producer, AddMalloc(p)
  PROVE  InTurn'
<1> USE ProducerIsNotConsumer
<1>0. Types /\ Messages BY DEF NodeInv, Shape
<1>1. PICK new \in Node \ heap :
        /\ heap' = heap \cup {new}
        /\ message' = [message EXCEPT ![new] = Current(p)]
        /\ next' = [next EXCEPT ![new] = NULL]
  BY DEF AddMalloc
<1>2. /\ UNCHANGED <<first, last, size, added, accepted, handled, fault>>
      /\ pc[p] = "malloc" /\ pc' = [pc EXCEPT ![p] = "link"]
  BY DEF AddMalloc, At, Goto
<1>3. pc'[p] = "link" /\ \A t \in Thread \ {p} : pc'[t] = "idle"
  BY <1>0, <1>2 DEF Types, InTurn, Alone
<1>4. Unhandled' = Unhandled /\ Current(p)' = Current(p)
  BY <1>2 DEF Unhandled, Handled, Current
<1>5. ListIs(size, Unhandled \ {Current(p)}) /\ Current(p) \in accepted
  BY <1>2 DEF InTurn, Producing
<1>6. PICK c \in [1..size -> heap] :
        Chain(c, size) /\ Content(c, size) = Unhandled \ {Current(p)} /\ Ends(c, size, last)
  BY <1>5 DEF ListIs
<1>7. \A i \in 1..size : c[i] \in heap /\ next'[c[i]] = next[c[i]] /\ message'[c[i]] = message[c[i]]
  BY <1>0, <1>1, <1>6 DEF Types
<1>8. size \in Nat BY DEF NodeInv, Sizes
<1>9. Chain(c, size)' /\ c \in [1..size -> heap']
  <2>1. \A i \in 1..size - 1 : i \in 1..size BY <1>8
  <2> QED BY <1>1, <1>2, <1>6, <1>7, <2>1 DEF Chain
<1>10. Content(c, size)' = Content(c, size) BY <1>2, <1>7 DEF Content
<1>11. ListIs(size, Unhandled \ {Current(p)})'
  BY <1>2, <1>4, <1>6, <1>9, <1>10 DEF ListIs, Ends
<1>12. Producing(p)' BY <1>2, <1>3, <1>4, <1>5, <1>11 DEF Producing
<1> QED BY <1>2, <1>3, <1>12, ProducersTurn DEF InTurn

LEMMA BranchKeepsTurn ==
  ASSUME NodeInv, InTurn, NEW p \in Producer, AddBranch(p) \/ AddTail(p)
  PROVE  InTurn'
<1> USE ProducerIsNotConsumer
<1>0. Types /\ Sizes BY DEF NodeInv
<1>1. /\ UNCHANGED <<heap, message, next, first, last, size, added, accepted, handled, fault>>
      /\ \/ pc[p] = "link" /\ size = 0 /\ pc' = [pc EXCEPT ![p] = "first"]
         \/ pc[p] = "link" /\ size # 0 /\ pc' = [pc EXCEPT ![p] = "tail"]
         \/ pc[p] = "tail" /\ pc' = [pc EXCEPT ![p] = "next"] /\ ptr' = [ptr EXCEPT ![p] = last]
  BY DEF AddBranch, AddTail, At, Goto, queue
<1>2. /\ pc'[p] = "first" => size = 0
      /\ pc'[p] \in {"tail", "next"} => size > 0
      /\ pc'[p] = "next" => ptr'[p] = last
      /\ pc'[p] \in {"first", "tail", "next"}
      /\ \A t \in Thread \ {p} : pc'[t] = "idle"
  <2>1. \A t \in Thread \ {p} : pc[t] = "idle" BY <1>1 DEF InTurn, Alone
  <2>2. pc[p] = "tail" => size > 0 BY DEF InTurn, Producing
  <2>3. size # 0 => size > 0 BY <1>0 DEF Sizes
  <2> QED BY <1>0, <1>1, <2>1, <2>2, <2>3 DEF Types
<1>3. Unhandled' = Unhandled /\ Current(p)' = Current(p)
  BY <1>1 DEF Unhandled, Handled, Current
<1>4. ListIs(size, Unhandled \ {Current(p)}) /\ Current(p) \in accepted
  BY <1>1 DEF InTurn, Producing
<1>5. ListIs(size, Unhandled \ {Current(p)})'
  BY <1>1, <1>3, <1>4, ListStays
<1>6. Producing(p)' BY <1>1, <1>2, <1>3, <1>4, <1>5 DEF Producing
<1> QED BY <1>1, <1>2, <1>6, ProducersTurn DEF InTurn

\* The new node at the end of the list, empty or not.
LEMMA LinkKeepsTurn ==
  ASSUME NodeInv, InTurn, NEW p \in Producer, AddFirst(p) \/ AddNext(p)
  PROVE  InTurn'
<1> USE ProducerIsNotConsumer
<1>0. Types /\ Sizes /\ Cells /\ Messages /\ Fresh BY DEF NodeInv, Shape
<1>1. p \in Pending /\ pc[p] \in {"first", "next"} /\ pc[p] # "idle"
  BY DEF AddFirst, AddNext, At, Goto, Pending
<1>2. PICK c \in [1..size -> heap] :
        Chain(c, size) /\ Content(c, size) = Unhandled \ {Current(p)} /\ Ends(c, size, last)
  BY <1>1 DEF InTurn, Producing, ListIs
<1>3. Current(p) \in Unhandled /\ message[node[p]] = Current(p) /\ node[p] \in heap
  <2>1. Current(p) \in accepted BY <1>1 DEF InTurn, Producing
  <2>2. message[node[p]] = Current(p) /\ Current(p) \notin Handled /\ node[p] \in heap
    BY <1>0, <1>1 DEF Messages, Fresh, Cells
  <2> QED BY <2>1, <2>2 DEF Unhandled
<1>4. size \in Nat BY <1>0 DEF Sizes
<1>5. Alone(p) BY <1>1 DEF InTurn
<1>6. Linked = heap BY <1>5 DEF Alone, Linked
<1>7. \A i \in 1..size : c[i] \in heap /\ c[i] # node[p]
  <2>1. ASSUME NEW i \in 1..size PROVE c[i] # node[p]
    <3>1. CASE i = 1
      <4>1. c[i] = first BY <1>4, <3>1, <1>2 DEF Chain
      <4> QED BY <4>1, <1>0, <1>1 DEF Cells
    <3>2. CASE i # 1
      <4>1. i - 1 \in 1..size - 1 /\ i - 1 \in 1..size /\ (i - 1) + 1 = i BY <1>4, <3>2
      <4>2. c[i] = next[c[i - 1]] BY <1>2, <4>1 DEF Chain
      <4>3. c[i - 1] \in heap /\ c[i] \in heap /\ c[i] # NULL BY <1>0, <1>2, <4>1 DEF Types
      <4> QED BY <1>0, <1>1, <1>6, <4>2, <4>3 DEF Cells
    <3> QED BY <3>1, <3>2
  <2> QED BY <1>2, <2>1
<1>8. /\ UNCHANGED <<heap, message, last, size, node, added, accepted, handled, fault>>
      /\ pc' = [pc EXCEPT ![p] = "last"]
      /\ \/ size = 0 /\ first' = node[p] /\ next' = next
         \/ size > 0 /\ next' = [next EXCEPT ![last] = node[p]] /\ first' = first
  <2>1. CASE AddFirst(p)
    <3>1. size = 0 BY <2>1 DEF AddFirst, Goto, At, InTurn, Producing
    <3> QED BY <2>1, <3>1 DEF AddFirst, Goto
  <2>2. CASE AddNext(p)
    <3>1. size > 0 /\ ptr[p] = last BY <2>2 DEF AddNext, Goto, At, InTurn, Producing
    <3>2. size \in 1..size BY <1>4, <3>1
    <3>3. last \in heap BY <1>2, <3>1, <3>2 DEF Ends
    <3> QED BY <2>2, <3>1, <3>3 DEF AddNext, Live, Goto
  <2> QED BY <2>1, <2>2
<1>9. pc'[p] = "last" /\ \A t \in Thread \ {p} : pc'[t] = "idle"
  BY <1>0, <1>5, <1>8 DEF Types, Alone
<1>10. PICK d \in [1..size + 1 -> heap] :
         /\ d[size + 1] = node[p]
         /\ \A i \in 1..size : i \in 1..size + 1 /\ d[i] = c[i]
         /\ \A i \in 1..size + 1 : i \in 1..size \/ i = size + 1
  <2> DEFINE e == [i \in 1..size + 1 |-> IF i = size + 1 THEN node[p] ELSE c[i]]
  <2>1. \A i \in 1..size + 1 : i \in 1..size \/ i = size + 1 BY <1>4
  <2>2. \A i \in 1..size : i \in 1..size + 1 /\ i # size + 1 BY <1>4
  <2>3. size + 1 \in 1..size + 1 BY <1>4
  <2>4. e \in [1..size + 1 -> heap] /\ e[size + 1] = node[p] /\ \A i \in 1..size : e[i] = c[i]
    BY <1>3, <1>7, <2>1, <2>2, <2>3
  <2> QED BY <2>1, <2>2, <2>4
<1>11. \A i, j \in 1..size + 1 : d[i] = d[j] => i = j
  BY <1>2, <1>7, <1>10 DEF Chain
<1>12. d[1] = first'
  <2>1. CASE size = 0 BY <1>8, <1>10, <2>1
  <2>2. CASE size > 0
    <3>1. 1 \in 1..size BY <1>4, <2>2
    <3> QED BY <1>2, <1>8, <1>10, <2>2, <3>1 DEF Chain
  <2> QED BY <1>4, <2>1, <2>2
<1>13. \A i \in 1..size : next'[d[i]] = d[i + 1]
  <2>1. SUFFICES ASSUME NEW i \in 1..size PROVE next'[c[i]] = d[i + 1] BY <1>10
  <2>2. size > 0 /\ next' = [next EXCEPT ![last] = node[p]] /\ c[size] = last /\ size \in 1..size
    BY <1>2, <1>4, <1>8 DEF Ends
  <2>3. \A x \in heap : next'[x] = IF x = last THEN node[p] ELSE next[x]
    BY <1>0, <2>2 DEF Types
  <2>4. CASE i = size BY <1>7, <1>10, <2>2, <2>3, <2>4
  <2>5. CASE i # size
    <3>1. i \in 1..size - 1 /\ i + 1 \in 1..size BY <1>4, <2>5
    <3>2. next[c[i]] = c[i + 1] BY <1>2, <3>1 DEF Chain
    <3>3. c[i] # last BY <1>2, <2>2, <2>5 DEF Chain
    <3> QED BY <1>7, <1>10, <2>3, <3>1, <3>2, <3>3
  <2> QED BY <2>4, <2>5
<1>14. Chain(d, size + 1)'
  <2>1. (size + 1) - 1 = size BY <1>4
  <2> QED BY <1>8, <1>10, <1>11, <1>12, <1>13, <2>1 DEF Chain
<1>15. Content(d, size + 1)' = Unhandled
  <2>1. {message[d[i]] : i \in 1..size + 1} = {message[c[i]] : i \in 1..size} \cup {Current(p)}
    <3>1. size + 1 \in 1..size + 1 BY <1>4
    <3> QED BY <1>3, <1>10, <3>1
  <2>2. Content(c, size) \cup {Current(p)} = Unhandled BY <1>2, <1>3
  <2>3. Content(d, size + 1)' = {message[d[i]] : i \in 1..size + 1} BY <1>8 DEF Content
  <2> QED BY <2>1, <2>2, <2>3 DEF Content
<1>16. Unhandled' = Unhandled /\ Current(p)' = Current(p)
  BY <1>8 DEF Unhandled, Handled, Current
<1>17. Producing(p)'
  <2>1. Current(p)' \in accepted' BY <1>1, <1>8, <1>16 DEF InTurn, Producing
  <2>2. \E e \in [1..size' + 1 -> heap'] :
          Chain(e, size + 1)' /\ Content(e, size + 1)' = Unhandled' /\ e[size' + 1] = node'[p]
    <3>1. d \in [1..size' + 1 -> heap'] /\ d[size' + 1] = node'[p] BY <1>8, <1>10
    <3> QED BY <1>14, <1>15, <1>16, <3>1
  <2> QED BY <1>9, <2>1, <2>2 DEF Producing
<1> QED BY <1>8, <1>9, <1>17, ProducersTurn DEF InTurn

LEMMA EndKeepsTurn ==
  ASSUME NodeInv, InTurn, NEW p \in Producer, AddLast(p) \/ AddLoad(p) \/ AddStore(p)
  PROVE  InTurn'
<1> USE ProducerIsNotConsumer
<1>0. Types /\ Sizes BY DEF NodeInv
<1>1. /\ UNCHANGED <<heap, message, next, first, accepted, handled, fault>>
      /\ \/ /\ pc[p] = "last" /\ pc' = [pc EXCEPT ![p] = "load"] /\ last' = node[p]
            /\ UNCHANGED <<size, added>>
         \/ /\ pc[p] = "load" /\ pc' = [pc EXCEPT ![p] = "store"]
            /\ count' = [count EXCEPT ![p] = size] /\ UNCHANGED <<size, last, added>>
         \/ /\ pc[p] = "store" /\ pc' = [pc EXCEPT ![p] = "idle"]
            /\ size' = count[p] + 1 /\ UNCHANGED last
  BY DEF AddLast, AddLoad, AddStore, At, Goto, queue
<1>2. \A t \in Thread \ {p} : pc'[t] = "idle"
  <2>1. \A t \in Thread \ {p} : pc[t] = "idle" BY <1>1 DEF InTurn, Alone
  <2> QED BY <1>0, <1>1, <2>1 DEF Types
<1>3. Unhandled' = Unhandled BY <1>1 DEF Unhandled, Handled
<1>4. CASE pc[p] = "last"
  <2>1. pc'[p] = "load" /\ last' = node[p] /\ size' = size /\ added' = added
    BY <1>0, <1>1, <1>4 DEF Types
  <2>2. PICK c \in [1..size + 1 -> heap] :
          Chain(c, size + 1) /\ Content(c, size + 1) = Unhandled /\ c[size + 1] = node[p]
    BY <1>4 DEF InTurn, Producing
  <2>a. Chain(c, size + 1)' /\ Content(c, size + 1)' = Unhandled'
    BY <1>1, <1>3, <2>1, <2>2, ChainStays
  <2>3. ListIs(size + 1, Unhandled)'
    BY <1>1, <1>3, <2>1, <2>2, <2>a DEF ListIs, Ends
  <2>4. Producing(p)' BY <1>1, <1>4, <2>1, <2>3 DEF InTurn, Producing, Current
  <2> QED BY <1>1, <1>2, <2>1, <2>4, ProducersTurn DEF InTurn
<1>5. CASE pc[p] = "load"
  <2>1. pc'[p] = "store" /\ last' = last /\ size' = size /\ added' = added /\ count'[p] = size
    BY <1>0, <1>1, <1>5 DEF Types, Sizes
  <2>2. ListIs(size + 1, Unhandled) BY <1>5 DEF InTurn, Producing
  <2>3. ListIs(size + 1, Unhandled)'
    BY <1>1, <1>3, <2>1, <2>2, ListStays
  <2>4. Producing(p)' BY <1>1, <1>5, <2>1, <2>3 DEF InTurn, Producing, Current
  <2> QED BY <1>1, <1>2, <2>1, <2>4, ProducersTurn DEF InTurn
<1>6. CASE pc[p] = "store"
  <2>1. pc'[p] = "idle" /\ last' = last /\ size' = size + 1
    BY <1>0, <1>1, <1>6 DEF Types, InTurn, Producing
  <2>2. ListIs(size + 1, Unhandled) BY <1>6 DEF InTurn, Producing
  <2>3. ListIs(size, Unhandled)'
    BY <1>1, <1>3, <2>1, <2>2, ListStays
  <2>4. Producing(p)' BY <2>1 DEF Producing
  <2> QED BY <1>1, <1>2, <2>3, <2>4, ProducersTurn DEF InTurn
<1> QED BY <1>1, <1>4, <1>5, <1>6

\* Whatever one producer is at, what counts as the head of the list is a node.
LEMMA HeadAlive ==
  ASSUME NodeInv, InTurn, pc[Consumer] = "idle", size > 0
  PROVE  first \in heap
<1>1. size \in Nat BY DEF NodeInv, Sizes
<1>2. ASSUME NEW n \in Nat, n > 0, NEW c \in [1..n -> heap], Chain(c, n) PROVE first \in heap
  <2>1. 1 \in 1..n BY <1>2
  <2> QED BY <1>2, <2>1 DEF Chain
<1>3. ASSUME NEW S, ListIs(size, S) PROVE first \in heap BY <1>1, <1>2, <1>3 DEF ListIs
<1>4. ASSUME NEW S, ListIs(size + 1, S) PROVE first \in heap
  <2>1. size + 1 \in Nat /\ size + 1 > 0 BY <1>1
  <2> QED BY <1>2, <1>4, <2>1 DEF ListIs
<1>5. CASE Quiet BY <1>3, <1>5 DEF InTurn
<1>6. CASE ~Quiet
  <2>1. PICK p \in Producer : pc[p] # "idle" BY <1>6 DEF Quiet, Thread
  <2>2. pc[p] \in Adding \ {"idle"} BY <2>1 DEF NodeInv, Types
  <2>3. Producing(p) BY DEF InTurn
  <2>4. CASE pc[p] \in {"malloc", "link", "first", "tail", "next"}
    BY <1>3, <2>3, <2>4 DEF Producing
  <2>5. CASE pc[p] \in {"load", "store"} BY <1>4, <2>3, <2>5 DEF Producing
  <2>6. CASE pc[p] = "last"
    <3>1. size + 1 \in Nat /\ size + 1 > 0 BY <1>1
    <3>2. PICK c \in [1..size + 1 -> heap] : Chain(c, size + 1) BY <2>3, <2>6 DEF Producing
    <3> QED BY <1>2, <3>1, <3>2
  <2> QED BY <2>2, <2>4, <2>5, <2>6 DEF Adding
<1> QED BY <1>5, <1>6

LEMMA TakeKeepsTurn ==
  ASSUME NodeInv, InTurn, Take,
         \A t, u \in Thread : t # u => pc'[t] = "idle" \/ pc'[u] = "idle"
  PROVE  InTurn'
<1>0. Types /\ Sizes /\ Messages /\ Consumer \in Thread BY DEF NodeInv, Shape, Thread
<1>1. size > 0 /\ pc[Consumer] = "idle" /\ size \in Nat BY <1>0 DEF Take, At, Sizes
<1>2. /\ UNCHANGED <<heap, message, next, first, last, size, accepted, fault>>
      /\ pc' = [pc EXCEPT ![Consumer] = "delete"] /\ handled' = Append(handled, message[first])
      /\ first \in heap
  BY <1>1, HeadAlive DEF Take, Live, Goto, queue
<1>3. pc'[Consumer] = "delete" /\ \A p \in Producer : pc'[p] = pc[p]
  BY <1>0, <1>2, ProducerIsNotConsumer DEF Types
<1>4. \A p \in Producer : pc'[p] = "idle" BY <1>3, ProducerIsNotConsumer
<1>5. Quiet BY <1>1, <1>3, <1>4 DEF Quiet, Thread
<1>6. PICK c \in [1..size -> heap] :
        Chain(c, size) /\ Content(c, size) = Unhandled /\ Ends(c, size, last)
  BY <1>5 DEF InTurn, ListIs
<1>7. Handled' = Handled \cup {message[first]}
  <2>1. handled \in Seq(Numbered) /\ message[first] \in Numbered BY <1>0, <1>2 DEF Types, Messages, Known
  <2>2. /\ DOMAIN handled = 1..Len(handled) /\ DOMAIN handled' = 1..Len(handled) + 1
        /\ \A i \in 1..Len(handled) : handled'[i] = handled[i]
        /\ handled'[Len(handled) + 1] = message[first] /\ Len(handled) \in Nat
    BY <1>2, <2>1
  <2>3. 1..Len(handled) + 1 = (1..Len(handled)) \cup {Len(handled) + 1} BY <2>2
  <2>4. ASSUME NEW f, NEW I, NEW k PROVE {f[i] : i \in I \cup {k}} = {f[i] : i \in I} \cup {f[k]}
    <3>1. \A x : x \in {f[i] : i \in I \cup {k}} <=> x \in {f[i] : i \in I} \cup {f[k]} OBVIOUS
    <3> QED BY <3>1
  <2>5. Handled' = {handled'[i] : i \in (1..Len(handled)) \cup {Len(handled) + 1}}
    BY <2>2, <2>3 DEF Handled
  <2>6. Handled' = {handled'[i] : i \in 1..Len(handled)} \cup {handled'[Len(handled) + 1]}
    BY <2>4, <2>5, Zenon
  <2>7. {handled'[i] : i \in 1..Len(handled)} = Handled BY <2>2 DEF Handled
  <2> QED BY <2>2, <2>6, <2>7, Zenon
<1>8. Unhandled' = Content(c, size) \ {message[first]}
  BY <1>2, <1>6, <1>7 DEF Unhandled
<1>9. Chain(c, size)' /\ Content(c, size)' = Content(c, size) /\ Ends(c, size, last)'
  BY <1>2, <1>6, ChainStays DEF Ends
<1>10. Consuming'
  <2>1. c \in [1..size' -> heap'] /\ message'[first'] = message[first] BY <1>2
  <2> QED BY <1>3, <1>8, <1>9, <2>1 DEF Consuming
<1> QED BY <1>2, <1>3, <1>4, <1>10, ConsumersTurn DEF InTurn

LEMMA DeleteKeepsTurn ==
  ASSUME NodeInv, InTurn, Delete
  PROVE  InTurn'
<1>0. Types /\ Sizes /\ Messages /\ Consumer \in Thread BY DEF NodeInv, Shape, Thread
<1>n. size \in Nat BY <1>0 DEF Sizes
<1>a. /\ accepted' = accepted /\ handled' = handled
      /\ \A p \in Producer : pc'[p] = pc[p]
      /\ pc[Consumer] # "idle"
  <2>1. pc' = pc \/ \E label \in Deleting : pc' = [pc EXCEPT ![Consumer] = label]
    BY DEF Delete, DeleteTest, DeleteTemp, DeleteNext, DeleteUnlink, DeleteFree, DeleteLoad,
           DeleteStore, Goto, Fault, Deleting
  <2>2. \A p \in Producer : pc'[p] = pc[p] BY <1>0, <2>1, ProducerIsNotConsumer DEF Types
  <2> QED BY <2>2 DEF Delete, DeleteTest, DeleteTemp, DeleteNext, DeleteUnlink, DeleteFree,
                      DeleteLoad, DeleteStore, Goto, At, Fault
<1>b. \A p \in Producer : pc'[p] = "idle"
  BY <1>0, <1>a, ProducerIsNotConsumer DEF InTurn, Alone
<1>c. Unhandled' = Unhandled BY <1>a DEF Unhandled, Handled
<1>d. fault = "none" BY DEF InTurn
<1>1. CASE DeleteTest \/ DeleteTemp \/ DeleteNext
  <2>1. InTaking BY <1>1 DEF InTaking, DeleteTest, DeleteTemp, DeleteNext, Goto, At
  <2>2. PICK c \in [1..size -> heap] :
          /\ Chain(c, size) /\ Ends(c, size, last)
          /\ Unhandled = Content(c, size) \ {message[first]}
    BY <2>1 DEF InTurn, Consuming
  <2>3. size > 0 BY <1>0, <2>1 DEF InTaking, Sizes
  <2>4. first \in heap /\ c[1] = first
    <3>1. 1 \in 1..size BY <1>n, <2>3
    <3> QED BY <2>2, <2>3, <3>1 DEF Chain
  <2>5. pc[Consumer] = "next" => node[Consumer] = first BY DEF InTurn, Consuming
  <2>6. /\ UNCHANGED <<heap, message, next, first, last, size, fault>>
        /\ \/ pc' = [pc EXCEPT ![Consumer] = "temp"]
           \/ pc' = [pc EXCEPT ![Consumer] = "next"] /\ node' = [node EXCEPT ![Consumer] = first]
           \/ /\ pc' = [pc EXCEPT ![Consumer] = "unlink"] /\ pc[Consumer] = "next"
              /\ ptr' = [ptr EXCEPT ![Consumer] = next[node[Consumer]]] /\ node' = node
    <3>1. CASE DeleteTest BY <1>n, <2>3, <3>1 DEF DeleteTest, Goto, queue
    <3>2. CASE DeleteTemp BY <3>2 DEF DeleteTemp, Goto, queue
    <3>3. CASE DeleteNext BY <2>4, <2>5, <3>3 DEF DeleteNext, Goto, At, Live, queue
    <3> QED BY <1>1, <3>1, <3>2, <3>3
  <2>7. /\ pc'[Consumer] \in {"temp", "next", "unlink"}
        /\ pc'[Consumer] \in {"next", "unlink"} => node'[Consumer] = first
        /\ pc'[Consumer] = "unlink" => ptr'[Consumer] = next[first]
    BY <1>0, <2>5, <2>6 DEF Types
  <2>8. Chain(c, size)' /\ Content(c, size)' = Content(c, size) /\ Ends(c, size, last)'
    BY <2>2, <2>6, ChainStays DEF Ends
  <2>9. Consuming'
    <3>1. c \in [1..size' -> heap'] /\ message'[first'] = message[first] BY <2>6
    <3> QED BY <1>c, <2>2, <2>6, <2>7, <2>8, <3>1 DEF Consuming
  <2> QED BY <1>b, <1>d, <2>6, <2>7, <2>9, ConsumersTurn
<1>2. CASE DeleteUnlink
  <2>1. /\ UNCHANGED <<heap, message, next, last, size, node, fault>>
        /\ pc[Consumer] = "unlink" /\ pc' = [pc EXCEPT ![Consumer] = "free"]
        /\ first' = ptr[Consumer]
    BY <1>2 DEF DeleteUnlink, At, Goto
  <2>2. pc'[Consumer] = "free" BY <1>0, <2>1 DEF Types
  <2>3. first' = next[first] /\ node[Consumer] = first BY <2>1 DEF InTurn, Consuming
  <2>4. PICK c \in [1..size -> heap] :
          /\ Chain(c, size) /\ Ends(c, size, last)
          /\ Unhandled = Content(c, size) \ {message[first]}
    BY <2>1 DEF InTurn, Consuming, InTaking
  <2>5. size > 0 BY <1>0, <2>1 DEF Sizes
  <2>6. \A i \in 1..size - 1 : i \in 1..size /\ i + 1 \in 1..size /\ i + 1 # 1
    BY <1>n
  <2>7. PICK d \in [1..size - 1 -> heap] : \A i \in 1..size - 1 : d[i] = c[i + 1]
    <3>1. [i \in 1..size - 1 |-> c[i + 1]] \in [1..size - 1 -> heap] BY <2>6
    <3> QED BY <3>1
  <2>8. c[1] = first /\ 1 \in 1..size /\ first \in heap
    <3>1. 1 \in 1..size BY <1>n, <2>5
    <3> QED BY <2>4, <2>5, <3>1 DEF Chain
  <2>9. \A i \in 1..size - 1 : d[i] # first
    BY <2>4, <2>6, <2>7, <2>8 DEF Chain
  <2>10. Chain(d, size - 1)'
    <3>1. \A i, j \in 1..size - 1 : d[i] = d[j] => i = j
      BY <2>4, <2>6, <2>7 DEF Chain
    <3>2. size - 1 > 0 => d[1] = first'
      <4>1. SUFFICES ASSUME size - 1 > 0 PROVE d[1] = next[first] BY <2>3
      <4>2. 1 \in 1..size - 1 /\ 1 + 1 = 2 BY <1>n, <4>1
      <4> QED BY <2>4, <2>7, <2>8, <4>2 DEF Chain
    <3>3. \A i \in 1..(size - 1) - 1 : next[d[i]] = d[i + 1]
      <4>1. SUFFICES ASSUME NEW i \in 1..(size - 1) - 1 PROVE next[d[i]] = d[i + 1] OBVIOUS
      <4>2. i \in 1..size - 1 /\ i + 1 \in 1..size - 1 BY <1>n, <4>1
      <4>3. next[c[i + 1]] = c[(i + 1) + 1] BY <2>4, <4>2 DEF Chain
      <4> QED BY <2>7, <4>2, <4>3
    <3> QED BY <2>1, <3>1, <3>2, <3>3 DEF Chain
  <2>11. Ends(d, size - 1, last)'
    <3>1. SUFFICES ASSUME size - 1 > 0 PROVE d[size - 1] = last BY <2>1 DEF Ends
    <3>2. size - 1 \in 1..size - 1 /\ (size - 1) + 1 = size BY <1>n, <3>1
    <3> QED BY <2>4, <2>5, <2>7, <3>2 DEF Ends
  <2>12. Content(d, size - 1)' = Unhandled'
    <3>1. \A i \in 1..size : i = 1 \/ (i - 1 \in 1..size - 1 /\ (i - 1) + 1 = i) BY <1>n
    <3>2. \A n \in heap : message[n] = message[first] => n = first
      BY <1>0, <2>8 DEF Messages
    <3>3. {message[d[i]] : i \in 1..size - 1} \subseteq Content(c, size) \ {message[first]}
      BY <2>6, <2>7, <2>9, <3>2 DEF Content
    <3>4. Content(c, size) \ {message[first]} \subseteq {message[d[i]] : i \in 1..size - 1}
      BY <2>7, <2>8, <3>1 DEF Content
    <3>5. Content(d, size - 1)' = {message[d[i]] : i \in 1..size - 1} BY <2>1 DEF Content
    <3> QED BY <1>c, <2>4, <3>3, <3>4, <3>5
  <2>13. Consuming'
    <3>1. d \in [1..size' - 1 -> heap'] BY <2>1
    <3>2. \A i \in 1..size' - 1 : d[i] # node'[Consumer] BY <2>1, <2>3, <2>9
    <3> QED BY <2>2, <2>10, <2>11, <2>12, <3>1, <3>2 DEF Consuming, InTaking
  <2> QED BY <1>b, <1>d, <2>1, <2>2, <2>13, ConsumersTurn
<1>3. CASE DeleteFree
  <2>1. /\ UNCHANGED <<message, next, first, last, size, fault>>
        /\ pc[Consumer] = "free" /\ pc' = [pc EXCEPT ![Consumer] = "load"]
        /\ heap' = heap \ {node[Consumer]}
    BY <1>3 DEF DeleteFree, At, Goto
  <2>2. pc'[Consumer] = "load" BY <1>0, <2>1 DEF Types
  <2>3. PICK c \in [1..size - 1 -> heap] :
          /\ Chain(c, size - 1) /\ Ends(c, size - 1, last)
          /\ Content(c, size - 1) = Unhandled
          /\ \A i \in 1..size - 1 : c[i] # node[Consumer]
    BY <2>1 DEF InTurn, Consuming
  <2>4. c \in [1..size' - 1 -> heap'] BY <2>1, <2>3
  <2>5. Chain(c, size - 1)' BY <2>1, <2>3, <2>4 DEF Chain
  <2>6. Content(c, size - 1)' = Content(c, size - 1) /\ Ends(c, size - 1, last)'
    BY <2>1, <2>3 DEF Content, Ends
  <2>7. ListIs(size - 1, Unhandled)' BY <1>c, <2>3, <2>4, <2>5, <2>6 DEF ListIs
  <2>8. Consuming' BY <2>2, <2>7 DEF Consuming, InTaking
  <2> QED BY <1>b, <1>d, <2>1, <2>2, <2>8, ConsumersTurn
<1>4. CASE DeleteLoad \/ DeleteStore
  <2>1. /\ UNCHANGED <<heap, message, next, first, last, fault>>
        /\ \/ /\ pc[Consumer] = "load" /\ pc' = [pc EXCEPT ![Consumer] = "store"]
              /\ count' = [count EXCEPT ![Consumer] = size] /\ size' = size
           \/ /\ pc[Consumer] = "store" /\ pc' = [pc EXCEPT ![Consumer] = "idle"]
              /\ size' = count[Consumer] - 1
    BY <1>4 DEF DeleteLoad, DeleteStore, At, Goto, queue
  <2>2. ListIs(size - 1, Unhandled) /\ (pc[Consumer] = "store" => count[Consumer] = size)
    BY <2>1 DEF InTurn, Consuming
  <2>3. ListIs(size - 1, Unhandled') BY <1>c, <2>2
  <2>4. CASE pc[Consumer] = "load"
    <3>1. pc'[Consumer] = "store" /\ count'[Consumer] = size /\ size' = size
      BY <1>0, <2>1, <2>4 DEF Types, Sizes
    <3>2. ListIs(size - 1, Unhandled)' BY <2>1, <2>3, <3>1, ListStays
    <3>3. Consuming' BY <3>1, <3>2 DEF Consuming, InTaking
    <3> QED BY <1>b, <1>d, <2>1, <3>1, <3>3, ConsumersTurn
  <2>5. CASE pc[Consumer] = "store"
    <3>1. pc'[Consumer] = "idle" /\ size' = size - 1
      BY <1>0, <2>1, <2>2, <2>5 DEF Types
    <3>2. ListIs(size, Unhandled)' BY <2>1, <2>3, <3>1, ListStays
    <3>3. Consuming' BY <3>1 DEF Consuming, InTaking
    <3> QED BY <1>b, <1>d, <2>1, <3>1, <3>2, <3>3, ConsumersTurn
  <2> QED BY <2>1, <2>4, <2>5
<1> QED BY <1>1, <1>2, <1>3, <1>4 DEF Delete

LEMMA StepKeepsList ==
  ASSUME NodeInv, ListInv, [RaceNext]_raceVars
  PROVE  ListInv'
<1>1. Counted' BY StepKeepsCounted DEF ListInv
<1>2. SUFFICES ASSUME ~overlap' PROVE InTurn' BY <1>1 DEF ListInv
<1>3. CASE UNCHANGED raceVars
  <2>1. InTurn BY <1>2, <1>3 DEF raceVars, ListInv
  <2>2. UNCHANGED <<heap, message, next, first, last, size, pc, node, ptr, count, added,
                    accepted, handled, fault>>
    BY <1>3 DEF raceVars
  <2>3. Unhandled' = Unhandled /\ \A p : Current(p)' = Current(p)
    BY <2>2 DEF Unhandled, Handled, Current
  <2>4. \A p \in Producer : Producing(p)'
    BY <2>1, <2>2, <2>3 DEF InTurn, Producing, ListIs, Chain, Content, Ends
  <2>5. Consuming'
    BY <2>1, <2>2, <2>3 DEF InTurn, Consuming, InTaking, ListIs, Chain, Content, Ends
  <2>6. Quiet' => ListIs(size, Unhandled)'
    BY <2>1, <2>2, <2>3 DEF InTurn, Quiet, ListIs, Chain, Content, Ends
  <2> QED BY <2>1, <2>2, <2>4, <2>5, <2>6 DEF InTurn, Alone
<1>4. CASE RaceNext
  <2>1. /\ ~overlap
        /\ \A t, u \in Thread : t # u => pc'[t] = "idle" \/ pc'[u] = "idle"
    BY <1>2, <1>4, NoOverlap
  <2>2. InTurn /\ Counted BY <2>1 DEF ListInv
  <2>3. CASE Take BY <2>1, <2>2, <2>3, TakeKeepsTurn
  <2>4. CASE Delete BY <2>2, <2>4, DeleteKeepsTurn
  <2>5. ASSUME NEW p \in Producer, Add(p) PROVE InTurn'
    <3>1. CASE AddTest(p) /\ pc' = pc
      <4>1. pc[p] # "malloc" /\ Types
            /\ \/ pc[p] = "idle" /\ added' = [added EXCEPT ![p] = @ + 1] /\ accepted' = accepted
               \/ pc[p] = "idle" /\ pc' = [pc EXCEPT ![p] = "malloc"]
        BY <3>1 DEF AddTest, At, Goto, NodeInv
      <4>2. [pc EXCEPT ![p] = "malloc"] # pc BY <4>1, ProducerIsNotConsumer DEF Types
      <4>3. UNCHANGED <<queue, pc, node, ptr, count, handled, fault>> BY <3>1 DEF AddTest
      <4> QED BY <2>2, <3>1, <4>1, <4>2, <4>3, DropKeepsTurn
    <3>2. CASE AddTest(p) /\ pc' # pc BY <2>1, <2>2, <3>2, BeginKeepsTurn
    <3> QED BY <2>2, <2>5, <3>1, <3>2, MallocKeepsTurn, BranchKeepsTurn, LinkKeepsTurn,
               EndKeepsTurn DEF Add
  <2> QED BY <1>4, <2>3, <2>4, <2>5 DEF RaceNext
<1> QED BY <1>3, <1>4

LEMMA StartKeepsList == RaceInit => ListInv
<1> SUFFICES ASSUME RaceInit PROVE ListInv OBVIOUS
<1>1. \A t \in Thread : pc[t] = "idle" BY DEF RaceInit
<1>2. Unhandled = {} /\ Counted BY DEF RaceInit, Unhandled, Counted
<1>3. ListIs(size, Unhandled)
  <2>1. size = 0 /\ \A i \in 1..0 : FALSE BY DEF RaceInit
  <2>2. PICK c \in [1..0 -> heap] : TRUE
    <3>1. [i \in 1..0 |-> NULL] \in [1..0 -> heap] BY <2>1
    <3> QED BY <3>1
  <2>3. Chain(c, 0) /\ Content(c, 0) = {} /\ Ends(c, 0, last)
    BY <2>1 DEF Chain, Content, Ends
  <2> QED BY <1>2, <2>1, <2>2, <2>3 DEF ListIs
<1>4. \A p \in Producer : Producing(p) BY <1>1 DEF Producing, Thread
<1>5. Consuming BY <1>1 DEF Consuming, InTaking, Thread
<1> QED BY <1>1, <1>2, <1>3, <1>4, <1>5 DEF ListInv, InTurn, RaceInit, Alone

\* A list of n nodes counts n messages.
LEMMA ListHolds ==
  ASSUME NodeInv, NEW S, ListIs(size, S)
  PROVE  Holds(S)
<1>1. PICK c \in [1..size -> heap] :
        Chain(c, size) /\ Content(c, size) = S /\ Ends(c, size, last)
  BY DEF ListIs
<1>2. size \in Nat /\ \A n, m \in heap : message[n] = message[m] => n = m
  BY DEF NodeInv, Shape, Sizes, Messages
<1>3. [i \in 1..size |-> message[c[i]]] \in Bijection(1..size, S)
  BY <1>1, <1>2 DEF Chain, Content, Bijection, Injection, Surjection, IsInjective
<1>4. Cardinality(S) = size BY <1>2, <1>3, FS_CountingElements DEF ExistsBijection
<1> QED BY <1>1, <1>4 DEF Holds, Chain, Content, Ends

\* As long as no two calls have been in the queue at the same time, NULL or a freed node
\* is never followed, and between calls the list holds, and counts, exactly the accepted
\* messages the consumer has not taken yet (queue.c:34-71).
THEOREM RaceLossNeedsOverlap == RaceSpec => []LossNeedsOverlap
<1>1. RaceInit => NodeInv /\ ListInv BY StartKeepsNodes, StartKeepsList
<1>2. NodeInv /\ ListInv /\ [RaceNext]_raceVars => NodeInv' /\ ListInv'
  BY StepKeepsNodes, StepKeepsList
<1>3. NodeInv /\ ListInv => LossNeedsOverlap
  BY ListHolds DEF ListInv, InTurn, LossNeedsOverlap, Unhandled, Handled
<1> QED BY <1>1, <1>2, <1>3, PTL DEF RaceSpec
=============================================================================
