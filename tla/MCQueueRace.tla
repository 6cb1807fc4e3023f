---------------------------- MODULE MCQueueRace ----------------------------
(* Two producers (or one) and the consumer on a heap of three addresses,   *)
(* one more than the queue has room for.                                   *)
EXTENDS QueueRace, TLC

CONSTANTS p1, p2, n1, n2, n3

MCProducer == {p1, p2}
MCMsg == MCProducer \X (1..5)
MCNode == {n1, n2, n3}
MCSymmetry == Permutations(MCNode)

\* Two messages of each thread, or five of one of them.
MCQuotas == {p1 :> 2 @@ p2 :> 2, p1 :> 5 @@ p2 :> 0}
=============================================================================
