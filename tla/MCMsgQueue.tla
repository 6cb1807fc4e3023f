---------------------------- MODULE MCMsgQueue ----------------------------
(* MsgQueue on a heap of four addresses and two messages, with room for    *)
(* three: the queue fills up, runs empty and reuses freed addresses.       *)
EXTENDS MsgQueue, TLC

CONSTANTS n1, n2, n3, n4, m1, m2

MCNode == {n1, n2, n3, n4}
MCMsg == {m1, m2}
MCSymmetry == Permutations(MCNode)
=============================================================================
