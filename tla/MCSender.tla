------------------------------ MODULE MCSender ------------------------------
(* Four messages through a queue of two: it fills up, messages are         *)
(* rejected, and the failures of one message are carried over to the next. *)
EXTENDS Sender

CONSTANTS m1, m2, m3, m4

MCMessage == {m1, m2, m3, m4}
=============================================================================
