----------------------------- MODULE MCSyncCall -----------------------------
(* Two application threads, the receiver and its listener, and the connect.*)
EXTENDS SyncCall

CONSTANTS c1, c2

MCCallers == {c1, c2}
=============================================================================
