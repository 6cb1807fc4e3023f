---------------------------- MODULE MCLifecycle ----------------------------
(* Two clients, one after the other.  Of the six threads three are followed: *)
(* two of the first client, which may outlive it, and one of the second that *)
(* empties a queue those add to.  The threads write nothing but the contents *)
(* of the queues, so that the others would not change what these meet.       *)
EXTENDS Lifecycle

MCWatched == {<<"receiver", 1>>, <<"keep_alive", 1>>, <<"sender", 2>>}
MCKeepAlive == {<<"keep_alive", 1>>, <<"keep_alive", 2>>}
=============================================================================
