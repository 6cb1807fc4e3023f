----------------------------- MODULE MCReceiver -----------------------------
(* The kinds of messages the runs let arrive.                              *)
EXTENDS Receiver

K(c, e, b) == [class |-> c, encrypted |-> e, body |-> b]

\* Every way through the code, once per class that differs.
MCKinds ==
  {K("auth", FALSE, "json"), K("auth", FALSE, "none"), K("activefirmware", TRUE, "json"),
   K("uploaduri", TRUE, "notstring"),
   K("passivefirmware", FALSE, "text"), K("passivefirmware", TRUE, "broken"),
   K("attr", TRUE, "none"), K("notirequest", TRUE, "text"),
   K("notirequest", FALSE, "none"), K("notirequest", FALSE, "empty"),
   K("short", FALSE, "none"), K("unreadable", FALSE, "none")}
=============================================================================
