---------------------------- MODULE MCMessagePath ----------------------------
(* Texts around a group of base64 and a block of AES, with delimiters in them. *)
EXTENDS MessagePath

MCText ==
  {<<200>>, <<97, 124>>, [i \in 1 .. 15 |-> 97], [i \in 1 .. 16 |-> 124],
   [i \in 1 .. 17 |-> 97 + (i % 3)]}

\* With the key 37 the texts that start with 'a' become a zero and delimiters.
MCIV == {[i \in 1 .. 16 |-> IF i = 1 THEN 122 ELSE 73], [i \in 1 .. 16 |-> 65 + i]}

\* A letter for each message code, after that of the authorization if it is one of its.
MCNames ==
  <<"MSGAUTH", "MSGAUTH00000", "MSGAUTH00002", "MSGBA0030001", "MSGBA0030002", "MSGBA0110001",
    "MSGBA0110003", "MSGBA0110017", "MSGBA0120001", "MSGBA0210011", "MSGBA0300002",
    "MSGBA0410001", "MSGBA0410017", "MSGBA0420001", "MSGBA0420004", "MSGBA0420005",
    "MSGBA0420007", "Basic-AttrGroup", "Basic-Provisioning">>
MCAuth == <<65>>
MCCode(name) ==
  LET letter == <<65 + CHOOSE i \in DOMAIN MCNames : MCNames[i] = name>>
  IN  IF name = "MSGAUTH" THEN MCAuth
      ELSE IF name \in {"MSGAUTH00000", "MSGAUTH00002"} THEN MCAuth \o letter ELSE letter

MCOwn == <<116>>
MCLeaf == <<108, 102>>
MCUuid == <<117>>
MCMsgId == <<105, 100>>
MCThings == {NULL, <<>>, MCLeaf, <<108, 124>>, <<108, 200>>}
MCMsgCodes == {NULL, MCAuth \o <<57>>, <<99, 49>>}
MCTokens == {<<>>, <<84, 107>>, <<84, 124>>}
MCNotUtf8 == {<<200>>, <<108, 200>>}
MCMinSizes == {0, 1, 16, 40}
=============================================================================
