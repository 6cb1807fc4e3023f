---------------------------- MODULE MessagePath ----------------------------
(***************************************************************************)
(* What happens to a message from the call that asks for it to the         *)
(* listener of a client with the same settings: the request and its        *)
(* message, the tries of thread_sender to send it (each converts it        *)
(* again), the conversion at arrival and the decryption in thread_receiver. *)
(***************************************************************************)
EXTENDS Integers, AesEnvelope, Builders

CONSTANTS Text,       \* the data of a message, not empty
          IV,         \* the initialization vectors, 16 characters of base64
          Things,     \* thing names an application may pass, NULL and empty included
          MsgCodes,   \* message codes it may pass
          MsgId,      \* the msgId of a message that is answered
          Tokens,     \* authToken: of the manager, empty before authorization
          NOW,        \* msgDate
          MinSizes    \* minCompressionSize: 0, as createIotClient leaves it, is never

\* A text of the header: any C string, for the code checks none of them, that its field of
\* OCPMessage holds, for the lengths of the fields are left out.
HeaderText == Seq(1 .. 255)
CleanText == Seq((1 .. 127) \ {BAR})      \* what the library itself writes in a header

ASSUME MessagePathAssumption ==
  /\ \A t \in Text : t \in Seq(1 .. 255) /\ t # <<>>
  /\ \A iv \in IV : iv \in [1 .. IV_LEN -> 1 .. 255]
  /\ MinSizes \subseteq Nat /\ NOW \in Nat
  /\ {OWN, MsgId} \union Tokens \subseteq HeaderText
  /\ Things \union MsgCodes \subseteq HeaderText \union {NULL}
  /\ UUID \in CleanText /\ \A c \in CodeNames : Code(c) \in CleanText

Tries == 4    \* of thread_sender, before it gives up

VARIABLES conf,      \* the settings both ends share
          asked,     \* history: what the caller asked for, and whether it was encrypted
          message,   \* the OCPMessage
          pc, tries,
          wire,      \* the payload that was sent
          got        \* the message at the other end

vars == <<conf, asked, message, pc, tries, wire, got>>

Init ==
  /\ conf \in [format : {"J", "D"}, bAES128Used : BOOLEAN, minCompressionSize : MinSizes]
  /\ pc = "call" /\ tries = 0
  /\ asked = <<>> /\ message = <<>> /\ wire = <<>> /\ got = <<>>

\* ocpGenerateMessage: no string is an empty one.
OrEmpty(text) == IF text = NULL THEN <<>> ELSE text
made(header, token) ==
  [msgType |-> header.msgType, thingName |-> OWN, tId |-> OrEmpty(header.tId),
   msgCode |-> OrEmpty(header.msgCode), msgId |-> OrEmpty(header.msgId), msgDate |-> NOW,
   encType |-> header.encType, authToken |-> token, datalen |-> Len(header.data),
   data |-> header.data]

\* The message of a builder, if there is one; encrypted says whether its data are.
Make(built, thing, msgCode, msgId, text, encrypted) ==
  /\ asked' = [thing |-> thing, msgCode |-> msgCode, msgId |-> msgId, text |-> text,
               encrypted |-> encrypted]
  /\ IF built = {} THEN pc' = "refused" /\ UNCHANGED message
                   ELSE \E header \in built, token \in Tokens :
                          pc' = "send" /\ message' = made(header, token)
  /\ UNCHANGED <<conf, tries, wire, got>>

\* The data as they are sent, for every vector encryption may choose.
Sealed(text) ==
  IF conf.bAES128Used THEN {encrypt_to_string(conf.format, text, iv) : iv \in IV} ELSE {text}
Label == IF conf.bAES128Used THEN AES128 ELSE PLAIN

Calls(text) ==
  LET given == text # <<>> IN
  {sendAttributes(c, text) : c \in MsgCodes}
    \union {sendAttributesInDelimiter(c, text) : c \in MsgCodes}
    \union {sendAttributesForLeaf(t, c, text) : t \in Things, c \in MsgCodes}
    \union {sendAttributesForLeafInDelimiter(t, c, text) : t \in Things, c \in MsgCodes}
    \union (UNION {{registerLeafThing(t, given), activateThingForLeaf(t, given),
                   requestFirmwareUpgradeComplete(t, given)} : t \in Things})
    \union {activateThing(given), requestFirmwareLatestVersion(given),
            requestFirmwareSignData(given), requestFileUploadComplete(given)}
    \union (IF given THEN {requestWbcMc} ELSE {})

\* A call that ends in makeMessage; without its arguments there is no text.
Ask ==
  /\ pc = "call"
  /\ \E text \in Text \union {<<>>} : \E call \in Calls(text) :
       IF call.invalid
       THEN pc' = "invalid" /\ UNCHANGED <<conf, asked, message, tries, wire, got>>
       ELSE \E data \in Sealed(text) :
              Make(makeMessage(call.type, Label, data, call.thing, call.msgCode),
                   call.thing, call.msgCode, NULL, text, conf.bAES128Used)

requestFileUploadUri ==
  /\ pc = "call"
  /\ Make(fileuploaduri_request_message(Label, OWN), OWN, NULL, NULL, <<>>, FALSE)

\* What is never encrypted: authorization, with or without a code, the heartbeat, and
\* what an application may ask of a manager itself.
Plain ==
  /\ pc = "call"
  /\ \/ \E text \in Text \union {<<>>} :
            Make(authorize_message(PLAIN, text), OWN, NULL, NULL, text, FALSE)
     \/ Make(heartbeat_message, NULL, NULL, NULL, DUMMY, FALSE)
     \/ Make(preauthorize_message, NULL, NULL, NULL, DUMMY, FALSE)
     \/ \E t \in Things : Make(inactivate_thing_message(t), t, NULL, NULL, DUMMY, FALSE)
     \/ \E text \in Text : Make(bulk_insert_message(PLAIN, text), OWN, NULL, NULL, text, FALSE)

\* thread_receiver answers a message in its own encType, but for the label of the answer
\* to an attribute or provisioning request, which is AES128 in any case.
AnswerRequest ==
  /\ pc = "call"
  /\ \E encrypted \in {FALSE, conf.bAES128Used}, text \in Text :
       LET data(t) == IF encrypted THEN Sealed(t) ELSE {t}
           label == IF encrypted THEN AES128 ELSE PLAIN
       IN  \/ \E d \in data(text) :
                Make(response_passivefirmware_message(label, d, MsgId, OWN),
                     OWN, NULL, MsgId, text, encrypted)
           \/ \E d \in data(text) :
                Make(response_notirequest_message(label, d, MsgId),
                     NULL, NULL, MsgId, text, encrypted)
           \/ \E d \in data(DUMMY), code \in {Code("Basic-AttrGroup"), Code("Basic-Provisioning")} :
                Make(answer_message(AES128, d, MsgId, code), OWN, code, MsgId, DUMMY, encrypted)

\* The message a try leaves, and the payload it gives to the MQTT library.
Prepared ==
  IF conf.format = "D" THEN Converted(message, conf.minCompressionSize) ELSE message
Payload == IF conf.format = "D" THEN delimiterPayload(Prepared) ELSE jsonPayload(Prepared)

SendFails ==
  /\ pc = "send"
  /\ message' = Prepared
  /\ tries' = tries + 1
  /\ pc' = IF tries' = Tries THEN "dropped" ELSE "send"
  /\ UNCHANGED <<conf, asked, wire, got>>

SendOk ==
  /\ pc = "send"
  /\ message' = Prepared
  /\ wire' = Payload
  /\ tries' = tries + 1
  /\ pc' = "sent"
  /\ UNCHANGED <<conf, asked, got>>

HoldsBar(text) == \E i \in DOMAIN text : text[i] = BAR
HeaderFields == {"msgType", "thingName", "tId", "msgCode", "msgId", "encType", "authToken"}

\* A delimiter in the header ends its field early, and the reader takes what follows for
\* other fields, datalen among them: what it makes of them is not followed.
Shifted == conf.format = "D" /\ \E field \in HeaderFields : HoldsBar(message[field])

Garble ==
  /\ pc = "sent" /\ Shifted
  /\ pc' = "garbled"
  /\ UNCHANGED <<conf, asked, message, tries, wire, got>>

onMessageArrive ==
  /\ pc = "sent" /\ ~Shifted
  /\ got' = IF conf.format = "D" THEN delimiterMessage(wire) ELSE jsonMessage(wire)
  /\ pc' = "received"
  /\ UNCHANGED <<conf, asked, message, tries, wire>>

\* thread_receiver replaces the data, not datalen; a message it cannot decrypt goes.
Decrypt ==
  /\ pc = "received"
  /\ IF conf.bAES128Used /\ got.data # <<>> /\ got.encType = AES128
     THEN LET plain == decrypt(conf.format, got.data)
          IN  IF plain = <<>>
              THEN pc' = "broken" /\ UNCHANGED got
              ELSE pc' = "delivered" /\ got' = [got EXCEPT !.data = plain]
     ELSE pc' = "delivered" /\ UNCHANGED got
  /\ UNCHANGED <<conf, asked, message, tries, wire>>

Next ==
  \/ Ask \/ requestFileUploadUri \/ Plain \/ AnswerRequest
  \/ SendFails \/ SendOk \/ Garble \/ onMessageArrive \/ Decrypt

Spec == Init /\ [][Next]_vars
-----------------------------------------------------------------------------
Fields == {"msgType", "thingName", "tId", "msgCode", "msgId", "msgDate", "encType",
           "authToken", "datalen", "data"}

\* Type invariant: the message has datalen bytes of data, and encType, to which each
\* compression adds a character, stays within its eight (OCPMESSAGE_LEN_ENCTYPE) with
\* the zero that ends it.
TypeOK ==
  /\ conf \in [format : {"J", "D"}, bAES128Used : BOOLEAN, minCompressionSize : MinSizes]
  /\ tries \in 0 .. Tries
  /\ pc \in {"call", "send", "sent", "received",
             "invalid", "refused", "dropped", "garbled", "delivered", "broken"}
  /\ pc \notin {"call", "invalid", "refused"} =>
       /\ DOMAIN message = Fields
       /\ message.datalen = Len(message.data)
       /\ Len(message.encType) < 8

\* The message with its compressions undone, all of them: no try adds more than one.
Peel(m) == IF IsCompressed(m) THEN decompressed(m) ELSE m
Peeled(m) == Peel(Peel(Peel(Peel(m))))

\* A text of the header at the other end: the JSON format drops one that is not UTF-8.
Carried(text) == IF conf.format = "J" /\ text \in NotUtf8 THEN <<>> ELSE text

\* What arrived is what was asked for.  It names the thing and the code the caller gave,
\* else this client's thing or none, and it is an answer, to the message that was
\* answered, if and only if it answers one.  The data, decrypted, is the text that was to
\* be sent, after as many decompressions as encType still announces: none if the first
\* try to send succeeded, for the reading converter undoes one compression, and at most
\* one for each further try.  datalen is the length of the data, except that it remains
\* what it was before thread_receiver decrypted them.  Two exceptions: what is labelled
\* plain is read as no data in the JSON format, and an answer labelled encrypted that is
\* not is taken for a broken message where encryption is on.  And two kinds of text do not
\* get through in the header: one that is not UTF-8 arrives empty in the JSON format, and
\* one with a delimiter makes a message in that format unreadable, which nothing else does.
ReadsBack ==
  /\ pc = "garbled" =>
       /\ conf.format = "D"
       /\ \E text \in {OWN, asked.thing, asked.msgCode, asked.msgId, message.authToken} :
            HoldsBar(text)
  /\ pc \in {"delivered", "broken"} =>
       LET m == Peeled(got)
           label == Peeled(message).encType
           decrypted == asked.encrypted /\ got.encType = AES128
           read == IF asked.encrypted /\ ~decrypted THEN decrypt(conf.format, m.data) ELSE m.data
       IN  /\ m.msgDate = message.msgDate /\ m.encType = label
           /\ m.thingName = Carried(OWN) /\ m.authToken = Carried(message.authToken)
           /\ m.tId \in IF asked.thing = NULL THEN {Carried(OWN), <<>>} ELSE {Carried(asked.thing)}
           /\ asked.msgCode # NULL => m.msgCode = Carried(asked.msgCode)
           /\ m.msgType = IF asked.msgId = NULL THEN REQUEST ELSE ANSWER
           /\ m.msgId = IF asked.msgId = NULL THEN UUID ELSE Carried(asked.msgId)
           /\ Len(got.encType) <= tries
           /\ pc = "broken" =>
                /\ conf.bAES128Used /\ ~asked.encrypted /\ got.encType = AES128
                /\ m.msgType = ANSWER
           /\ pc = "delivered" =>
                /\ read = IF conf.format = "J" /\ label = PLAIN THEN <<>> ELSE asked.text
                /\ IF decrypted THEN got.datalen > Len(got.data) ELSE got.datalen = Len(got.data)
=============================================================================
