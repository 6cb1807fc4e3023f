----------------------------- MODULE Converters -----------------------------
(***************************************************************************)
(* The two converters between a message and its payload,                   *)
(* src/sdk/message/OCPMessageConverterDelimeter.c and ...Json.c, and the   *)
(* compressor the first one uses.                                          *)
(*                                                                         *)
(* Text is a sequence of bytes.  The text fields of the header that nothing *)
(* looks at are handled alike, and thingName stands for them all.          *)
(* No data is <<>>: data that is not NULL is never empty here.             *)
(* zstd is external: Pack puts its magic number in front, and shortens what *)
(* is one byte repeated.                                                   *)
(***************************************************************************)
EXTENDS Naturals, Sequences, FiniteSetsExt

CONSTANTS Code(_),      \* the text of the message code of that name in OCPMessage.h
          NotUtf8       \* the texts that are not UTF-8

ASSUME ConvertersAssumption == \A text \in NotUtf8 : \E i \in DOMAIN text : text[i] > 127

\* The message codes that are looked at or set here.
CodeNames ==
  {"MSGAUTH", "MSGAUTH00000", "MSGAUTH00002", "MSGBA0030001", "MSGBA0030002", "MSGBA0110001",
   "MSGBA0110003", "MSGBA0110017", "MSGBA0120001", "MSGBA0210011", "MSGBA0300002",
   "MSGBA0410001", "MSGBA0410017", "MSGBA0420001", "MSGBA0420004", "MSGBA0420005",
   "MSGBA0420007", "Basic-AttrGroup", "Basic-Provisioning"}

BAR == 124      \* '|'
Z == 90         \* 'Z'
PLAIN == <<48>>   \* OCPENCTYPE_PLAIN, "0"
AES128 == <<51>>  \* OCPENCTYPE_AES128, "3"
MAGIC == <<40, 181, 47, 253>>

Pack(data) ==
  IF \A i \in DOMAIN data : data[i] = data[1]
  THEN MAGIC \o <<0, Len(data), data[1]>>
  ELSE MAGIC \o <<1>> \o data

Packed(data) == Len(data) > 6 /\ SubSeq(data, 1, 4) = MAGIC
Unpack(data) ==
  IF data[5] = 0 THEN [i \in 1 .. data[6] |-> data[7]] ELSE SubSeq(data, 6, Len(data))
-----------------------------------------------------------------------------
startsWith(prefix, text) ==
  Len(text) >= Len(prefix) /\ SubSeq(text, 1, Len(prefix)) = prefix

\* No code, any that starts with that of the authorization, and the heartbeat.
skipMessage(msgCode) ==
  \/ msgCode = <<>> \/ startsWith(Code("MSGAUTH"), msgCode)
  \/ msgCode \in {Code("MSGBA0030001"), Code("MSGBA0030002")}

\* OCPMessageCompressor_needCompress, where it returns 0.
needCompress(message, minCompressionSize) ==
  /\ minCompressionSize > 0 /\ message.datalen > 0
  /\ ~skipMessage(message.msgCode)
  /\ message.datalen >= minCompressionSize

\* Mutant of compressed: datalen is not updated.
compressed_keeps_length(message) ==
  [message EXCEPT !.encType = <<Z>> \o @, !.data = Pack(@)]

\* The message after convert_encType and compress: both change it in place.
compressed(message) ==
  [message EXCEPT !.encType = <<Z>> \o @, !.data = Pack(@), !.datalen = Len(Pack(message.data))]

\* convert_encType and decompress; data that is not zstd's stays as it is.
decompressed(message) ==
  LET plain == IF Packed(message.data) THEN Unpack(message.data) ELSE message.data
  IN  [message EXCEPT !.encType = Tail(@), !.data = plain, !.datalen = Len(plain)]
-----------------------------------------------------------------------------
\* sprintf("%llu") and atoi_custom.
Digits[n \in Nat] == IF n < 10 THEN <<48 + n>> ELSE Append(Digits[n \div 10], 48 + (n % 10))
Number(text) ==
  LET total[k \in 0 .. Len(text)] == IF k = 0 THEN 0 ELSE total[k - 1] * 10 + text[k] - 48
  IN  total[Len(text)]

\* What messageToPayload leaves of the message, and the payload it returns.
Converted(message, minCompressionSize) ==
  IF needCompress(message, minCompressionSize) THEN compressed(message) ELSE message

\* A field of the header, the delimiter that ends it, and what follows.
Field(text, rest) == text \o <<BAR>> \o rest

delimiterPayload(message) ==
  Field(message.msgType, Field(message.thingName, Field(message.tId,
  Field(message.msgCode, Field(message.msgId, Field(Digits[message.msgDate],
  Field(message.encType, Field(message.authToken, Field(Digits[message.datalen],
  message.data)))))))))

\* strsep_custom: the text before the first delimiter, and what is left of it.
strsep[text \in Seq(Nat)] ==
  LET bars == {i \in DOMAIN text : text[i] = BAR}
  IN  IF bars = {} THEN [token |-> text, rest |-> <<>>]
      ELSE [token |-> SubSeq(text, 1, Min(bars) - 1),
            rest |-> SubSeq(text, Min(bars) + 1, Len(text))]

\* Mutant of delimiterBody: the body ends at the next delimiter.
delimiterBody_to_next_bar(rest, datalen) == strsep[rest].token

\* What follows the header, as long as datalen says: any bytes, bars included.
delimiterBody(rest, datalen) == SubSeq(rest, 1, datalen)

\* The message as its fields say, before decompression.
delimiterFields(payload) ==
  LET s1 == strsep[payload]
      s2 == strsep[s1.rest]
      s3 == strsep[s2.rest]
      s4 == strsep[s3.rest]
      s5 == strsep[s4.rest]
      s6 == strsep[s5.rest]
      s7 == strsep[s6.rest]
      s8 == strsep[s7.rest]
      s9 == strsep[s8.rest]
  IN  [msgType |-> s1.token, thingName |-> s2.token, tId |-> s3.token, msgCode |-> s4.token,
       msgId |-> s5.token, msgDate |-> Number(s6.token), encType |-> s7.token,
       authToken |-> s8.token, datalen |-> Number(s9.token),
       data |-> delimiterBody(s9.rest, Number(s9.token))]

IsCompressed(message) == message.encType # <<>> /\ message.encType[1] = Z

\* Only payloads that messageToPayload has written are read here.
delimiterMessage(payload) ==
  LET message == delimiterFields(payload)
  IN  IF IsCompressed(message) THEN decompressed(message) ELSE message
-----------------------------------------------------------------------------
\* The JSON object has no datalen, nor a text that json_string refuses: the body is a
\* string, plain text or base64.
jsonPayload(message) ==
  [field \in {f \in DOMAIN message \ {"datalen"} : f = "msgDate" \/ message[f] \notin NotUtf8}
     |-> message[field]]

\* A field that is not there is an empty text.  A plain body is expected to be an object,
\* and json_dumps returns NULL for the string that jsonPayload has made of it; a body of
\* another encType is a string.
jsonMessage(payload) ==
  LET text(field) == IF field \in DOMAIN payload THEN payload[field] ELSE <<>>
      data == IF text("encType") = PLAIN THEN <<>> ELSE text("data")
  IN  [msgType |-> text("msgType"), thingName |-> text("thingName"), tId |-> text("tId"),
       msgCode |-> text("msgCode"), msgId |-> text("msgId"), msgDate |-> payload.msgDate,
       encType |-> text("encType"), authToken |-> text("authToken"), datalen |-> Len(data),
       data |-> data]
=============================================================================
