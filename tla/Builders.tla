------------------------------ MODULE Builders ------------------------------
(***************************************************************************)
(* The message builders of src/sdk/manager/OCPThingManager.c and the       *)
(* functions of src/sdk/iotclient/IotClient.c by which the application     *)
(* asks for a message.  What they have in common is left to MessagePath.   *)
(***************************************************************************)
EXTENDS Converters

CONSTANTS OWN,    \* thingName: of the manager and of connInfo
          UUID    \* what OCPUtils_generateUUID returns for this message

NULL == <<0>>     \* no string: a C string holds no zero
REQUEST == <<81>>
ANSWER == <<65>>
DUMMY == <<123, 125>>   \* the body of a message that has none of its own

\* What a builder hands to ocpGenerateMessage, as a set: empty if it returns NULL.
Built(msgType, msgCode, tId, msgId, encType, data) ==
  {[msgType |-> msgType, msgCode |-> msgCode, tId |-> tId, msgId |-> msgId,
    encType |-> encType, data |-> data]}
Request(msgCode, tId, encType, data) == Built(REQUEST, msgCode, tId, UUID, encType, data)
Needs(arguments, data, built) == IF NULL \in arguments \/ data = <<>> THEN {} ELSE built

preauthorize_message == Request(Code("MSGAUTH00000"), <<>>, PLAIN, DUMMY)
authorize_message(encType, data) == Request(Code("MSGAUTH00002"), OWN, encType, data)
heartbeat_message == Request(Code("MSGBA0030001"), <<>>, PLAIN, DUMMY)
activate_rootthing_message(encType, data) ==
  Needs({}, data, Request(Code("MSGBA0110001"), OWN, encType, data))
register_edgething_message(encType, data, edgeThingName) ==
  Needs({}, data, Request(Code("MSGBA0110003"), edgeThingName, encType, data))
inactivate_thing_message(thingName) ==
  Needs({thingName}, DUMMY, Request(Code("MSGBA0120001"), thingName, PLAIN, DUMMY))
register_data_message(encType, data, thingName, msgCode) ==
  Needs({thingName, msgCode}, data, Request(msgCode, thingName, encType, data))
bulk_insert_message(encType, data) ==
  Needs({}, data, Request(Code("MSGBA0210011"), OWN, encType, data))
request_activefirmware_message(encType, data, thingName) ==
  Needs({thingName}, data, Request(Code("MSGBA0420001"), thingName, encType, data))
response_passivefirmware_message(encType, data, msgId, thingName) ==
  Needs({thingName, msgId}, data,
        Built(ANSWER, Code("MSGBA0420004"), thingName, msgId, encType, data))
signedfirmware_message(encType, data) ==
  Needs({}, data, Request(Code("MSGBA0420007"), OWN, encType, data))
firmware_upgraderesult_message(encType, data, thingName) ==
  Needs({thingName}, data, Request(Code("MSGBA0420005"), thingName, encType, data))
response_notirequest_message(encType, data, msgId) ==
  Needs({msgId}, data, Built(ANSWER, Code("MSGBA0300002"), <<>>, msgId, encType, data))
answer_message(encType, data, msgId, msgCode) ==
  Needs({msgId}, data, Built(ANSWER, msgCode, OWN, msgId, encType, data))
fileuploaduri_request_message(encType, thingName) ==
  Needs({thingName}, DUMMY, Request(Code("MSGBA0410001"), thingName, encType, <<>>))
fileupload_result_message(encType, data, thingName) ==
  Needs({thingName}, data, Request(Code("MSGBA0410017"), thingName, encType, data))
wbc_mc(encType, data, thingName) ==
  Needs({thingName}, data, Request(Code("MSGBA0110017"), thingName, encType, data))

\* The switch of makeMessage; 9 differs from 1 in the name of the data's format only.
makeMessage(type, encType, data, thingName, msgCode) ==
  IF type \in {1, 9} THEN register_data_message(encType, data, thingName, msgCode)
  ELSE IF type = 2 THEN activate_rootthing_message(encType, data)
  ELSE IF type = 3 THEN register_edgething_message(encType, data, thingName)
  ELSE IF type = 4 THEN request_activefirmware_message(encType, data, thingName)
  ELSE IF type = 5 THEN firmware_upgraderesult_message(encType, data, thingName)
  ELSE IF type = 6 THEN signedfirmware_message(encType, data)
  ELSE IF type = 7 THEN fileupload_result_message(encType, data, thingName)
  ELSE IF type = 8 THEN wbc_mc(encType, data, thingName)
  ELSE {}
-----------------------------------------------------------------------------
(* A request of the application: whether it is turned down at once, which  *)
(* is ERR_INVALID_PARAMETER where it has a result, and what it gives to    *)
(* makeMessage beside the text.  "given" says that the arguments the text  *)
(* is formatted from are neither NULL nor empty.                           *)

Missing(argument) == argument \in {NULL, <<>>}

Attributes(type, thingName, msgCode, dataStr) ==
  [invalid |-> Missing(dataStr), type |-> type, thing |-> thingName,
   msgCode |-> IF Missing(msgCode) THEN Code("Basic-AttrGroup") ELSE msgCode]
Formatted(type, given, thingName) ==
  [invalid |-> ~given, type |-> type, thing |-> thingName, msgCode |-> NULL]

sendAttributes(msgCode, dataStr) == Attributes(1, OWN, msgCode, dataStr)
sendAttributesInDelimiter(msgCode, dataStr) == Attributes(9, OWN, msgCode, dataStr)
sendAttributesForLeaf(leaf, msgCode, dataStr) == Attributes(1, leaf, msgCode, dataStr)
sendAttributesForLeafInDelimiter(leaf, msgCode, dataStr) == Attributes(9, leaf, msgCode, dataStr)
activateThing(given) == Formatted(2, given, NULL)
registerLeafThing(leaf, given) == Formatted(3, given /\ ~Missing(leaf), leaf)
activateThingForLeaf(leaf, given) == Formatted(3, given /\ ~Missing(leaf), leaf)
requestFirmwareLatestVersion(given) == Formatted(4, given, OWN)
requestFirmwareUpgradeComplete(thing, given) == Formatted(5, given /\ ~Missing(thing), thing)
requestFirmwareSignData(given) == Formatted(6, given, NULL)
requestFileUploadComplete(given) == Formatted(7, given, OWN)
requestWbcMc == Formatted(8, TRUE, OWN)
=============================================================================
