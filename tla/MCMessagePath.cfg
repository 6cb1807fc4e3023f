SPECIFICATION Spec
CONSTANTS
  KEY = 37
  NotUtf8 <- MCNotUtf8
  Code <- MCCode
  OWN <- MCOwn
  UUID <- MCUuid
  Text <- MCText
  IV <- MCIV
  Things <- MCThings
  MsgCodes <- MCMsgCodes
  MsgId <- MCMsgId
  Tokens <- MCTokens
  NOW = 120
  MinSizes <- MCMinSizes
INVARIANTS TypeOK ReadsBack
CHECK_DEADLOCK FALSE   \* the message has come to its end
