SPECIFICATION FairSpec
CONSTANTS
  c1 = c1
  c2 = c2
  Caller <- MCCallers
  RECEIVER = RECEIVER
  CONNECTOR = CONNECTOR
  MaxMessage = 2
INVARIANTS
  TypeOK
  NoMoreSuccessesThanResponses
  CodeNoOlderThanWake
  ListenerCallNeverOwn
  OwnResponseWhenAlone
  LimitOfOneCall
PROPERTIES
  CallsReturn
  ResponsesHandled
CHECK_DEADLOCK FALSE
