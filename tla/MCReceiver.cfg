SPECIFICATION FairSpec
CONSTANTS
  bAES128Used = TRUE
  Kind <- MCKinds
  MaxQueueSize = 2
  MaxMessage = 3
INVARIANTS
  MemorySafe
  EveryMessageAccounted
PROPERTIES
  ServiceSpec
  EveryMessageHandled
CHECK_DEADLOCK FALSE
