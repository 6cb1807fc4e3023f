SPECIFICATION FairSpec
CONSTANTS
  m1 = m1
  m2 = m2
  m3 = m3
  m4 = m4
  NULL = NULL
  Message <- MCMessage
  MaxQueueSize = 2
INVARIANTS
  TypeOK
  NoDoubleFree
  Accounted
  HeadBlocks
  FourFailuresPerDrop
PROPERTIES
  QueueDrains
  SentWhenUp
