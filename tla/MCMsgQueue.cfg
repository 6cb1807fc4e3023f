SPECIFICATION Spec
CONSTANTS
  n1 = n1
  n2 = n2
  n3 = n3
  n4 = n4
  m1 = m1
  m2 = m2
  NULL = NULL
  Node <- MCNode
  Msg <- MCMsg
  MaxQueueSize = 3
INVARIANTS
  TypeOK
  ListWellFormed
PROPERTY
  FifoSpec
