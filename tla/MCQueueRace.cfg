SPECIFICATION RaceSpec
CONSTANTS
  p1 = p1
  p2 = p2
  Consumer = c
  n1 = n1
  n2 = n2
  n3 = n3
  NULL = NULL
  Producer <- MCProducer
  Node <- MCNode
  Msg <- MCMsg
  MaxQueueSize = 2
  Quotas <- MCQuotas
SYMMETRY MCSymmetry
INVARIANTS
  AtMostOnce
  InOrder
  LossNeedsOverlap
CHECK_DEADLOCK FALSE
