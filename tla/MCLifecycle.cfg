SPECIFICATION FairSpec
CONSTANTS
  Watched <- MCWatched
  MaxClients = 2
  bAES128Used = TRUE
  NULL = NULL
INVARIANTS
  FaultNeedsThreadLeftBehind
  ServedByThreads
  OnlyLeaks
PROPERTY ThreadsEnd
CHECK_DEADLOCK FALSE
