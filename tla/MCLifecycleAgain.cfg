SPECIFICATION FairSpec
CONSTANTS
  Watched <- MCKeepAlive
  MaxClients = 2
  bAES128Used = FALSE
  NULL = NULL
PROPERTY DestroyedThreadsEnd
CHECK_DEADLOCK FALSE
