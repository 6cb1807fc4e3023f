SPECIFICATION FairSpec
CONSTANTS
  APP = APP
  LIB = LIB
  NoAuthType = NoAuthType
  AuthType = AuthType
  MaxCalls = 1
  MaxLost = 2
PROPERTY HeartbeatsSent
CHECK_DEADLOCK FALSE
