SPECIFICATION Spec
CONSTANTS
  APP = APP
  LIB = LIB
  NoAuthType = NoAuthType
  AuthType = AuthType
  MaxCalls = 2
  MaxLost = 2
INVARIANT NeverWrongAuthType
CHECK_DEADLOCK FALSE
