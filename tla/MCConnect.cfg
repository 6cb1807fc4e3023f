SPECIFICATION FairSpec
CONSTANTS
  APP = APP
  LIB = LIB
  NoAuthType = NoAuthType
  AuthType = AuthType
  MaxCalls = 4
  MaxLost = 2
INVARIANTS
  TypeOK
  OneAuthorization
  OkMeansWasConnected
  FirstOkAuthorizes
PROPERTY CallsReturn
CHECK_DEADLOCK FALSE
