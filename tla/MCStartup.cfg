SPECIFICATION Spec
CONSTANTS
  Ignored <- MCIgnored
  Number <- MCNumber
  Existing = {"pem"}
  File <- MCFiles
  MaxLogin = 2
  MaxCreate = 2
  MaxCall = 3
INVARIANTS
  NothingLeaked
  SentWithLogin
  AuthCodeOfThisClient
  SettingsReachConnection
CHECK_DEADLOCK FALSE
