SPECIFICATION Spec
CONSTANTS
  MaxDepth = 2
  Privileges = {0, 10}
  Contexts = {"root", "menu"}
  ROOT = "root"
  Users = {"admin"}
  UserPriv <- MCUserPriv
  NoUser = "nobody"
  MaxAttempts = 2
  MaxRx = 1
  ClockMod = 1
  Configs <- CallbackConfigs
  Commands = {"exit", "quit", "enable"}
  AppCalls = {"restart", "requestAuth", "exec", "setPrivilege", "setMode", "clearHistory"}
  HandlerResults = {"OK", "QUIT"}
  IndexSelection = TRUE
  PeerMayVanish = TRUE
  AgeCap = 0
  SlowClock = FALSE
INVARIANTS
  TypeOK
  LoginRequired
  SameUser
  
  HistoryIsOwn
  InputOnlyWhileRunning
PROPERTIES
  EndIsReported
