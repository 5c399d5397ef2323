SPECIFICATION Spec
CONSTANTS
  MaxDepth = 2
  Privileges = {0, 10}
  Contexts = {"root", "menu"}
  ROOT = "root"
  Users = {"admin"}
  UserPriv <- MCUserPriv
  NoUser = "nobody"
  MaxAttempts = 2
  MaxRx = 1
  ClockMod = 1
  Configs <- HandlerConfigs
  Commands = {"exit", "quit", "enable"}
  AppCalls = {"exec"}
  HandlerResults = {"OK", "QUIT"}
  IndexSelection = FALSE
  PeerMayVanish = TRUE
  AgeCap = 0
  SlowClock = FALSE
PROPERTIES
  OkMeansActive
