SPECIFICATION FairSpec
CONSTANTS
  MaxDepth = 1
  Privileges = {0, 10, 15}
  Contexts = {"root"}
  ROOT = "root"
  Users = {"admin"}
  UserPriv <- MCUserPriv
  NoUser = "nobody"
  MaxAttempts = 2
  MaxRx = 2
  ClockMod = 5
  Configs <- LiveConfigs
  Commands = {"exit", "enable"}
  AppCalls = {}
  HandlerResults = {"OK"}
  IndexSelection = FALSE
  PeerMayVanish = TRUE
  AgeCap = 3
  SlowClock = TRUE
PROPERTIES
  LockoutEnds
  TickReturns
  WriteFailureEnds
  IdleCloses
