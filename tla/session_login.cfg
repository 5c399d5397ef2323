SPECIFICATION Spec
CONSTANTS
  MaxDepth = 2
  Privileges = {0, 5, 10, 15}
  Contexts = {"root", "menu"}
  ROOT = "root"
  Users = {"oper", "admin"}
  UserPriv <- MCUserPriv
  NoUser = "nobody"
  MaxAttempts = 3
  MaxRx = 1
  ClockMod = 4
  Configs <- TableConfigs
  Commands = {"exit", "quit", "enable", "disable", "end", "configure"}
  AppCalls = {"clock", "configure"}
  HandlerResults = {"OK", "ERR", "QUIT", "AUTH"}
  IndexSelection = FALSE
  PeerMayVanish = FALSE
  AgeCap = 2
  SlowClock = FALSE
INVARIANTS
  NoExtraAttempt
PROPERTIES
  LockoutHeld
  IdleNotEarly
