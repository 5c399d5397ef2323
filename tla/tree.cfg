SPECIFICATION MCSpec
CONSTANTS
  MaxDepth = 2
  Privileges = {0, 10}
  PoolSize = 3
  ROOT <- MCRoot
  INVALID <- MCInvalid
  Contexts <- MCContexts
  Commands <- MCCommands
  Synonyms = {"a"}
  MaxAliases = 1
  MaxNesting = 2
  AppModes = {"enable"}
  AppPrivileges = {0, 10}
INVARIANTS
  LevelsAreLive
  KeywordsAreUnique
PROPERTIES
  RemovalMovesUp
  RecursiveRemovalIsExact
