SPECIFICATION MCSpec
CONSTANTS
  Typable <- ShortLines
  MaxHistory = 3
  BufSize = 8
  Size = 7
  CredentialLimit = 3
  MaxExecDepth = 3
INVARIANTS
  TypedIsKept
  ArgumentsStay
  SecretErased
  EditedLineStays
PROPERTIES
  ImplementsRecent
