SPECIFICATION MCSpec
CONSTANTS
  Size = 4
  CredentialLimit = 2
  MaxHistory = 1
  ParamMax = 20
  Keys <- AllKeys
  SequenceBytes <- KeySequences
  MaxSequence = 4
  Width = 7
  MaxLine = 3
  MaxCount = 2
  MaxNesting = 2
  Pattern <- TwoLetters
  Prints <- ProgressTexts
  MaxOutput = 3
  MaxAside = 1
  RxSize = 3
  MaxSbLen = 3
  Budgets <- TheBudgets
INVARIANTS
  FreshLine
