SPECIFICATION MCSpec
CONSTANTS
  Chars <- MCChars
  MaxTyped = 4
  MaxArgs = 3
  Filters <- MCFilters
  Menus <- MCMenus
  WordLists <- MCWordLists
  Width = 8
  Narrow = 4
  LongWidth = 12
  Arguments <- MCArguments
  Values <- MCValues
  Sizes = {0, 1, 2, 3, 4, 5, 6, 7}
  MaxTicks = 3
  Durations = {0, 1, 2, 5, 7}
CHECK_DEADLOCK FALSE
INVARIANTS
  HelpAgreesWithEnter
  JoinedIsSplit
  NumbersAreExact
PROPERTIES
  TabOnlyExtends
