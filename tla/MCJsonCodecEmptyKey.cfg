SPECIFICATION Spec
CONSTANTS
  Names <- MCEmptyName
  Strings <- MCStrings
  Words <- MCWords
  Styles <- MCPlain
  MaxValues = 4
INVARIANT KeysWritten
CHECK_DEADLOCK FALSE
