SPECIFICATION Spec
CONSTANTS
  Names <- MCNames
  Strings <- MCBackslash
  Words <- MCWords
  Styles <- MCPlain
  MaxValues = 4
INVARIANT ValidateAccepts
CHECK_DEADLOCK FALSE
