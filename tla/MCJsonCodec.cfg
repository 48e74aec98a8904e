SPECIFICATION Spec
CONSTANTS
  Names <- MCNames
  Strings <- MCStrings
  Words <- MCWords
  Styles <- MCStyles
  MaxValues = 4
  Symbols <- MCSymbols
INVARIANTS
  TypeOK
  InStep
  NoFalseError
PROPERTIES
  ReaderAdvances
  KeepsContract
CHECK_DEADLOCK FALSE
