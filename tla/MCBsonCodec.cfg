SPECIFICATION Spec
CONSTANTS
  Names <- MCNames
  Scalars <- MCScalars
  MaxValues = 4
INVARIANTS
  TypeOK
  LengthsPatched
  InStep
  NoFalseError
PROPERTIES
  ReaderAdvances
  KeepsContract
CHECK_DEADLOCK FALSE
