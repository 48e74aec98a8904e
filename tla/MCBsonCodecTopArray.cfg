SPECIFICATION Spec
CONSTANTS
  Names <- MCNames
  Scalars <- MCScalars
  MaxValues = 4
INVARIANT TopLevelArraysSupported
CHECK_DEADLOCK FALSE
