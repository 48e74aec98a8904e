SPECIFICATION Spec
CONSTANTS
  Names <- MCNames
  Scalars <- MCScalars
  MaxValues = 4
INVARIANT SkipIsHarmless
CHECK_DEADLOCK FALSE
