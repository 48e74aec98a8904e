SPECIFICATION Spec
CONSTANTS
  Names <- MCNames
  IndexNames <- MCIndexNames
  Int32Max = 3
  DoubleExact = 8
  PrintExact = 4
  ExponentFrom = 8
  Variables = {"t", "u"}
  Literals <- MCLiterals
  InitialTrees <- MCInitialTrees
  MaxSteps = 2
  MaxItems = 2
CHECK_DEADLOCK FALSE
INVARIANTS
  TypeOK
  EqualIsEquivalence
  EqualEncodesAlike
  TreesComeBack
  DiffsAreChanges
