SPECIFICATION Spec
CONSTANTS
  Names <- MCNames
  Int32Max = 3
  DoubleExact = 8
  PrintExact = 4
  ExponentFrom = 8
  IndexNames <- MCIndexNames
  Classes <- MCClasses
  InitialHeaps <- MCInitialHeaps
  Documents <- MCDocuments
  MaxSteps = 1
CHECK_DEADLOCK FALSE
INVARIANTS
  TypeOK
  TreeAgrees
  RetryChangesNothing
  PointersKept
  OnlyNamedChanges
  RoundTrip
  EncodesLikeItsTree
  ModifyFollowsEveryWay
