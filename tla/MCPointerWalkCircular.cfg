SPECIFICATION Spec
CONSTANTS
  o1 = o1
  o2 = o2
  o3 = o3
  NULL = NULL
  Objects <- MCObjects
  Root = o1
  NumSlots = 2
  StackLimit = 7
INVARIANT CircularIsReported
CHECK_DEADLOCK FALSE
