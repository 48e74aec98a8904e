SPECIFICATION FairSpec
CONSTANTS
  o1 = o1
  o2 = o2
  o3 = o3
  NULL = NULL
  Objects <- MCObjects
  Root = o1
  NumSlots = 2
  StackLimit = 7
INVARIANTS
  TypeOK
  ThrowIsSound
  NestingIsAcyclic
  DoneMeansAcyclic
  OverflowOnlyOffCycle
  VisitsCountPaths
PROPERTIES
  Terminates
  AcyclicSucceeds
CHECK_DEADLOCK FALSE
