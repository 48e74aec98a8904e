SPECIFICATION Spec
CONSTANTS
  Values <- MCValues
  Contents <- MCContents
  Literal <- MCLiteral
  Links <- MCLinks
  Calls <- MCCalls
  ZipWith <- MCZip
  MaxQueries = 3
  MaxSteps = 3
  Patience = 20
INVARIANTS
  TypeOK
  AnswersAreRight
  IteratorsAreRight
CHECK_DEADLOCK FALSE
