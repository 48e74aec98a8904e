SPECIFICATION Spec
CONSTANTS
  Texts <- MCTexts
  Sources <- MCSources
INVARIANTS
  TypeOK
  InBounds
  RoundTrip
  LoopIsDecoded
  EncodingIsBitGroups
CHECK_DEADLOCK FALSE
