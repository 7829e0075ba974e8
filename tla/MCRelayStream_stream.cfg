SPECIFICATION FairSpec
CONSTANTS
  MaxUp = 3
  MaxDown = 3
  Window = 1
  Garbled = TRUE
INVARIANTS
  BothPrefixes
  WholeAnswer
PROPERTIES
  StreamReturns
CHECK_DEADLOCK FALSE
