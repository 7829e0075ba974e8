SPECIFICATION FairSpec
CONSTANTS
  Block = 12
  KeyWords = 8
  Modes <- AllModes
  Clients = 2
  Sizes = {0, 8, 9, 10}
  MaxSends = 2
  MaxSpoken = 1
  MaxRestarts = 1
INVARIANTS
  RepliesMatch
  DestinationOnce
  CloseNotifies
CONSTRAINT Few
PROPERTIES
  ExitComesBack
CHECK_DEADLOCK FALSE
