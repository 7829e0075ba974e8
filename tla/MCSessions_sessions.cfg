SPECIFICATION FairSpec
CONSTANTS
  Modes <- ChatAndEcho
  Clients = 2
  Kinds = {"close", "probe", "foreign"}
  Capacity = 2
  MaxConns = 2
  MaxFrames = 2
  MaxQueued = 2
INVARIANTS
  RightReplies
  QueuedKept
PROPERTIES
  StableUntilClose
  Served
CHECK_DEADLOCK FALSE
