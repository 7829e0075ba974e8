SPECIFICATION StatsSpec
CONSTANTS
  Conn = {c1, c2}
  MaxMessages = 2
INVARIANTS
  CountIsLive
  BytesAddUp
CHECK_DEADLOCK FALSE
