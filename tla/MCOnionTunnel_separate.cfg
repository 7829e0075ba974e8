SPECIFICATION Spec
CONSTANTS
  Host = {a, b}
  NoHost = NoHost
  NoData = NoData
  MaxStreams = 2
  MaxCircuits = 1
  MaxUp = 0
  MaxDown = 0
  MaxPayloads = 0
  Plain = TRUE
INVARIANT SeparateStreams
CHECK_DEADLOCK FALSE
