SPECIFICATION Spec
CONSTANTS
  Host = {a, b}
  NoHost = NoHost
  NoData = NoData
  MaxStreams = 3
  MaxCircuits = 1
  MaxUp = 1
  MaxDown = 0
  MaxPayloads = 1
  Plain = FALSE
SYMMETRY HostSymmetry
CONSTRAINT Stray
INVARIANT OwnDestination
CHECK_DEADLOCK FALSE
