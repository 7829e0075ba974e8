SPECIFICATION Spec
CONSTANTS
  Host = {a, b}
  NoHost = NoHost
  NoData = NoData
  MaxStreams = 2
  MaxCircuits = 1
  MaxUp = 2
  MaxDown = 1
  MaxPayloads = 2
  Plain = TRUE
SYMMETRY HostSymmetry
CONSTRAINT Few
INVARIANTS
  TypeOK
  RightDestination
  RightOrigin
  EstablishedIsConnected
  GaplessPrefixes
PROPERTIES
  ParkedForEver
  ImplementsService
CHECK_DEADLOCK FALSE
