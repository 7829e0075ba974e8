SPECIFICATION FairSpec
CONSTANTS
  Host = {a}
  NoHost = NoHost
  NoData = NoData
  MaxStreams = 1
  MaxCircuits = 2
  MaxUp = 2
  MaxDown = 2
  MaxPayloads = 4
  Plain = FALSE
INVARIANTS
  GaplessPrefixes
PROPERTIES
  TunnelTeardown
  ReopenedTunnelServed
CHECK_DEADLOCK FALSE
