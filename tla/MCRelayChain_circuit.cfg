SPECIFICATION FairSpec
CONSTANTS
  r1 = r1
  r2 = r2
  Relay = {r1, r2}
  Client = Client
  Exit = Exit
  Chains <- OneOrTwoRelays
  Kinds = {"CLIENT_STREAM", "PROBE", "PROBE_KEY"}
  MaxData = 2
  MaxFaults = 1
INVARIANTS
  Route
  FramesInOrder
PROPERTIES
  EndPropagates
  BothNeighboursGone
CHECK_DEADLOCK FALSE
