SPECIFICATION FairSpec
CONSTANTS
  Machines = 2
  Ports = 2
  MinNodes = 1
  Modes <- AskAndScan
  Advertised <- Names
  Installed <- RelaysAndExits
  Kinds = {"relay", "exit", "none"}
  MaxChanges = 1
INVARIANTS
  ChainOfDistinct
  KeysFit
  OnlyLive
PROPERTIES
  EventuallyReady
CHECK_DEADLOCK FALSE
