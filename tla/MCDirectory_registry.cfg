SPECIFICATION Spec
CONSTANTS
  Host = {"h1"}
  Port = {10001, 10004, 10005}
  Address <- TwoExitsAndRelay
  Interval = 2
  Retry = 1
  Timeout = 1
  TTL = 4
  Delay = 1
  MaxKeys = 2
  MaxStarts = 3
CONSTRAINT FewStarts
INVARIANTS
  TypeOK
  OneExitPerHost
  HostKeepsAnExit
  SelfHeals
  DeadForgotten
