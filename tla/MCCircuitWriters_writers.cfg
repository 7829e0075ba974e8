SPECIFICATION WritersFairSpec
CONSTANTS
  Writer = {"opener", "reader"}
  Calls = 3
  Size = 3
  Room = 4
  Lengths = {2, 100}
INVARIANTS
  FramesWhole
  EachInOrder
PROPERTIES
  AllArrive
