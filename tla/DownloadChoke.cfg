\* The peer chokes the client once and unchokes it again.
SPECIFICATION Spec
CONSTANTS
  PieceLength = 4
  SizeRecv = 2
  MultiFile = TRUE
  NumFiles = 4
  Bounds <- CrossBounds
  FileName <- CrossNames
  Disturbances = {"choke"}
  MaxDisturbances = 1
INVARIANT CompleteIsWhole
CHECK_DEADLOCK FALSE
