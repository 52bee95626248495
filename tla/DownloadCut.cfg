\* One read returns less than was asked for.
SPECIFICATION FairSpec
CONSTANTS
  PieceLength = 4
  SizeRecv = 2
  MultiFile = FALSE
  NumFiles = 1
  Bounds <- OneBounds
  FileName <- OneName
  Disturbances = {"cut"}
  MaxDisturbances = 1
PROPERTY Completes
CHECK_DEADLOCK FALSE
