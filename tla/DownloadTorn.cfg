\* The program dies once while save_piece runs, and is started again.
SPECIFICATION Spec
CONSTANTS
  PieceLength = 4
  SizeRecv = 2
  MultiFile = TRUE
  NumFiles = 4
  Bounds <- CrossBounds
  FileName <- CrossNames
  Disturbances = {"torn"}
  MaxDisturbances = 1
INVARIANT CompleteIsWhole
CHECK_DEADLOCK FALSE
