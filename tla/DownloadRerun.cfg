\* The program is started once more after the download.
SPECIFICATION Spec
CONSTANTS
  PieceLength = 4
  SizeRecv = 2
  MultiFile = FALSE
  NumFiles = 1
  Bounds <- OneBounds
  FileName <- OneName
  Disturbances = {"rerun"}
  MaxDisturbances = 1
INVARIANT DoneAsksNothing
CHECK_DEADLOCK FALSE
