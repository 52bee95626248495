\* Every disturbance there is.  Runs may end or wait for ever.
SPECIFICATION Spec
CONSTANTS
  PieceLength = 4
  SizeRecv = 2
  MultiFile = TRUE
  NumFiles = 4
  Bounds <- CrossBounds
  FileName <- CrossNames
  Disturbances = {"chat", "corrupt", "choke", "close", "cut", "crash", "torn", "full", "rerun"}
  MaxDisturbances = 3
INVARIANT OnlyVerified
CHECK_DEADLOCK FALSE
