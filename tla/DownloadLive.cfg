\* Liveness, with one file: no read is cut and nothing is choked.  The
\* download ends, so there is a last state.
SPECIFICATION FairSpec
CONSTANTS
  PieceLength = 4
  SizeRecv = 2
  MultiFile = FALSE
  NumFiles = 1
  Bounds <- OneBounds
  FileName <- OneName
  Disturbances = {"chat", "corrupt", "close", "crash"}
  MaxDisturbances = 3
INVARIANT RequestsInRange
PROPERTIES
  Completes
  ImplementsFairFetch
CHECK_DEADLOCK FALSE
