\* Four files, pieces across their ends; every disturbance that leaves
\* save_piece alone and does not choke.  The program may really stop: a
\* read that was cut loses a block nobody asks for again.
SPECIFICATION Spec
CONSTANTS
  PieceLength = 4
  SizeRecv = 2
  MultiFile = TRUE
  NumFiles = 4
  Bounds <- CrossBounds
  FileName <- CrossNames
  Disturbances = {"chat", "corrupt", "close", "cut", "crash", "rerun"}
  MaxDisturbances = 4
INVARIANTS
  TypeOK
  DiskIsPrefix
  CompleteIsWhole
  RequestIsNext
  OneThread
  BlockBelongs
  DownloadInv
PROPERTY ImplementsFetch
CHECK_DEADLOCK FALSE
