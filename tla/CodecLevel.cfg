\* A dictionary that ben_encode wrote, with more values than a call may decode.
SPECIFICATION Spec
CONSTANTS
  Code <- Codes
  FirstAlloc = 2
  MaxDepth = 8
  Fallible = {}
  Printable <- Visible
  MaxLevel = 8
  LongLongSize = 4
  MaxLongLong = 20
  Inputs = {}
  BufSize = 27
  PiecesSize = 1
  Files = {}
  InfoKey <- I
  PieceLengthKey <- P
  PiecesKey <- X
  FilesKey <- F
  PathKey <- T
  LengthKey <- L
  NameKey <- N
  Keys <- MCKeys
  Objects <- MCObjects
  Payload <- MCPayload
INVARIANT EncodedIsValid
CHECK_DEADLOCK FALSE
