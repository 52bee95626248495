\* Every dictionary and list of three objects, every place their encoding
\* may break off, octets from elsewhere, and the program starting with a
\* file, the longest of which just fits the buffer; allocations may fail.
\* The caller may stop at any time.
SPECIFICATION FairSpec
CONSTANTS
  Code <- Codes
  FirstAlloc = 2
  MaxDepth = 16
  Fallible = {"struct", "blob", "array"}
  Printable <- Visible
  MaxLevel = 16
  LongLongSize = 4
  MaxLongLong = 20
  Inputs <- MCInputs
  BufSize = 46
  PiecesSize = 1
  Files <- MCFiles
  InfoKey <- I
  PieceLengthKey <- P
  PiecesKey <- X
  FilesKey <- F
  PathKey <- T
  LengthKey <- L
  NameKey <- N
  Keys <- MCKeys
  Objects <- MCObjects
  Payload <- MCPayload
INVARIANTS
  TypeOK
  InBounds
  ErrorReported
  KeysAscend
  OneEntryPerKey
  OwnedOnce
  ByStrAgrees
  RoundTrip
  OneEncoding
  SizesAgree
  ReadWhole
  InfoHash
PROPERTIES
  ImplementsCollections
  Returns
  Advances
CHECK_DEADLOCK FALSE
