\* The peer closes or resets anywhere; reads are cut anywhere.  The program
\* ends, waits for a peer that sends nothing, or reads nothing for ever.
SPECIFICATION FairSpec
CONSTANTS
  HandshakeSize = 3
  HeaderSize = 2
  RecvSize = 3
  NumMessages = 5
  Start <- Starts
  Size <- Sizes
  CloseAt <- Anywhere
INVARIANTS
  TypeOK
  ReceiveInv
PROPERTIES
  ImplementsInbox
  StopsOrDrains
CHECK_DEADLOCK FALSE
