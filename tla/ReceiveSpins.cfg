\* The peer closes anywhere.  The program ends, or should.
SPECIFICATION FairSpec
CONSTANTS
  HandshakeSize = 3
  HeaderSize = 2
  RecvSize = 3
  NumMessages = 5
  Start <- Starts
  Size <- Sizes
  CloseAt <- Anywhere
PROPERTY Stops
CHECK_DEADLOCK FALSE
