SPECIFICATION FairSpec
CONSTANTS
  Kind <- Bytes
  Texts <- Conversations
  MaxQueue = 6
  Paclen = 2
  RetryMax = 1
  ConvTimeout = 2
INVARIANTS TypeOK Conserved DeliveredAtEnd GoodMeansFinished
PROPERTIES CloseEnds HangupEnds
CHECK_DEADLOCK FALSE
