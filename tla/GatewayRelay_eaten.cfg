SPECIFICATION Spec
CONSTANTS
  Kind <- Bytes
  Texts <- AfterKeepAlive
  MaxQueue = 2
  Paclen = 2
  RetryMax = 1
  ConvTimeout = 2
INVARIANT OnlyKeepAlivesEaten
CHECK_DEADLOCK FALSE
