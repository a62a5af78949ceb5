SPECIFICATION Spec
CONSTANTS
  Size = 4
  AddEol = TRUE
  NonBlocking = TRUE
  RetryMax = 2
  MaxAgain = 4
INVARIANTS TypeOK NothingLeftOut
CHECK_DEADLOCK FALSE
