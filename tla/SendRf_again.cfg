SPECIFICATION Spec
CONSTANTS
  Size = 4
  AddEol = TRUE
  NonBlocking = TRUE
  RetryMax = 2
  MaxAgain = 4
INVARIANT CountReturned
CHECK_DEADLOCK FALSE
