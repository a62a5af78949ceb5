SPECIFICATION Spec
CONSTANTS
  p1 = p1
  p2 = p2
  p3 = p3
  Proc <- ThreeProcs
  Text = {"W3SG-1", "N0ABC", "0", "1"}
  Nul = ""
  Call <- TwinCalls
  callOf <- TwinsOf
  NSlot = 2
  Fresh = FALSE
  Table0 <- BothKnown
  Serial = TRUE
  Crashes = TRUE
INVARIANT OwnRow
INVARIANT IdleAfterExit
INVARIANT Accounted
INVARIANT OneSessionPerRow
PROPERTY TableSpec
CHECK_DEADLOCK FALSE
