SPECIFICATION Spec
CONSTANTS
  p1 = p1
  p2 = p2
  p3 = p3
  Proc <- TwoProcs
  Text = {"W3SG-1", "N0ABC", "0", "1"}
  Nul = ""
  Call <- PlainCalls
  callOf <- TwoCalls
  NSlot = 2
  Fresh = FALSE
  Table0 <- NoTable
  Serial = FALSE
  Crashes = TRUE
INVARIANT NoHoles
INVARIANT DroppedOnlyWhenFull
CHECK_DEADLOCK FALSE
