SPECIFICATION Spec
CONSTANTS
  p1 = p1
  p2 = p2
  p3 = p3
  Proc <- TwoProcs
  Text = {"W3SG-1", "N0ABC", "0", "1"}
  Nul = ""
  Call <- PlainCalls
  callOf <- SameCall
  NSlot = 2
  Fresh = TRUE
  Table0 <- NoTable
  Serial = FALSE
  Crashes = TRUE
INVARIANT TypeOK
INVARIANT NoOvercount
SYMMETRY Symmetry
CHECK_DEADLOCK FALSE
