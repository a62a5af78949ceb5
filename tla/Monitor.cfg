SPECIFICATION MSpec
CONSTANTS
  p1 = p1
  p2 = p2
  c1 = c1
  c2 = c2
  Proc <- BothProcs
  Call <- BothCalls
  callOf <- OneEach
  Slots <- InOrder
  Serial = TRUE
  Crashes = FALSE
  NAci = 2
  CmsSlots = 2
INVARIANTS MonitorTypeOK LastRunShown QuietRefresh
PROPERTIES CatchesUp
CHECK_DEADLOCK FALSE
