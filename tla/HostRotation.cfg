SPECIFICATION Spec
CONSTANTS
  p1 = p1
  p2 = p2
  h1 = h1
  h2 = h2
  h3 = h3
  h4 = h4
  Proc <- TwoProcs
  Host = {h1, h2, h3, h4}
  File <- FourEntries
  Rejected = {h4}
  MaxTime = 3
  NoMemory = TRUE
INVARIANTS TypeOK ListOrdered LeastRecentFirst FailedMeansAllTried
CHECK_DEADLOCK FALSE
SYMMETRY Symmetry
