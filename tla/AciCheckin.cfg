SPECIFICATION Spec
CONSTANTS
  p1 = p1
  p2 = p2
  c1 = c1
  c2 = c2
  Proc <- TwoRuns
  Chan = {c1, c2}
  File <- TwoChannels
  Enabled = {c1, c2}
  Interval = 2
  VersionInterval = 2
  Base = 3
  MaxTime = 5
  MaxEdits = 1
INVARIANTS TypeOK EditReported IdleWhenOver
PROPERTY ReportsPaced
SYMMETRY Symmetry
CHECK_DEADLOCK FALSE
