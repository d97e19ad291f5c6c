CONSTANTS
  Posts = {p1}
  Workers = {w1, w2}
  Ticks = {w1}
  Clicks = {w2}
  NoPost = NoPost
  MaxAttempts = 2
  Gates = {}
  LiveConnector = FALSE
  SlowWorkers = FALSE
  LogErrors = FALSE
  ClickLimit = 1
  MaxFaults = 0

SPECIFICATION Spec
INVARIANT DeadMeansSpent
CHECK_DEADLOCK FALSE
