CONSTANTS
  Posts = {p1}
  Workers = {w1, w2}
  Ticks = {w1, w2}
  Clicks = {w1, w2}
  NoPost = NoPost
  MaxAttempts = 2
  Gates = {"frozen"}
  LiveConnector = TRUE
  SlowWorkers = FALSE
  LogErrors = TRUE
  ClickLimit = 1
  MaxFaults = 0

SPECIFICATION Spec
SYMMETRY RequestSymmetry
INVARIANT OneDeliveryPerLoss
CHECK_DEADLOCK FALSE
