CONSTANTS
  Posts = {p1}
  Workers = {w1, w2}
  Ticks = {w1, w2}
  Clicks = {w1, w2}
  NoPost = NoPost
  MaxAttempts = 2
  Gates = {}
  LiveConnector = TRUE
  SlowWorkers = FALSE
  LogErrors = FALSE
  ClickLimit = 2
  MaxFaults = 1

SPECIFICATION Spec
SYMMETRY RequestSymmetry
PROPERTY KeepsPromise
INVARIANT TypeOK
INVARIANT ExclusiveClaim
INVARIANT OneDeliveryPerLoss
CHECK_DEADLOCK FALSE
