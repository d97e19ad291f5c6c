CONSTANTS
  Posts = {p1}
  Workers = {w1, w2}
  Ticks = {w1}
  Clicks = {w2}
  NoPost = NoPost
  MaxAttempts = 1
  Gates = {"full"}
  LiveConnector = TRUE
  SlowWorkers = TRUE
  LogErrors = TRUE
  ClickLimit = 1
  MaxFaults = 1

SPECIFICATION Spec
INVARIANT PublishedWasDelivered
PROPERTY OutcomesStand
CHECK_DEADLOCK FALSE
