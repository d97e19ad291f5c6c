CONSTANTS
  Posts = {p1, p2}
  Workers = {w1}
  Ticks = {w1}
  Clicks = {}
  NoPost = NoPost
  MaxAttempts = 2
  Gates = {"disabled"}
  LiveConnector = FALSE
  SlowWorkers = FALSE
  LogErrors = FALSE
  ClickLimit = 1
  MaxFaults = 1

SPECIFICATION FairSpec
PROPERTY ClaimsReleased
PROPERTY DuePostsSettle
CHECK_DEADLOCK FALSE
