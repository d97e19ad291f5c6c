CONSTANTS
  Posts = {p1}
  Workers = {w1, w2}
  Ticks = {w1, w2}
  Clicks = {}
  NoPost = NoPost
  MaxAttempts = 2
  Gates = {"disabled", "frozen"}
  LiveConnector = FALSE
  SlowWorkers = FALSE
  LogErrors = FALSE
  ClickLimit = 0
  MaxFaults = 0

SPECIFICATION Spec
SYMMETRY RequestSymmetry
INVARIANT AttemptBudget
INVARIANT DeadMeansSpent
 
CHECK_DEADLOCK FALSE
