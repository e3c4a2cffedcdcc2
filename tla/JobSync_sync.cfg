SPECIFICATION FairSpec
CONSTANTS
  Server = {a, b}
  Owner = {a}
  What = {w}
  Time = {0}
  Updates <- Launch
  Overlap = FALSE
  FaultSets <- BreakOrRestart
  MaxID = 2
  MaxEvents = 3
CHECK_DEADLOCK FALSE
INVARIANT LossIsRepaired
PROPERTY Converges
