SPECIFICATION FairSpec
CONSTANTS
  Server = {a, b}
  Owner = {a}
  What = {w}
  Time = {0}
  Updates <- Launch
  Overlap = TRUE
  FaultSets <- BreakOnly
  MaxID = 1
  MaxEvents = 3
CHECK_DEADLOCK FALSE
PROPERTY Converges
