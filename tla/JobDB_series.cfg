SPECIFICATION Spec
CONSTANTS
  MAC = {m1}
  HeaderTag <- AllTags
  Slot = {s1, s2}
  QueueCap = 10
  Messages = {"add", "delete", "forward", "restart"}
  MaxMessages = 2
  MaxID = 3
  MaxTime = 0
  NewTags = {"trigger_action_audit"}
  Periods = {1}
  TMinuses = {0}
SYMMETRY SlotSymmetry
INVARIANTS IdsNameOneJob AtMostOneInstance
PROPERTY SeriesGoesOn
CHECK_DEADLOCK FALSE
