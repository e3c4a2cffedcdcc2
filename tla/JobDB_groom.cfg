SPECIFICATION Spec
CONSTANTS
  MAC = {m1}
  HeaderTag <- AllTags
  Slot = {s1, s2}
  QueueCap = 12
  Messages = {"add", "groom", "ldap", "delete"}
  MaxMessages = 3
  MaxID = 2
  MaxTime = 1
  NewTags = {"trigger_action_update"}
  Periods = {0, 1}
  TMinuses = {0}
SYMMETRY SlotSymmetry
INVARIANTS QuietRemovalsStayQuiet LaunchedOnce
CHECK_DEADLOCK FALSE
