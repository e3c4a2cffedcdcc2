SPECIFICATION Spec
CONSTANTS
  MAC = {m1}
  HeaderTag <- AllTags
  Slot = {s1, s2}
  QueueCap = 12
  Messages = {"hia", "ldap"}
  MaxMessages = 3
  MaxID = 2
  MaxTime = 0
  NewTags = {"trigger_action_update"}
  Periods = {0}
  TMinuses = {0}
SYMMETRY SlotSymmetry
INVARIANT OneInstallAtRest
CHECK_DEADLOCK FALSE
