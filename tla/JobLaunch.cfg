SPECIFICATION LaunchSpec
CONSTANTS
  MAC = {m1}
  HeaderTag <- AllTags
  Slot = {s1, s2}
  QueueCap = 12
  Messages = {"add", "fju", "delete", "progress", "hia", "ldap"}
  MaxMessages = 3
  MaxID = 2
  MaxTime = 2
  NewTags = {"trigger_action_update", "trigger_action_reinstall"}
  Periods = {0}
  TMinuses = {0, 1}
SYMMETRY SlotSymmetry
INVARIANT OneInstallAtRest
PROPERTIES ProgressNeverBackwards LaunchedInWindow
CHECK_DEADLOCK FALSE
