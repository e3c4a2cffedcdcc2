SPECIFICATION FairSpec
CONSTANTS
  MAC = {m1}
  HeaderTag <- AllTags
  Slot = {s1, s2}
  QueueCap = 12
  Messages = {"add", "restart", "reschedule", "hia", "fju", "progress", "ldap"}
  MaxMessages = 2
  MaxID = 1
  MaxTime = 1
  NewTags = {"trigger_action_audit"}
  Periods = {0}
  TMinuses = {0, 1}
PROPERTY DueJobsLaunch
CHECK_DEADLOCK FALSE
