SPECIFICATION FairSpec
CONSTANTS
  Conn = {c1, c2, c3}
  Key = {file, hook}
  Hook = {hook}
  Version = {v1, v2}
INVARIANTS CountsUsers ServedWhole
PROPERTY CacheDrains
CHECK_DEADLOCK FALSE
