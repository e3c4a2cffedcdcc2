SPECIFICATION FairStores
CONSTANTS
  Item = {i1, i2}
  persistDelay = 2
  MaxTime = 5
  MaxCalls = 2
  Server = {s1, s2}
  s1 = s1
  s2 = s2
  PeerServers <- ServersInOrder
  ConfirmTicks = 3
  Overtakes = FALSE
  FaultSets = {{"ldap", "lose", "confirm"}, {"restart", "lose", "confirm"}}
  MaxFaults = 2
INVARIANTS ChangesWillBeSaved ShutdownSaves Repaired
PROPERTIES ImplementsDurableStore EventuallySaved Agreement
CHECK_DEADLOCK FALSE
