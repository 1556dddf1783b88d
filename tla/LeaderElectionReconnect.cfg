SPECIFICATION FairSpec
CONSTANTS
  Clients = {c1}
  Leaders = {l1, l2, l3, l4}
  MaxFiles = 4
  MaxCrashes = 2
  MaxKills = 0
  MaxExits = 0
  StaleAtStart = FALSE
  SpawnMayFail = TRUE
  None = None
INVARIANT HostReachable
PROPERTY ClientsSettle
