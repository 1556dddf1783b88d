SPECIFICATION Spec
CONSTANTS
  Clients = {c1, c2, c3}
  Leaders = {l1, l2, l3, l4}
  MaxFiles = 3
  MaxCrashes = 0
  MaxKills = 0
  MaxExits = 0
  StaleAtStart = FALSE
  SpawnMayFail = FALSE
  None = None
CHECK_DEADLOCK FALSE
SYMMETRY Symmetry
INVARIANT SingleHost
