SPECIFICATION Spec
CONSTANTS
  Clients = {c1, c2}
  Leaders = {l1, l2}
  MaxFiles = 2
  MaxCrashes = 0
  MaxKills = 1
  MaxExits = 1
  StaleAtStart = TRUE
  SpawnMayFail = FALSE
  None = None
CHECK_DEADLOCK FALSE
SYMMETRY Symmetry
INVARIANTS TypeOK LockTruthful
