SPECIFICATION Spec
CONSTANTS
  Prompts = {p1, p2}
  Wakes = {w1}
  MaxEvents = 3
  MayCrash = TRUE
  None = None
CHECK_DEADLOCK FALSE
SYMMETRY Symmetry
INVARIANTS TypeOK AtMostOnce MirrorConverges SubmissionsSettle CancelsSettle MutationsSettle
