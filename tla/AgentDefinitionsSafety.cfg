SPECIFICATION Spec
CONSTANTS
  Prompts = {p1, p2}
  Activations = {t1}
  Actors = {a1, a2}
  Versions = {v1, v2}
  MaxSaves = 1
  Restarts = 1
  PlanMode = TRUE
  Plan = Plan
  None = None
SYMMETRY Symmetry
INVARIANTS TypeOK AppliedIsHarness FreshWhenAlone
PROPERTY RunningUndisturbed
