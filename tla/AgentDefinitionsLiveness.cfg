SPECIFICATION FairSpec
CONSTANTS
  Prompts = {p1, p2}
  Activations = {t1}
  Actors = {a1}
  Versions = {v1, v2}
  MaxSaves = 1
  Restarts = 0
  PlanMode = FALSE
  Plan = Plan
  None = None
PROPERTY PromptsSettle
