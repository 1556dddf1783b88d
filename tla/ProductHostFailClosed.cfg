CONSTANTS
    Accounts = {a1}
    Agents = {g1}
    Callers = {c1}
    NoOne = NoOne
    NoSession = NoSession
    NoTask = NoTask
    MaxBoot = 2
    MaxTime = 1
    MaxValid = 1
    StoreFails = FALSE
    Overlap = FALSE
SPECIFICATION Spec
INVARIANT WithdrawnAccessHasNoPins
