CONSTANTS
    Accounts = {a1, a2}
    Agents = {g1}
    Callers = {c1}
    NoOne = NoOne
    NoSession = NoSession
    NoTask = NoTask
    MaxBoot = 2
    MaxTime = 0
    MaxValid = 1
    StoreFails = TRUE
    Overlap = FALSE
SPECIFICATION Spec
SYMMETRY Symmetric
INVARIANTS TypeOK MainSessionsUnique PinsBelongToAccount
PROPERTY ActivationsDurable
