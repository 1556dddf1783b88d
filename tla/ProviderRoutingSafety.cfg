CONSTANTS
    Profiles = {p1}
    Endpoints = {e1, e2}
    Models = {m1}
    Sessions = {s1}
    Roles = {vision}
    Main = main
    Agent = agent
    Global = global
    Assignable <- OwnAndMain
    Turns = {u1}
    Attempts = {t1, t2}
    None = None
    MaxRev = 2
    MaxBind = 3
SPECIFICATION Spec
SYMMETRY Symmetric
INVARIANTS TypeOK BindingsFaithful TurnsFollowRecords DeletedLeavesNoSecret
PROPERTY HistoryIsFinal
