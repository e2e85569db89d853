\* A budget of two, two branches settling one after the other, and no caller but
\* the one each settled job makes.
CONSTANTS
    NoOwner = NoOwner
    NoNode = NoNode
    Host = host
    Workers = {w1, w2, w3}
    Tokens = {o1, o2, o3, o4, o5, o6}
    Graph <- Fans
    PortChoices <- FansChoices
    MaxConcurrent = 2
    Tries = 1
    PerKindTries <- NoOverrides
    UnsafeToReplay = {}
    Gates = {}
    MayFail = {}
    HostSweeps = FALSE
    Duplicates = FALSE
    MaxCrashes = 0
    TokensSurvive = TRUE
SPECIFICATION Spec
SYMMETRY WorkerSymmetry
INVARIANTS
    HeldWithinBudget
CHECK_DEADLOCK FALSE
