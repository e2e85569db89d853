\* The serial default on a graph declared in an order its edges agree with.
CONSTANTS
    NoOwner = NoOwner
    NoNode = NoNode
    Host = host
    Workers = {w1, w2}
    Tokens = {o1, o2, o3, o4, o5, o6}
    Graph <- Join
    PortChoices <- JoinChoices
    MaxConcurrent = 1
    Tries = 1
    PerKindTries <- TwiceSThriceX
    UnsafeToReplay = {"x"}
    Gates = {}
    MayFail = {"s", "x"}
    HostSweeps = TRUE
    Duplicates = FALSE
    MaxCrashes = 0
    TokensSurvive = TRUE
SPECIFICATION Spec
SYMMETRY WorkerSymmetry
INVARIANTS
    HeldWithinBudget
    DeclarationOrder
    AttemptsAsConfigured
CHECK_DEADLOCK FALSE
