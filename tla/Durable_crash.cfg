\* Workers die in run_node and in advance and their jobs come back; the host sweeps
\* meanwhile, so several callers meet in one skip cascade.
CONSTANTS
    NoOwner = NoOwner
    NoNode = NoNode
    Host = host
    Workers = {w1, w2}
    Tokens = {o1, o2, o3, o4, o5, o6}
    Graph <- JoinDeclaredEarly
    PortChoices <- BranchChoices
    MaxConcurrent = 0
    Tries = 1
    PerKindTries <- TwiceS
    UnsafeToReplay = {}
    Gates = {}
    MayFail = {"s"}
    HostSweeps = TRUE
    Duplicates = FALSE
    MaxCrashes = 1
    TokensSurvive = TRUE
SPECIFICATION Spec
SYMMETRY WorkerSymmetry
INVARIANTS
    SkipDiagnosticsOnce
    SameDecisionsAsTheWalk
    DecidedAfterSources
PROPERTIES
    SettledForever
CHECK_DEADLOCK FALSE
