\* The whole frontier handed out at once: a gate answered either way, a lane,
\* doubled jobs, a retry and a worker that dies; everyone else keeps going.
CONSTANTS
    NoOwner = NoOwner
    NoNode = NoNode
    Host = host
    Workers = {w1, w2}
    Tokens = {o1, o2, o3, o4, o5, o6}
    Graph <- Gated
    PortChoices <- GatedChoices
    MaxConcurrent = 0
    Tries = 1
    PerKindTries <- TwiceD
    UnsafeToReplay = {}
    Gates = {"g"}
    MayFail = {"d"}
    HostSweeps = TRUE
    Duplicates = TRUE
    MaxCrashes = 1
    TokensSurvive = TRUE
SPECIFICATION FairSpec
INVARIANTS
    ExclusiveRun
    NothingPassesAnOpenGate
PROPERTIES
    ImplementsFlowRun
    RunFinishes
CHECK_DEADLOCK FALSE
