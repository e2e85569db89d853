\* The sort on every list of three edges, whole-graph runs, and fenced replays.
CONSTANTS
    NoOwner = NoOwner
    NoNode = NoNode
    FencePort = fenced
    Calls <- AllCalls
SPECIFICATION Spec
INVARIANTS
    SortIsSound
    WalkIsSound
    ReplayAgreesWithFrontier
CHECK_DEADLOCK FALSE
