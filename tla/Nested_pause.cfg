\* A gate inside a subflow asks somebody; the coordinator settles the node.
CONSTANTS
    Roots <- SmallRoots
    Siblings <- OddSiblings
    Workflows <- SmallWorkflows
    Windows <- SmallWindows
    Tries = 2
    MaxAttempts = 3
    MaxReleases = 1
    MaxTime = 2
SPECIFICATION Spec
INVARIANTS
    PendingDecisionIsNoFailure
CHECK_DEADLOCK FALSE
