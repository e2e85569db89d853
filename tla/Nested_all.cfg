\* Every structural node around leaves and gates, tried twice, with a worker that
\* may die and a provider that forgets.
CONSTANTS
    Roots <- SmallRoots
    Siblings <- OddSiblings
    Workflows <- SmallWorkflows
    Windows <- SmallWindows
    Tries = 2
    MaxAttempts = 3
    MaxReleases = 1
    MaxTime = 2
SPECIFICATION FairSpec
INVARIANTS
    NestingIsSound
    KeysTellStepsApart
    ChargedOnce
    PauseTravelsUp
PROPERTIES
    AttemptsEnd
CHECK_DEADLOCK FALSE
