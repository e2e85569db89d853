\* Two drivers at once under the serial default, one of which may die: a gate whose
\* input holds a decision it must not use, a step that is tried twice.
CONSTANTS
    NoOwner = NoOwner
    NoNode = NoNode
    Drivers = {d1, d2}
    Graph <- Asked
    PortChoices <- AskedChoices
    MaxConcurrent = 1
    MaxPasses = 4
    TriesFor <- AskedTries
    Gates = {"g"}
    AutoAnswer = {}
    PreFilled <- FilledIn
    MayFail = {"s"}
    MaxCrashes = 1
SPECIFICATION Spec
SYMMETRY DriverSymmetry
INVARIANTS
    PeopleDecide
    NothingBesideAWaitingGate
    WorkPerRelease
PROPERTIES
    ReportsAreTrue
CHECK_DEADLOCK FALSE
