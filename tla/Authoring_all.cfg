\* Every shipped kind in a small document: loaded, run on every seed, saved and
\* loaded again.
CONSTANTS
    Answers <- SmallAnswers
    Completions <- SmallCompletions
    Responses <- SmallResponses
    NestedOutputs <- SmallNestedOutputs
    Named = {"left", "right", "a", "elsewhere"}
    SchemaVersion = 1
    Migrations = {}
    Drawn <- SmallDocuments
    Policy <- HostPolicy
    Seeds <- SmallSeeds
    MaxSaves = 1
SPECIFICATION Spec
INVARIANTS
    ImportIsTruthful
    WarnedEdgesNeverDeliver
    OneBranchIsTaken
    DeclarationsHold
    LiveValueSurvives
PROPERTIES
    ReloadKeepsTheGraph
CHECK_DEADLOCK FALSE
