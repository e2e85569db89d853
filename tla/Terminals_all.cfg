\* Commands, conversations and two lanes, under any chunking, death, timeout and abort.
CONSTANTS
    NoLane = "none"
    MaxPending = 3
    MaxBuffer = 3
    MaxChunk = 3
    Parent <- MCParent
    TerminalLanes = {"l1", "l2"}
    Plans <- MCPlans
    Banners <- MCBanners
    Replies <- MCReplies
SPECIFICATION FairSpec
INVARIANTS
    TranscriptsAreSound
    AnswersAreOwn
    NoTerminalLeftOpen
PROPERTIES
    WaitsEndTruthfully
    WaitsEnd
CHECK_DEADLOCK FALSE
