\* The frontier of every acyclic graph of four nodes with at most three edges.
CONSTANTS
    NoOwner = NoOwner
    MaxEdges = 3
    Orders <- MCOrders
    EdgeSets <- MCEdgeSets
    NoteSets <- MCNoteSets
SPECIFICATION Spec
INVARIANTS
    FrontierIsSound
PROPERTY PersistingKeepsTheFrontier
CHECK_DEADLOCK FALSE
