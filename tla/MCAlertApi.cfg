SPECIFICATION FairSpec
CONSTANTS
    Streams = {1, 2}
    Pids = {1, 2}
    Scores <- MCScores
    Updates <- MCUpdates
    StoreMax = 3
    TrimBy = 2
    QueueCap = 2
    MaxAlerts = 5
CONSTRAINT MCInOrder
INVARIANTS
    TypeOK
    StoreIsLatest
    RecentIdsDiffer
    StreamIsContiguous
PROPERTIES
    OnlyLateAreDropped
    QueuedIsSent
    ImplementsFeed
CHECK_DEADLOCK FALSE
