SPECIFICATION FairDashboard
CONSTANTS
    Subscribers <- MCConnections
    Fetches = {f1, f2}
    FetchLimit = 2
    ShownMax = 3
    MaxAlerts = 3
INVARIANTS
    RowsAreOrdered
PROPERTIES
    TotalConverges
CHECK_DEADLOCK FALSE
