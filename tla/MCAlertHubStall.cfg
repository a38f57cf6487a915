SPECIFICATION GoFairSpec
CONSTANTS
    Streams = {s1, s2}
    AlertReaders = {r1}
    StatsReaders = {q1}
    Percent <- MCPercent
    ChanCap = 1
    ClientCap = 1
    StoreMax = 2
    StoreKeep = 1
    Hub = Hub
    None = None
    MaxAlerts = 3
PROPERTIES
    AcceptedIsPushed
CHECK_DEADLOCK FALSE
