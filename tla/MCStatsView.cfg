SPECIFICATION ViewSpec
CONSTANTS
    NoName = NoName
    None = None
    Word = 65536
    Pids = {1, 2}
    Posters = {h1}
    Filenames <- MCFilenames
    Samples <- MCSamples
    Bodies <- MCBodies
    ConfigFiles <- MCConfigFiles
    BeaconMin = 5
    RapidMin = 10
    MassMin = 20
    RingCap = 1
    ChanCap = 1
    StoreMax = 2
    StoreKeep = 1
    MaxPosts = 1
    MaxEvents = 3
    MaxTime = 0
    MaxGen = 0
INVARIANTS
    FiguresAreCurrent
    AlertsHaveSuspects
CHECK_DEADLOCK FALSE
