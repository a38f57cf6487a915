SPECIFICATION LoaderSpec
CONSTANTS
    NoName = NoName
    None = None
    Word = 65536
    Pids = {1}
    Posters = {h1}
    Filenames <- MCFilenames
    Samples <- MCSamples
    Bodies <- MCBodies
    ConfigFiles <- MCConfigFiles
    BeaconMin = 4
    RapidMin = 3
    MassMin = 2
    RingCap = 2
    ChanCap = 1
    MaxPosts = 1
    MaxEvents = 3
    MaxTime = 1
    MaxGen = 1
INVARIANTS
    LoaderTypeOK
    AnomalyAccounting
    DisarmStopsKills
    KillsAreReported
PROPERTIES
    RingDrains
    VerdictIsExecuted
CHECK_DEADLOCK FALSE
