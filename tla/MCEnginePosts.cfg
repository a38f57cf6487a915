SPECIFICATION EngineSpec
CONSTANTS
    ssh = ssh
    miner = miner
    NoName = NoName
    None = None
    Word = 65536
    Pids = {1}
    Posters = {h1}
    Filenames <- MCFilenames
    Samples <- MCPostSamples
    Bodies <- MCBodies
    ConfigFiles <- MCConfigFiles
    BeaconMin = 4
    RapidMin = 3
    MassMin = 2
    MaxPosts = 1
    MaxEvents = 3
    MaxTime = 2
INVARIANTS
    TypeOK
    MmapAlertOnce
    LearningIsUnjudged
PROPERTIES
    HistoryIsKept
CHECK_DEADLOCK FALSE
