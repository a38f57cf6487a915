SPECIFICATION EngineSpec
CONSTANTS
    ssh = ssh
    miner = miner
    NoName = NoName
    None = None
    Word = 65536
    Pids = {1}
    Posters = {h1}
    Filenames <- MCFilenames
    Samples <- MCBadPortSamples
    Bodies <- MCBodies
    ConfigFiles <- MCShipped
    BeaconMin = 4
    RapidMin = 3
    MassMin = 2
    MaxPosts = 0
    MaxEvents = 5
    MaxTime = 0
PROPERTIES
    BadPortIsFlagged
CHECK_DEADLOCK FALSE
