SPECIFICATION EngineSpec
CONSTANTS
    ssh = ssh
    miner = miner
    NoName = NoName
    None = None
    Word = 65536
    Pids = {1}
    Posters = {h1}
    Filenames <- MCFilenames
    Samples <- MCSamples
    Bodies <- MCBodies
    ConfigFiles <- MCShipped
    BeaconMin = 4
    RapidMin = 3
    MassMin = 2
    MaxPosts = 0
    MaxEvents = 5
    MaxTime = 6
INVARIANTS
    ScoreExplained
    ExecAlertBudget
PROPERTIES
    MmapNeedsSuspicion
    
CHECK_DEADLOCK FALSE
