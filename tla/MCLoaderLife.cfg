SPECIFICATION LifeSpec
CONSTANTS
    NoName = NoName
    None = None
    Word = 65536
    Pids = {1}
    Posters = {h1}
    Filenames <- MCFilenames
    Samples <- MCSamples
    Bodies <- MCBodies
    ConfigFiles <- MCConfigFiles
    Attachable = {"tracepoint_exit", "kprobe_tcp_connect"}
    BeaconMin = 5
    RapidMin = 10
    MassMin = 20
    RingCap = 2
    ChanCap = 1
    MaxPosts = 1
    MaxEvents = 2
    MaxTime = 1
    MaxGen = 1
    MaxLives = 2
INVARIANTS
    LifeTypeOK
PROPERTIES
    BacklogIsRead
    SignalEnds
CHECK_DEADLOCK FALSE
