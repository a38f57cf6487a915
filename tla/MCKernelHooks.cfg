SPECIFICATION Spec
CONSTANTS
    Cpus = {c1, c2, c3}
    Pids = {1, 2, 3}
    Watched = {"openat"}
    RingCap = 3
    MapCap = 2
    MaxRecords = 5
CONSTRAINT MCInOrder
INVARIANTS
    TypeOK
    SoloScoreIsExact
PROPERTIES
    ImplementsQueue
CHECK_DEADLOCK FALSE
