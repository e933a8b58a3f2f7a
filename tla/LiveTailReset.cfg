\* No faults; the spine stream is reaped, evicted or deleted once.
CONSTANTS
    v1 = v1
    w1 = w1
    w2 = w2
    Watcher = {v1}
    Writer = {w1, w2}
    Batch = 2
    MaySlow = FALSE
    MaxLength = 3
    MaxLapses = 0
    MaxFaults = 0
    MaxStreams = 2
SPECIFICATION FairSpec
PROPERTIES NothingIsMissed
CHECK_DEADLOCK FALSE
