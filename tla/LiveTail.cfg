\* One watcher, two writers; a lapsed gate, dropped handlers and failed
\* reads and writes, and a spine stream that is replaced once.
CONSTANTS
    v1 = v1
    w1 = w1
    w2 = w2
    Watcher = {v1}
    Writer = {w1, w2}
    Batch = 2
    MaySlow = FALSE
    MaxLength = 3
    MaxLapses = 1
    MaxFaults = 2
    MaxStreams = 2
SPECIFICATION FairSpec
INVARIANTS TypeOK DoneIsComplete
PROPERTIES EventsReachWatchers WatchersFinish
CHECK_DEADLOCK FALSE
