\* Two callers of complete beside two writers, a checkpoint every 2 events.
CONSTANTS
    w1 = w1
    w2 = w2
    c1 = c1
    c2 = c2
    Writer = {w1, w2}
    Completer = {c1, c2}
    CheckpointEvery = 2
    MaxSeq = 4
    MaxFaults = 3
SPECIFICATION FairSpec
INVARIANTS TypeOK SuccessIsProtected
PROPERTIES LatestNeverGoesBack 
CHECK_DEADLOCK FALSE
