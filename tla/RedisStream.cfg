\* One client, two calls of complete or fail, a log that keeps one entry at least.
CONSTANTS
    c1 = c1
    c2 = c2
    e1 = e1
    e2 = e2
    Client = {c1}
    Caller = {e1, e2}
    MaxBuffer = 1
    BatchSize = 1
    IdleTtl = 2
    CompletedTtl = 1
    MaxEntries = 3
SPECIFICATION FairSpec
INVARIANTS TypeOK NothingRetainedIsSkipped OnlyLagLosesSilently EndIsTheFirst KeysInStep
PROPERTIES EndReachesReaders ContractSpec
CHECK_DEADLOCK FALSE
