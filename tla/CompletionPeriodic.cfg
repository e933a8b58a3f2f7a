\* A periodic checkpoint before the seal, whose own checkpoint fails.
CONSTANTS
    w1 = w1
    w2 = w2
    c1 = c1
    c2 = c2
    Writer = {w1}
    Completer = {c1, c2}
    CheckpointEvery = 2
    MaxSeq = 2
    MaxFaults = 3
SPECIFICATION Spec
INVARIANTS RefusedIsProtected
CHECK_DEADLOCK FALSE
