\* Two reviewers resolve the same gate.
CONSTANTS
    None = None
    a1 = a1
    r1 = r1
    r2 = r2
    Agent = {}
    Reviewer = {r1, r2}
    Erasable = {}
    PageLimit = 20
    MaxTime = 1
    MaxEvents = 2
SPECIFICATION Spec
INVARIANTS SecondResolutionRejected
CHECK_DEADLOCK FALSE
