\* The metadata of a resolution is erased after its decision was reported.
CONSTANTS
    None = None
    a1 = a1
    r1 = r1
    r2 = r2
    Agent = {a1}
    Reviewer = {r1}
    Erasable = {"metadata"}
    PageLimit = 20
    MaxTime = 1
    MaxEvents = 2
SPECIFICATION Spec
INVARIANTS DecisionsAreFinal
CHECK_DEADLOCK FALSE
