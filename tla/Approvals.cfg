\* One agent waiting at a gate, one reviewer, redaction of metadata: two
\* events beside the resolutions.
CONSTANTS
    None = None
    a1 = a1
    r1 = r1
    r2 = r2
    Agent = {a1}
    Reviewer = {r1}
    Erasable = {"metadata"}
    PageLimit = 20
    MaxTime = 1
    MaxEvents = 2
SPECIFICATION FairSpec
INVARIANTS TypeOK  ExpiredInTime OnlyRacesResolveTwice
PROPERTIES GatesClose
CHECK_DEADLOCK FALSE
