\* Two requests at a time, one subscriber allowed, one replacement of the Stream.
CONSTANTS
    h1 = h1
    h2 = h2
    Handler = {h1, h2}
    CacheTtl = 1
    VerifyTimeout = 1
    MaxAge = 2
    QueueSize = 1
    BatchSize = 2
    SubscriberCap = 1
    MaxStreams = 2
SYMMETRY Symmetry
SPECIFICATION Spec
INVARIANTS TypeOK PrivateNeedsTicket OnlyRacesExceedCap 
PROPERTIES RevocationWindow
CHECK_DEADLOCK FALSE
