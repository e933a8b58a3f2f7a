\* Two clients, a buffer shorter than the stream, one replacement of the Stream.
CONSTANTS
    c1 = c1
    c2 = c2
    Client = {c1, c2}
    MaxBuffer = 1
    ChannelSize = 1
    MaxTokens = 2
    MaxStreams = 2
SPECIFICATION FairSpec
INVARIANTS TypeOK ExactDelivery 
PROPERTIES  ContractSpec
CHECK_DEADLOCK FALSE
