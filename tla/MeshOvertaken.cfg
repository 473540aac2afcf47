SPECIFICATION FairSpec
CONSTANTS
    Node <- Pair
    Port <- DoublePorts
    NodeOf <- DoubleNodeOf
    PeerOf <- DoublePeerOf
    Content <- Values
    Empty = "empty"
    Publish <- Faithful
    Copiers <- OnlyA
    WireCap = 1
    MaxCopies = 2
    Faults = {}
    MaxFaults = 0
PROPERTY
    LastCopyEverywhere
CHECK_DEADLOCK FALSE
