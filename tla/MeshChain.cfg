SPECIFICATION FairSpec
CONSTANTS
    Node <- Three
    Port <- ChainPorts
    NodeOf <- ChainNodeOf
    PeerOf <- ChainPeerOf
    Content <- Values
    Empty = "empty"
    Publish <- Rewritten
    Copiers <- OnlyA
    WireCap = 1
    MaxCopies = 2
    Faults = {}
    MaxFaults = 0
PROPERTIES
    FollowsNewest
    LastCopyEverywhere
CHECK_DEADLOCK FALSE
