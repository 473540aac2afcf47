SPECIFICATION Spec
CONSTANTS
    Node <- Pair
    Port <- DoublePorts
    NodeOf <- DoubleNodeOf
    PeerOf <- DoublePeerOf
    Content <- Values
    Empty = "empty"
    Publish <- Rewritten
    Copiers <- OnlyA
    WireCap = 1
    MaxCopies = 2
    Faults = {"apply", "readback", "link"}
    MaxFaults = 1
INVARIANTS
    AppliedOnce
    EchoOnlyUnguarded
    QuietWatcherIsCurrent
CHECK_DEADLOCK FALSE
