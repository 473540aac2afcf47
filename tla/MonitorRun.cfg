SPECIFICATION FairMonitorSpec
CONSTANTS
    a = a
    b = b
    Node <- Both
    Peers <- BothPeers
    Watched = a
    MaxVersion = 2
    MaxFaults = 1
    MaxInbox = 2
INVARIANTS
    LastWordIsDesired
    OutdatedExplained
PROPERTIES
    DesiredOnlyAdvances
    DesireSpreads
    PressingHelps
CHECK_DEADLOCK FALSE
