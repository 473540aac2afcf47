SPECIFICATION FairSpec
CONSTANTS
    Updater = {"daemon", "command"}
    MaxVersion = 3
    Broken = {2}
    Reaped = FALSE
    MaxFaults = 1
INVARIANTS
    LiveComplete
    RollbackReadyAlone
PROPERTIES
    RolledBackAlone
    ReachesLatest
CHECK_DEADLOCK FALSE
