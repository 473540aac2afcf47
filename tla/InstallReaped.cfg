SPECIFICATION FairSpec
CONSTANTS
    Updater = {"daemon"}
    MaxVersion = 3
    Broken = {2}
    Reaped = TRUE
    MaxFaults = 0
PROPERTY
    RolledBack
CHECK_DEADLOCK FALSE
