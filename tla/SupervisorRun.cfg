SPECIFICATION FairSpec
CONSTANTS
    Client = {c1, c2}
    Slot = {s1, s2}
    Kind = {"start", "stop", "update"}
    MaxKills = 1
    Nobody = nobody
INVARIANTS
    OneDaemon
    StopHolds
PROPERTIES
    Revived
CHECK_DEADLOCK FALSE
