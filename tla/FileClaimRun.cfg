SPECIFICATION FairClaimSpec
CONSTANTS
    Budget = 1
    MaxCopies = 6
    MaxErrors = 1
    MaxPuts = 2
    MaxClips = 1
    MaxRounds = 2
    MaxFaults = 1
INVARIANTS
    GivesUpAfterBudget
PROPERTIES
    EchoesStay
    DismissedIsKnown
    Mended
    ReadOrGivenUp
\* The users have made their copies and the watcher waits.
CHECK_DEADLOCK FALSE
