SPECIFICATION FairSpec
CONSTANTS
    headless = headless
    desktop = desktop
    toHeadless = toHeadless
    toDesktop = toDesktop
    Command = {toHeadless, toDesktop}
    Host = {headless, desktop}
    Reaches <- MCReaches
    Display = {desktop}
    Session = {headless, desktop, here}
    Here = here
    Starts <- MCStarts
    Tailnet = {toHeadless, toDesktop}
    MaxSessions = 2
    MaxFaults = 1
    MaxChanges = 1
    None = none
INVARIANTS
    TypeOK
    ReadyMeansComplete
    ReadyMeansLoaded
PROPERTIES
    IdentityKept
    ConnectionsKept
    RetryCompletes
CHECK_DEADLOCK FALSE
