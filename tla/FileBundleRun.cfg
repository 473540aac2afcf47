SPECIFICATION FairSpec
CONSTANTS
    x = x
    y = y
    xy = xy
    plain = plain
    exec = exec
    closed = closed
    Names <- MCNames
    Numbered <- MCNumbered
    Lossy <- MCLossy
    Body = {x, y, xy}
    Size <- MCSize
    Mode = {plain, exec, closed}
    Fresh = plain
    ReadOnly = closed
    Sources <- MCSources
    MaxBytes = 15
    Overhead = 1
    EntryBytes = 1
    MaxManifest = 4
    MaxTries = 2
    MaxEdits = 2
    MaxFaults = 2
    None = none
INVARIANTS
    BundlesDecode
    AcceptedIsWhole
    Preserved
PROPERTIES
    Materializes
CHECK_DEADLOCK FALSE
