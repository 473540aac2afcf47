SPECIFICATION Spec
CONSTANTS
    Copies <- MCCopies
    Limit <- MCLimit
    PipeCap = 2
    MaxNews = 1
    MaxFaults = 1
INVARIANTS
    FramesHold
PROPERTIES
    FollowsQueue
    WritesFinish
    Settles
\* All copies are sent and both ends wait.
CHECK_DEADLOCK FALSE
