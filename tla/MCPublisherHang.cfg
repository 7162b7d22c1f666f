\* The channel is replaced between a publish and its wait.
SPECIFICATION FairSpec
CONSTANTS
    MaxFaults = 1
    FaultKinds = {"chan"}
    MaxChans = 2
    MayClose = FALSE
    Calls = {p}
    Cancellable = {}
    BadPriority = {}
    NoCall = NoCall
    p = p
PROPERTY PublishEnds
CHECK_DEADLOCK FALSE
