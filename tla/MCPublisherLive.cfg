\* Every publish is confirmed, and close() releases every call.
SPECIFICATION FairSpec
CONSTANTS
    MaxFaults = 1
    FaultKinds = {"dial", "open", "nack"}
    MaxChans = 1
    MayClose = TRUE
    Calls = {p, q}
    Cancellable = {}
    BadPriority = {q}
    NoCall = NoCall
    p = p
    q = q
PROPERTIES
    PublishSucceeds
    CloseReleasesCalls
    CloseReturns
CHECK_DEADLOCK FALSE
