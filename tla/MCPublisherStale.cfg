\* A cancelled call leaves its confirmation to the next one.
SPECIFICATION Spec
CONSTANTS
    MaxFaults = 0
    FaultKinds = {}
    MaxChans = 1
    MayClose = FALSE
    Calls = {p, q}
    Cancellable = {p}
    BadPriority = {}
    NoCall = NoCall
    p = p
    q = q
INVARIANT PublishedIsStored
CHECK_DEADLOCK FALSE
