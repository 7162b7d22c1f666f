\* Concurrent publishers through losses, nacks and cancellations.
SPECIFICATION Spec
CONSTANTS
    MaxFaults = 2
    FaultKinds = {"conn", "chan", "declare", "nack"}
    MaxChans = 3
    MayClose = FALSE
    Calls = {p, q}
    Cancellable = {p, q}
    BadPriority = {p, q}
    NoCall = NoCall
    p = p
    q = q
SYMMETRY CallSymmetry
INVARIANTS
    PublisherInv
    ConfirmsMatch
    PanicNeedsTwoFaults
CHECK_DEADLOCK FALSE
