\* The consumer loop through losses, cancellation and Shutdown.
SPECIFICATION FairSpec
CONSTANTS
    MaxFaults = 2
    FaultKinds = {"chan", "declare"}
    MaxChans = 3
    MayClose = TRUE
    MaxBackoff = 2
INVARIANTS
    ConsumerInv
    ShutdownWaits
PROPERTIES
    NoDoubleSubscription
    ConsumerRecovers
    CancelEndsLoop
CHECK_DEADLOCK FALSE
