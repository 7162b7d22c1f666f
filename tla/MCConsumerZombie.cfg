\* Shutdown while the client connects.
SPECIFICATION FairSpec
CONSTANTS
    MaxFaults = 0
    FaultKinds = {}
    MaxChans = 1
    MayClose = TRUE
    MaxBackoff = 5
PROPERTY
    ShutdownEndsLoop
CHECK_DEADLOCK FALSE
