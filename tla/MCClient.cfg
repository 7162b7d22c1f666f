\* The connection manager with every kind of fault and close() at any moment.
SPECIFICATION ClientFairSpec
CONSTANTS
    MaxFaults = 4
    FaultKinds = {"dial", "open", "declare", "conn", "chan"}
    MaxChans = 8
    MayClose = TRUE
INVARIANTS
    NoOrphan
    ReadyIsInitialised
PROPERTIES
    Recovers
    ManagerEnds
CHECK_DEADLOCK FALSE
