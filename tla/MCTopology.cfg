\* Old and new deployments of a queue, and a queue named like its delay queue.
SPECIFICATION Spec
CONSTANTS
    Nil = Nil
    Millisecond = 2
    Procs = {1, 2}
    Names <- MCNames
    Versions <- MCVersions
    Deployment <- MCDeployment
    Contexts <- MCContexts
    Messages = {m}
    MaxStarts = 3
    MaxFaults = 1
    m = m
INVARIANTS
    TopologyInv
    NeverLost
    Isolated
    ContextRestored
PROPERTIES
    DelayHonoured
    BecomesReady
    ComesBack
CHECK_DEADLOCK FALSE
