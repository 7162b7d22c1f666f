\* A queue with and without retry, with losses, crashes and every outcome.
SPECIFICATION FairSpec
CONSTANTS
    Messages = {a, b}
    Consumers = {x, y}
    NoJob = NoJob
    RetryModes = {TRUE, FALSE}
    Delay = 1
    Lifetime <- MCLifetime
    Headerless = {b}
    Outcomes = {"nil", "retry", "fatal", "panic"}
    TicksPerSecond = 2
    MaxTime = 5
    MaxLosses = 1
    a = a
    b = b
    x = x
    y = y
INVARIANTS
    DeliveryInv
    NothingLost
PROPERTIES
    IsJobQueue
    RetriesWithinWindow
    SettledUnlessPanic
CHECK_DEADLOCK FALSE
