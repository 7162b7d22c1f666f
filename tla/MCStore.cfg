\* Registration, start and shutdown from several goroutines.
SPECIFICATION FairSpec
CONSTANTS
    a = a
    b = b
    u = u
    Adds = {a, b, u}
    Parallelism <- MCParallelism
    Unknown = {u}
    Inits = {i, j, d}
    Dead = {d}
    Shutdowns = {s}
    Publishers = {p}
    NoCall = NoCall
    i = i
    j = j
    d = d
    s = s
    p = p
INVARIANTS
    StoreInv
    AddIsAtomic
    ShutdownClosesAll
    EarlyIsStarted
PROPERTY
    CallsReturn
CHECK_DEADLOCK FALSE
