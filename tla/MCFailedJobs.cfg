SPECIFICATION Spec
CONSTANTS
    j0 = j0
    j1 = j1
    j2 = j2
    r1 = r1
    r2 = r2
    None = None
    MainJob = j0
    Leftovers <- MCLeftovers
    BodyOf <- MCBodyOf
    Requests <- MCRequests
    StoredCap = 2
    MaxTries = 1
    MaxLosses = 1
CHECK_DEADLOCK FALSE
INVARIANTS FailedJobsInv NoJobLost LostNeedsCancel TakenOnce
 
