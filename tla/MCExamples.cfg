\* The examples with a lost channel, or on queues that hold a message of an earlier execution.
SPECIFICATION Spec
CONSTANTS
    EmailJobs = 2
    EmailWorkers = 2
    SlowJobs = 2
    SlowWorkers = 2
    SeqPublishes = 2
    ParPublishes = 3
    Attempts = 3
    OldRuns = 1
    MaxLosses = 1
    None = None
CHECK_DEADLOCK FALSE
INVARIANT ExamplesInv
PROPERTIES ReportCoversStarted ProgramEnds
