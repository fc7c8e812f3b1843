SPECIFICATION FairSpec
CONSTANTS
    MaxThreads = 2
    JobTypes = {1, 2}
    Limit <- MCLimit
    TimerType = 1
    CoroType = 2
    MaxJobs = 2
INVARIANTS
    UnitForEachJob
    NoCountedJobAfterJoin
PROPERTIES
    PoolSpec
    JobsRun
    StopCompletes
