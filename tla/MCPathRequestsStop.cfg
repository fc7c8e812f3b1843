SPECIFICATION FairSpec
CONSTANTS
    JobTypes = {1, 2}
    Limit <- MCLimit
    Bodies <- MCBodies
    PoolSize = 2
    Coros = {c1}
    UpdateType = 2
    ClientType = 1
    MaxLedger = 2
    MissingNodes = FALSE
PROPERTIES CoroutinesFinish
CHECK_DEADLOCK FALSE
