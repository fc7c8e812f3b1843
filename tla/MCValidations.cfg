SPECIFICATION ValidationsFairSpec
CONSTANTS
    n1 = n1
    n2 = n2
    A2 = A2
    A3 = A3
    B2 = B2
    Messages <- MCMessages
    Trusted = {n1}
    Listed = {n2}
    ValidEarly = 2
    ValidWall = 2
    MaxAdding = 2
    MaxTime = 3
INVARIANTS
    CurrentIsCounted
PROPERTIES
    ValidationsKept
    StaleIsWritten
    FlushReturns
CHECK_DEADLOCK FALSE
