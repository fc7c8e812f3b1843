SPECIFICATION FairSpec
CONSTANTS
    us = us
    n1 = n1
    n2 = n2
    n3 = n3
    Nodes = {us, n1, n2, n3}
    Us = us
    Reports <- SomeReports
    NoTime = NoTime
INVARIANTS
    OffsetWithinReports
PROPERTIES
    OffsetSettles
