SPECIFICATION DisputeSpec
CONSTANTS
    p1 = p1
    p2 = p2
    p3 = p3
    p4 = p4
    p5 = p5
    Voters <- MCVoters
    ConvergePercents <- MCConvergePercents
INVARIANTS
    CountersMatchVotes
PROPERTIES
    NeverAgainstEveryone
CHECK_DEADLOCK TRUE
