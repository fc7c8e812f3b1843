\* Three peers; three ledgers in a row from both ends of the table.
SPECIFICATION Spec
CONSTANTS
    p1 = p1
    p2 = p2
    p3 = p3
    Peers <- ThreePeers
    Self = Self
    None = None
    FirstLedgers <- LedgersAtEnds
    ClockReadings <- Clock
    PeerTimes <- TimesOfPeers
    PercentTimes <- Percents
    MaxLedgers = 3
SYMMETRY Symmetry
INVARIANTS
    VoteMatchesLoop
PROPERTIES
    AgreedMeansMajority
    BuiltNearAgreed
    CloseTimesIncrease
CHECK_DEADLOCK FALSE
