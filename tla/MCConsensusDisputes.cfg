\* Disputes: one round on one ledger, two peers, two transactions.
SPECIFICATION Spec
CONSTANTS
    p1 = p1
    p2 = p2
    t1 = t1
    t2 = t2
    t3 = t3
    l1 = l1
    l2 = l2
    Peers <- TwoPeers
    Txs <- TwoTxs
    LedgerIDs <- OneLedger
    None = None
    OpenSets <- AnySetOfTwo
    seqLeave = 9
    RoundTimes <- FirstRoundTimes
    MaxSeq = 1
    MaxStored = 2
    MaxReceived = 2
    MaxRounds = 1
    MaxViews = 0
SYMMETRY PeersAndTxs
INVARIANTS
    OurVotesMatchOurSet
    DifferencesAreDisputed
    VotersHavePositions
    OurSetIsAcquired
CHECK_DEADLOCK FALSE
