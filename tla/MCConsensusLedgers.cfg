\* Changing ledgers and nested calls: one peer, one transaction, two ledgers,
\* two rounds, four changes of the preferred ledger.
SPECIFICATION FairSpec
CONSTANTS
    p1 = p1
    p2 = p2
    t1 = t1
    t2 = t2
    t3 = t3
    l1 = l1
    l2 = l2
    Peers <- OnePeer
    Txs <- OneTx
    LedgerIDs <- TwoLedgers
    None = None
    OpenSets <- AnySetOfOne
    seqLeave = 9
    RoundTimes <- ShortRoundTimes
    MaxSeq = 1
    MaxStored = 2
    MaxReceived = 1
    MaxRounds = 2
    MaxViews = 4
INVARIANTS
    PositionMatchesPhase
    PositionsAreCurrent
    WrongLedgerIsKnown
PROPERTIES
    FrozenWhileAccepted
    NoReturnBeforeNextRound
    CallsReturn
CHECK_DEADLOCK FALSE
