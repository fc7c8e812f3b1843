SPECIFICATION Spec
CONSTANTS
    n1 = n1
    n2 = n2
    n3 = n3
    A1 = A1
    A2 = A2
    A3 = A3
    A4 = A4
    B2 = B2
    NoLedger = NoLedger
    Messages <- MCMessages
    Ledgers <- MCLedgers
    SeqOf <- MCSeqOf
    Parent <- MCParent
    Quorum = 2
    MaxGap = 2
    FetchSize = 2
    MaxFailures = 0
    MaxRounds = 1
SYMMETRY Symmetry

    
PROPERTIES
    ValidatedForward
CHECK_DEADLOCK FALSE
