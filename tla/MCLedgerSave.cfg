SPECIFICATION FairSpec
CONSTANTS
    l1 = l1
    l2 = l2
    t1 = t1
    t2 = t2
    t3 = t3
    Threads = {t1, t2, t3}
    Ledgers = {l1, l2}
    Seqs = {1}
    SeqOf <- SameSeq
    None = None
    MaxCalls = 3
    MaxCrashes = 1
INVARIANTS
    OneWriter
    RowsAgree
    ScheduledHasOwner
    FlagIsKept
PROPERTIES
    CallsReturn
CHECK_DEADLOCK FALSE
