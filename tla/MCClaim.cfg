CONSTANTS
    a1 = a1
    a2 = a2
    b1 = b1
    f1 = f1
    s1 = s1
    s2 = s2
    None = None
    JobWallets = JobWallets
    FundTransfers = FundTransfers
    Rows = {a1, a2, b1, f1}
    Signers = {s1, s2}
    QueueOf <- MixQueueOf
    SignerOf <- MixSignerOf
    Workers = {w1, w2}
    Candidates = 2
    BatchSize = 2
    MaxFaults = 1
SPECIFICATION FairSpec
CHECK_DEADLOCK FALSE
INVARIANTS
    OneProcessingPerKey
    RowHeldOnce
PROPERTIES
    ImplementsLease
    RowsGetDone
