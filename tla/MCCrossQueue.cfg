CONSTANTS
    a1 = a1
    a2 = a2
    b1 = b1
    f1 = f1
    s1 = s1
    s2 = s2
    None = None
    JobWallets = JobWallets
    FundTransfers = FundTransfers
    Rows = {a1, f1}
    Signers = {s1}
    QueueOf <- CrossQueueOf
    SignerOf <- CrossSignerOf
    Workers = {w1, w2}
    Candidates = 2
    BatchSize = 2
    MaxFaults = 0
SPECIFICATION Spec
CHECK_DEADLOCK FALSE
INVARIANTS
    OneProcessingPerSigner
