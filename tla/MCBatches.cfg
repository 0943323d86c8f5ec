CONSTANTS
    b1 = b1
    b2 = b2
    None = None
    Batches = {b1, b2}
    Total <- TwoTotals
    Chunk = 2
    Loops = {p1, p2}
    Owners = {o1}
    MaxFailures = 2
    MaxResumes = 2
SPECIFICATION BatchFairSpec
CHECK_DEADLOCK FALSE
INVARIANTS
    IndexesContiguous
    CompletedIsFull
    NoCollision
PROPERTIES
    WalletsMaterialize
