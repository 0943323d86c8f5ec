CONSTANTS
    r1 = r1
    r2 = r2
    j1 = j1
    s1 = s1
    s2 = s2
    None = None
    Rows = {r1, r2}
    Jobs = {j1}
    JobOf <- SameJobOf
    SignerOf <- SameSignerOf
    Workers = {w1, w2}
    Operators = {o1}
    LoopJobs = {}
    MaxAttempts = 2
    BatchSize = 2
    Commands = {"start", "startNow", "pause", "resume", "cancel", "edit", "adminPause", "retryFailed", "promoteDraft", "reconcileJob", "recover"}
    Faults = {"crash", "receipt", "ack", "resend", "dbError"}
    MaxFaults = 1
    MaxCommands = 3
SPECIFICATION Spec
SYMMETRY WorkerSymmetry
CHECK_DEADLOCK FALSE
INVARIANTS
    OneInFlightPerSigner
    PaidOncePerDoubt
    CompletedWasPaid
PROPERTIES
    CompletedIsFinal
