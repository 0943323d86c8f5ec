CONSTANTS
    r1 = r1
    r2 = r2
    j1 = j1
    s1 = s1
    s2 = s2
    None = None
    Rows = {r1}
    Jobs = {j1}
    JobOf <- LoneJobOf
    SignerOf <- LoneSignerOf
    Workers = {w1, w2}
    Operators = {o1}
    LoopJobs = {}
    MaxAttempts = 2
    BatchSize = 1
    Commands = {"start"}
    Faults = {"slow"}
    MaxFaults = 1
    MaxCommands = 1
SPECIFICATION Spec
CHECK_DEADLOCK FALSE
INVARIANTS
    OneInFlightPerSigner
