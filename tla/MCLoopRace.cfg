CONSTANTS
    r1 = r1
    r2 = r2
    j1 = j1
    s1 = s1
    s2 = s2
    None = None
    Rows = {r1, r2}
    Jobs = {j1}
    JobOf <- PairJobOf
    SignerOf <- PairSignerOf
    Workers = {w1, w2}
    Operators = {o1}
    LoopJobs = {j1}
    MaxAttempts = 2
    BatchSize = 2
    Commands = {"start"}
    Faults = {}
    MaxFaults = 0
    MaxCommands = 1
SPECIFICATION Spec
CHECK_DEADLOCK FALSE
INVARIANTS
    OneInFlightPerSigner
