CONSTANTS
    r1 = r1
    r2 = r2
    j1 = j1
    s1 = s1
    s2 = s2
    None = None
    Rows = {r1}
    Jobs = {j1}
    JobOf <- LoneJobOf
    SignerOf <- LoneSignerOf
    Workers = {w1}
    Operators = {o1}
    LoopJobs = {}
    MaxAttempts = 2
    BatchSize = 1
    Commands = {"start", "queue"}
    Faults = {}
    MaxFaults = 0
    MaxCommands = 2
SPECIFICATION Spec
CHECK_DEADLOCK FALSE
INVARIANTS
    PendingHasAttempts
