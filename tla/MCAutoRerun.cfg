CONSTANTS
    r1 = r1
    r2 = r2
    j1 = j1
    s1 = s1
    s2 = s2
    None = None
    Rows = {r1}
    Jobs = {j1}
    JobOf <- LoneJobOf
    SignerOf <- LoneSignerOf
    Workers = {w1}
    Operators = {o1}
    LoopJobs = {j1}
    MaxAttempts = 1
    BatchSize = 1
    Commands = {"start", "pause", "cancel"}
    Faults = {}
    MaxFaults = 0
    MaxCommands = 2
SPECIFICATION Spec
CHECK_DEADLOCK FALSE
PROPERTIES
    NeverRerunsStoppedJob
