CONSTANTS
    Nothing = Nothing
    p1 = p1
    p2 = p2
    r1 = r1
    r2 = r2
    Processes = {p1, p2}
    Runners = {r1, r2}
    Process <- TwoProcesses
    Recipients = {1}
    Wallets = 1
    Target = 2
    MaxCommands = 1
    MaxFaults = 1
SPECIFICATION FairSpec
CHECK_DEADLOCK FALSE
INVARIANTS
    SuccessWasPaid
    PaidOncePerDoubt
PROPERTIES
    JobEnds
