CONSTANTS
    l1 = l1
    l2 = l2
    p1 = p1
    Global = Global
    Loops = {l1, l2}
    Processes = {p1}
    Process <- OneProcess
    Signers = {s1}
    Limit <- Caps
    MaxMinute = 1
    MaxCalls = 3
    MaxFaults = 2
    MaxSnaps = 3
SPECIFICATION FairSpec
CHECK_DEADLOCK FALSE
INVARIANT RedisNeverAbove
