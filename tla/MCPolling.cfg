CONSTANTS
    Nothing = Nothing
    app = app
    worker = worker
    s1 = s1
    s2 = s2
    s3 = s3
    q1 = q1
    q2 = q2
    Apps = {app}
    Workers = {worker}
    Slots = {s1, s3}
    Requests = {q1}
    Process <- BothHomes
    Patches <- BothPatches
    MaxLoops = 1
    MaxPatches = 1
    MaxFaults = 1
SPECIFICATION FairSpec
CHECK_DEADLOCK FALSE
PROPERTIES
    PauseReachesLoops
    QueueIsPolled
