CONSTANTS
    Nothing = Nothing
    app = app
    worker = worker
    s1 = s1
    s2 = s2
    s3 = s3
    q1 = q1
    q2 = q2
    Apps = {app}
    Workers = {}
    Slots = {s1, s2, s3}
    Requests = {q1, q2}
    Process <- AppHomes
    Patches <- AppPatches
    MaxLoops = 2
    MaxPatches = 2
    MaxFaults = 0
SPECIFICATION Spec
CHECK_DEADLOCK FALSE
SYMMETRY AppSymmetry
INVARIANTS
    LostOnlyByOverlap
    LoopsFollowRow
