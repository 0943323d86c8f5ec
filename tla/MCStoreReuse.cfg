CONSTANTS
    Nothing = Nothing
    p1 = p1
    p2 = p2
    imported = imported
    Processes = {p1, p2}
    MaxIndex = 2
    Imported = {imported}
    Primary = 1
    MaxCount = 2
    MaxOps = 3
    MaxFaults = 0
SPECIFICATION Spec
CHECK_DEADLOCK FALSE
SYMMETRY Symmetric
INVARIANTS
    RemovedIsNotGenerated
