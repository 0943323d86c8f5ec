CONSTANTS
    Jobs = {j1, j2}
    Payees = {p1, p2}
    Slots = {s1, s2}
    Workers = {w1}
    None = None
    MaxRequests = 5
    MaxEdits = 2
    MaxFaults = 1
SPECIFICATION Spec
SYMMETRY Symmetry
CHECK_DEADLOCK FALSE
INVARIANT
    NeverReopened
