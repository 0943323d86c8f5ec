CONSTANTS
    b1 = b1
    b2 = b2
    None = None
    Batches = {b1}
    Total <- OneTotal
    Chunk = 2
    Loops = {p1, p2}
    Owners = {o1}
    MaxFailures = 1
    MaxResumes = 0
SPECIFICATION BatchFairSpec
CHECK_DEADLOCK FALSE
PROPERTIES
    BatchesEnd
