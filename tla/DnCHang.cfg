SPECIFICATION Spec
CONSTANTS
    Workers = {w1, w2}
    Points = {p1}
    InitialParts = 1
    OnlineParts = 2
    DepthThreshold = 2
    TimeLimit = FALSE
    Failures = {}
    Signals = FALSE
    None = None
PROPERTY
    Ends
CHECK_DEADLOCK FALSE
