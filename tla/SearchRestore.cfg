SPECIFICATION SpecRestore
CONSTANTS
    Points = {p1, p2}
    Constraints = {c1}
    Phases = {inactive, active}
    NotFixed = NotFixed
    None = None
    Interval = Interval
    DeepSoI = FALSE
    SnC = TRUE
    Threshold = 1
    IntervalDepth = 1
    MaxCost = 0
INVARIANT
    UnsatMeansNone
CHECK_DEADLOCK FALSE
