SPECIFICATION Spec
CONSTANTS
    Workers = {w1, w2}
    Points = {p1, p2}
    InitialParts = 1
    OnlineParts = 2
    DepthThreshold = 2
    TimeLimit = TRUE
    Failures = {"ERROR"}
    Signals = TRUE
    None = None
INVARIANTS
    TypeOK
    CounterExact
    SolutionsCovered
    AnswerSound
PROPERTY
    EndsUnlessMissed
CHECK_DEADLOCK FALSE
