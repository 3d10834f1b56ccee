SPECIFICATION Spec
CONSTANTS
    Points = {p1, p2}
    Constraints = {c1}
    Phases = {inactive, active}
    NotFixed = NotFixed
    None = None
    Interval = Interval
    DeepSoI = TRUE
    SnC = TRUE
    Threshold = 2
    IntervalDepth = 1
    MaxCost = 2
INVARIANTS
    TypeOK
    StackFaithful
    InactiveHold
    AnswerRight
PROPERTIES
    StepsForward
    Termination
CHECK_DEADLOCK FALSE
