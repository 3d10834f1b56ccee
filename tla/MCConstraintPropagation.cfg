SPECIFICATION Spec
CONSTANTS
    Queries <- MCQueries
    Bounds <- MCBounds
    MaxDeductions = 2
INVARIANTS
    TypeOK
    SolutionKept
    FixedPhaseRight
    DisabledHolds
    NothingMissed
CHECK_DEADLOCK TRUE
