SPECIFICATION Spec
CONSTANTS
    Variables = {x1, x2}
    Bounds = {0, 1}
    Tolerance = 0
    SnC = TRUE
    MaxLevel = 3
INVARIANTS
    TypeOK
    FlagExact
    BlamedVariableCrosses
    ScopesNested
PROPERTIES
    RestorationKeepsBounds
    ImplementsBoundsStack
CHECK_DEADLOCK FALSE
