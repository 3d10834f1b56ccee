SPECIFICATION Spec
CONSTANTS
    Solvers = {s1, s2}
    Layers <- SmallLayers
    Values <- SmallValues
    Infinity = 3
    Problems <- SmallProblems
    None = None
INVARIANTS
    TypeOK
    SolutionsKept
    InfeasibilityHandled
PROPERTIES
    BoundsOnlyTighten
    EndsIfSignsAreFixed
CHECK_DEADLOCK FALSE
