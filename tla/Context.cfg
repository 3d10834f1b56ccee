SPECIFICATION Spec
CONSTANTS
    Cells = {c1}
    Lists = {l1}
    Values = {v0, v1}
    Default = v0
    Absent = Absent
    MaxLevel = 2
    MaxLen = 3
INVARIANTS
    TypeOK
    ChainsWellFormed
    SavedSizesOrdered
PROPERTY
    ImplementsSnapshots
