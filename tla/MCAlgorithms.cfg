SPECIFICATION Spec
INVARIANTS
    NetworkBoundsSound
    TransformationsExact
    ConstructionExact
    PreprocessingExact
    FactorizationExact
    TableauCurrent
    StepsAndVerdictsRight
    CertificatesRight
CHECK_DEADLOCK FALSE
