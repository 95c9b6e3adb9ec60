SPECIFICATION Spec
CONSTANTS
    Traced <- TracedPrograms
    Declared <- DeclaredPrograms
INVARIANTS
    TypeOK
    TracedCallsAreBoundOnce
    GradientNamesAreFresh
    FlatteningKeepsTheMeaning
    PendingGradientsAddUp
    ValueAndGradientsAreRight
    RefusedExactlyWhenUnsupported
CHECK_DEADLOCK FALSE
